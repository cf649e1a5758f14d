----------------------------- MODULE ServerPull ------------------------------
(***************************************************************************)
(* The server together with the model it pulls.  `ovms --pull' starts, pulls *)
(* and ends; with --source_model it starts its front ends, pulls, loads and  *)
(* serves.  Server::startModules is in HfPullModelModule::clone meanwhile:   *)
(* the signal that asks the server to end is the one that stops the pull, a  *)
(* pull that fails is a start that fails, and what a kill leaves on disk is  *)
(* what the next process finds.                                             *)
(***************************************************************************)
EXTENDS ServerLifecycle, ModelPull

CONSTANT Scenarios      \* <<command, kind of the model, faults>>

Pulls == command.mode \in {"HF_PULL", "HF_PULL_AND_START"}

PullServerInit == ServerInit /\ Init /\ <<command, kind, faults>> \in Scenarios

\* The pull begins under the shutdown request that may be there already.
PullBegins(t, ow) == StartsPull(t) /\ Start(ow, asked)

\* The pull goes on; when it ends, the start of the server does.
PullStep(t) ==
    /\ Step
    /\ IF pc' = "Down" THEN CloneReturns(t, outcome' = "OK")
       ELSE at[t] = "cloning" /\ UNCHANGED serverVars

\* A signal or a kill hits the pull, or the rest of the life of the process.  A
\* process that only pulls does nothing of note before and after it, but for
\* the signal that comes before.
Outside(k) ==
    \/ ~Pulls /\ UNCHANGED vars
    \/ Pulls /\ pc = "Down" /\ Fault(k) /\ UNCHANGED <<kind, disk, run, ghosts>>

SignalStops ==
    /\ Signal
    /\ command.mode = "HF_PULL" => at[Main] \in Starting
    /\ Stop \/ Outside("stop")

KilledAnywhere ==
    /\ Killed
    /\ command.mode = "HF_PULL" => at[Main] = "cloning"
    /\ Kill \/ Outside("kill")

\* The user changes files while no server runs.
UserChanges ==
    /\ Pulls /\ ~alive /\ UNCHANGED serverVars
    /\ \E r \in Repos, f \in Files : UserEdits(r, f)

ServerAlone ==
    /\ \E t \in Threads : CallsStart(t) \/ CallsDelete(t) \/ ThreadStep(t)
    /\ UNCHANGED vars

Beside == (Requests \/ WatcherReloads \/ WatcherSleeps) /\ UNCHANGED vars

PullServerNext ==
    \/ ServerAlone \/ Beside
    \/ \E t \in Threads : PullStep(t) \/ \E ow \in BOOLEAN : PullBegins(t, ow)
    \/ SignalStops \/ KilledAnywhere \/ UserChanges

allVars == <<serverVars, vars>>

\* As in the two modules; a pull is begun again after every end of the process.
PullServerFairness ==
    /\ \A t \in Threads : WF_allVars(ThreadStep(t) /\ UNCHANGED vars)
    /\ WF_allVars(PullStep(Main) \/ PullBegins(Main, FALSE))
    /\ WF_allVars(Pulls /\ CallsStart(Main) /\ UNCHANGED vars)
    /\ \A h \in Handlers : WF_allVars(Answers(h) /\ UNCHANGED vars)
    /\ WF_allVars(WatcherSleeps /\ UNCHANGED vars)

PullServerSpec == PullServerInit /\ [][PullServerNext]_allVars /\ PullServerFairness

-----------------------------------------------------------------------------
(* Properties                                                              *)

\* A server that pulls its model loads it only when it is whole, and `ovms
\* --pull' ends with EX_OK only then: a stop or a failure at any moment of the
\* pull is neither served nor reported as success.
WholeModelServed ==
    /\ \A t \in Threads : Pulls /\ at[t] \in {"load", "loading", "release", "serving"} =>
          outcome = "OK" /\ OkMeansComplete
    /\ Pulls /\ ~alive /\ exit = "EX_OK" => outcome = "OK"
    /\ Pulls /\ pc # "Down" => \E t \in Threads : at[t] = "cloning"

\* What a server promises at any moment of its life, whatever it pulls.
ServerIsSound == ServerSafety /\ WholeModelServed

\* With finitely many kills, stops and failures, starting the server again and
\* again ends with a whole model, unless the disk is beyond resuming.
PullsComplete == Pulls => PullCompletes

\* What is begun gets done: pulls, starts and stops.
ServerGetsDone == PullsComplete /\ ServerStops
=============================================================================
