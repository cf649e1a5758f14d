---------------------------- MODULE MCServerPull ----------------------------
(* A process with all its modules and one inside an application with two     *)
(* threads; pulls of every kind, of a repository with one file kept by git   *)
(* and one kept by LFS, and a server that pulls an exported model.           *)
EXTENDS ServerPull
CONSTANTS main, other, h, cfg, bin
MCThreads == {main, other}
MCHandlers == {h}
MCFiles == {cfg, bin}
MCLfsFiles == {bin}
Settings(host, mode, front, python) ==
    [host |-> host, mode |-> mode, grpc |-> front, rest |-> front, python |-> python,
     watch |-> mode = "SERVING_MODELS"]
Serves == Settings("process", "SERVING_MODELS", TRUE, TRUE)
Embedded == Settings("application", "SERVING_MODELS", TRUE, FALSE)
PullsOnly == Settings("process", "HF_PULL", FALSE, FALSE)
PullsAndServes == Settings("process", "HF_PULL_AND_START", TRUE, FALSE)
Configures == Settings("process", "MODIFY_CONFIG", FALSE, FALSE)
MCCommands == {Serves, Embedded, PullsOnly, PullsAndServes, Configures}
MCMishaps == [m \in Modes |-> IF m = "HF_PULL" THEN 0 ELSE 1]

\* Two kills and one of each other fault; with adapters or a draft model, one
\* kill, or no edit and no overwriting.
AllFaults == [f \in Faults |-> IF f = "kill" THEN 2 ELSE 1]
OneOfEach == [f \in Faults |-> 1]
NoUser == [AllFaults EXCEPT !.edit = 0, !.overwrite = 0]
NoUserOneKill == [NoUser EXCEPT !.kill = 1]
NoFaults == [f \in Faults |-> 0]
MCBudgets == {AllFaults, OneOfEach, NoUser, NoUserOneKill, NoFaults}
MCScenarios ==
    ({PullsOnly} \X {"Text", "Gguf", "Optimum"} \X {AllFaults}) \cup
    ({PullsOnly} \X {"Image", "TextDraft"} \X {OneOfEach, NoUser}) \cup
    ({PullsAndServes} \X {"Optimum"} \X {NoUserOneKill}) \cup
    ({Serves, Embedded, Configures} \X {"Optimum"} \X {NoFaults})
=============================================================================
