----------------------------- MODULE ModelPull ------------------------------
(***************************************************************************)
(* Pulling a model to disk: runs of `ovms --pull' that may be stopped by a  *)
(* signal, lose the network or be killed at any step, and the user who      *)
(* runs the same command again, edits files in between, or asks for         *)
(* overwriting.  What survives a run is on disk: the directory of the       *)
(* repository, the .lfswip marker next to it, lfs_error.txt and the         *)
(* .lfs_part files.                                                         *)
(*                                                                         *)
(* The LFS filter that downloads a file during a checkout is a patch to     *)
(* libgit2 kept in the repository (third_party/libgit2/lfs.patch); it is    *)
(* modelled by what it leaves on disk.  The rest of libgit2 (git_clone,     *)
(* checkouts) and curl are external: they are the actions that choose       *)
(* between success and failure, and what a kill leaves of the file they     *)
(* were writing.  A file is "Torn" when it is neither whole nor a pointer.  *)
(* The draft model of a text generation graph is a second repository whose  *)
(* directory is inside the one of the main model.                          *)
(***************************************************************************)
EXTENDS Naturals, FiniteSets

CONSTANTS
    Files,         \* files of a repository, or the parts of a GGUF model
    LfsFiles,      \* the ones stored by LFS: their blob is a pointer
    Kinds,         \* what may be pulled: a subset of AllKinds
    Budgets        \* bounds: how often each fault may happen, the alternatives

AllKinds == {"Text", "TextDraft", "Image", "Gguf", "Optimum"}
Faults == {"kill", "fail", "stop", "edit", "overwrite"}
ASSUME PullAssumption ==
    /\ LfsFiles \subseteq Files /\ Kinds \subseteq AllKinds
    /\ Budgets \subseteq [Faults -> Nat]

Repos == {"main", "draft"}
Plain == Files \ LfsFiles
Content == {"Missing", "Pointer", "Full", "Torn", "Edited"}
Outcomes == {"None", "OK", "Killed", "Cancelled", "CloneFailed", "LfsFailed",
             "GitFailed", "Unclean", "Failed"}

VARIABLES
    kind,
    head,       \* head[r]: what git finds at the directory of r
    file,       \* file[r][f]
    part,       \* part[r][f]: the .lfs_part file, "Bad" if a kill spoilt it
    index,      \* index[r]: files with an entry in the index of git
    marker,     \* marker[r]: the .lfswip marker is there
    err,        \* err[r]: lfs_error.txt is there
    adapter,    \* the LoRA adapter at its final path
    graph,      \* graph.pbtxt is there
    pc, repo,   \* the step of the run and the repository it is at
    todo,       \* <<repository, file>> of the files to download
    missing,    \* files without LFS to restore
    cur,        \* the file in work
    resuming,   \* the repository is resumed, not cloned
    overwrite,  \* --overwrite_models
    stop,       \* the shutdown was requested by a signal
    outcome,    \* of the last run
    touched,    \* touched[r]: files the user changed since r was cloned
    done,       \* done[r]: the download of r ended well after it was cloned
    half,       \* half[r]: a removal of r for overwriting was begun
    faults      \* how often each fault may still happen

disk == <<head, file, part, index, marker, err, adapter, graph>>
run == <<pc, repo, todo, missing, cur, resuming, overwrite, stop, outcome>>
ghosts == <<touched, done, half>>
vars == <<kind, disk, run, ghosts, faults>>

Git == kind \in {"Text", "TextDraft", "Image"}
None == "None"

TypeOK ==
    /\ kind \in Kinds
    /\ head \in [Repos -> {"Absent", "NoGit", "Broken", "Unborn", "Born"}]
    /\ file \in [Repos -> [Files -> Content]]
    /\ part \in [Repos -> [LfsFiles -> {"None", "Good", "Bad"}]]
    /\ index \in [Repos -> SUBSET Files]
    /\ marker \in [Repos -> BOOLEAN] /\ err \in [Repos -> BOOLEAN]
    /\ adapter \in {"Missing", "Full"} /\ graph \in BOOLEAN
    /\ pc \in {"Down", "Entry", "Remove", "GitInit", "GitFetch", "Checkout",
               "Transfer", "CloneFinal", "Resume", "ResumeCheckout", "Restore",
               "IndexHead", "ResumeFinal", "Parts", "Export", "Adapter", "Graph"}
    /\ repo \in Repos /\ todo \subseteq Repos \X Files /\ missing \subseteq Files
    /\ cur \in Files \cup {None}
    /\ {resuming, overwrite, stop} \subseteq BOOLEAN /\ outcome \in Outcomes
    /\ touched \in [Repos -> SUBSET Files]
    /\ done \in [Repos -> BOOLEAN] /\ half \in [Repos -> BOOLEAN]
    /\ faults \in [Faults -> Nat]

Nothing == [f \in Files |-> "Missing"]
NoPart == [f \in LfsFiles |-> "None"]

(* The directory is not there yet, or the user made it by hand.             *)
Init ==
    /\ kind \in Kinds
    /\ \E h \in {"Absent", "NoGit"} :
          /\ head = [r \in Repos |-> IF r = "main" THEN h ELSE "Absent"]
          /\ file = [r \in Repos |-> IF r = "main" /\ h = "NoGit"
                                     THEN [f \in Files |-> "Edited"] ELSE Nothing]
          /\ touched = [r \in Repos |-> IF r = "main" /\ h = "NoGit" THEN Files ELSE {}]
    /\ part = [r \in Repos |-> NoPart] /\ index = [r \in Repos |-> {}]
    /\ marker = [r \in Repos |-> FALSE] /\ err = [r \in Repos |-> FALSE]
    /\ adapter = "Missing" /\ graph = FALSE
    /\ pc = "Down" /\ repo = "main" /\ todo = {} /\ missing = {} /\ cur = None
    /\ resuming = FALSE /\ overwrite = FALSE /\ stop = FALSE /\ outcome = "None"
    /\ done = [r \in Repos |-> FALSE] /\ half = [r \in Repos |-> FALSE]
    /\ faults \in Budgets

-----------------------------------------------------------------------------
(* Faults and how a run moves on.                                           *)

Fault(k) == faults[k] > 0 /\ faults' = [faults EXCEPT ![k] = @ - 1]

(* The process ends with outcome o; what it kept in memory is gone.         *)
End(o) ==
    /\ pc' = "Down" /\ outcome' = o
    /\ repo' = "main" /\ todo' = {} /\ missing' = {} /\ cur' = None
    /\ resuming' = FALSE /\ overwrite' = FALSE /\ stop' = FALSE

Goto(p) == pc' = p /\ UNCHANGED <<repo, overwrite, stop, outcome>>

(* The network may fail; once a stop is requested every transfer fails.     *)
TransferFails == IF stop THEN UNCHANGED faults ELSE Fault("fail")

(* After the download of repo: the draft, the adapters, then the graph.     *)
NextDownload ==
    /\ IF repo = "main" /\ kind = "TextDraft"
       THEN repo' = "draft" /\ pc' = "Entry"
       ELSE UNCHANGED repo /\ pc' = (IF kind = "Image" THEN "Adapter" ELSE "Graph")
    /\ todo' = {} /\ missing' = {} /\ cur' = None /\ resuming' = FALSE
    /\ UNCHANGED <<overwrite, stop, outcome>>

Downloaded ==
    /\ NextDownload
    /\ done' = [done EXCEPT ![repo] = TRUE]
    /\ UNCHANGED <<touched, half>>

(* A stop may have been requested before the pull begins.                   *)
Start(ow, requested) ==
    /\ pc = "Down"
    /\ IF ow THEN Fault("overwrite") ELSE UNCHANGED faults
    /\ pc' = "Entry" /\ overwrite' = ow /\ stop' = requested /\ outcome' = "None"
    /\ UNCHANGED <<kind, repo, todo, missing, cur, resuming, disk, ghosts>>

(* SIGINT or SIGTERM sets the shutdown request, which the callbacks poll.   *)
Stop ==
    /\ pc # "Down" /\ ~stop
    /\ Fault("stop")
    /\ stop' = TRUE
    /\ UNCHANGED <<kind, disk, ghosts, pc, repo, todo, missing, cur, resuming,
                   overwrite, outcome>>

-----------------------------------------------------------------------------
(* What a run finds.                                                        *)

Exists(r, f) == file[r][f] # "Missing"

(* Everything below the directory is searched, the draft's included; only   *)
(* the .git directories are left out.                                       *)
findLfsLikeFiles(r) ==
    {x \in Repos \X Files : (r = "main" \/ x[1] = r) /\ file[x[1]][x[2]] = "Pointer"}

MissingLfs(r) == {<<r, f>> : f \in {g \in LfsFiles : head[r] = "Born" /\ ~Exists(r, g)}}
findResumableLfsFiles(r, walkHead) ==
    findLfsLikeFiles(r) \cup (IF walkHead THEN MissingLfs(r) ELSE {})

findMissingTrackedNonLfsFiles(r) == {f \in Plain : head[r] = "Born" /\ ~Exists(r, f)}

(* CheckRepositoryStatus: staged is what the index lacks, unstaged is what   *)
(* differs in the worktree (the clean filter hashes files kept by LFS).     *)
Clean(r) == head[r] = "Born" /\ index[r] = Files /\ \A f \in Files : file[r][f] = "Full"

HasResumableState(r) == marker[r] \/ err[r] \/ findLfsLikeFiles(r) # {}

-----------------------------------------------------------------------------
(* A fresh clone.                                                           *)

Removed(r) ==
    /\ head' = [head EXCEPT ![r] = "Absent"]
    /\ file' = [file EXCEPT ![r] = Nothing]
    /\ part' = [part EXCEPT ![r] = NoPart]
    /\ index' = [index EXCEPT ![r] = {}]
    /\ err' = [err EXCEPT ![r] = FALSE]

(* --overwrite_models: nested directories go at once, then file by file.    *)
BeginRemoval ==
    /\ pc = "Entry" /\ Git /\ overwrite /\ head[repo] # "Absent"
    /\ IF repo = "main"
       THEN /\ head' = [head EXCEPT !["draft"] = "Absent"]
            /\ file' = [file EXCEPT !["draft"] = Nothing]
            /\ part' = [part EXCEPT !["draft"] = NoPart]
            /\ index' = [index EXCEPT !["draft"] = {}]
            /\ err' = [err EXCEPT !["draft"] = FALSE]
            /\ adapter' = "Missing" /\ graph' = FALSE
            /\ touched' = [touched EXCEPT !["draft"] = {}]
            /\ done' = [r \in Repos |-> FALSE]
            /\ half' = [half EXCEPT !["main"] = TRUE, !["draft"] = FALSE]
       ELSE /\ UNCHANGED <<head, file, part, index, err, adapter, graph, touched>>
            /\ done' = [done EXCEPT ![repo] = FALSE]
            /\ half' = [half EXCEPT ![repo] = TRUE]
    /\ Goto("Remove")
    /\ UNCHANGED <<kind, marker, todo, missing, cur, resuming, faults>>

RemoveFile(f) ==
    /\ pc = "Remove" /\ Exists(repo, f)
    /\ file' = [file EXCEPT ![repo][f] = "Missing"]
    /\ UNCHANGED <<kind, head, part, index, marker, err, adapter, graph, run, ghosts, faults>>

RemoveGit ==
    /\ pc = "Remove" /\ head[repo] \notin {"Absent", "NoGit"}
    /\ head' = [head EXCEPT ![repo] = "NoGit"]
    /\ UNCHANGED <<kind, file, part, index, marker, err, adapter, graph, run, ghosts, faults>>

(* The directory is gone: executeClone creates the marker and clones.       *)
BeginClone ==
    /\ Git
    /\ \/ pc = "Entry" /\ head[repo] = "Absent"
       \/ /\ pc = "Remove" /\ head[repo] = "NoGit"
          /\ \A f \in Files : ~Exists(repo, f)
    /\ Removed(repo)
    /\ marker' = [marker EXCEPT ![repo] = TRUE]
    /\ half' = [half EXCEPT ![repo] = FALSE]
    /\ done' = [done EXCEPT ![repo] = FALSE]
    /\ touched' = [touched EXCEPT ![repo] = {}]
    /\ Goto("GitInit")
    /\ UNCHANGED <<kind, adapter, graph, todo, missing, cur, resuming, faults>>

(* git_clone makes the directory, then .git, then what is in it.            *)
GitInit ==
    /\ pc = "GitInit"
    /\ head' = [head EXCEPT ![repo] = CASE @ = "Absent" -> "NoGit"
                                        [] @ = "NoGit" -> "Broken"
                                        [] OTHER -> "Unborn"]
    /\ IF head[repo] = "Broken" THEN Goto("GitFetch")
       ELSE UNCHANGED <<pc, repo, overwrite, stop, outcome>>
    /\ UNCHANGED <<kind, file, part, index, marker, err, adapter, graph, todo, missing,
                   cur, resuming, ghosts, faults>>

GitFetch ==
    /\ pc = "GitFetch" /\ ~stop
    /\ head' = [head EXCEPT ![repo] = "Born"]
    /\ todo' = {<<repo, f>> : f \in Files}
    /\ Goto("Checkout")
    /\ UNCHANGED <<kind, file, part, index, marker, err, adapter, graph, missing, cur,
                   resuming, ghosts, faults>>

(* git_clone removes what it made when it fails; the marker stays.          *)
GitFetchFails ==
    /\ pc = "GitFetch" /\ TransferFails
    /\ Removed(repo)
    /\ End(IF stop THEN "Cancelled" ELSE "CloneFailed")
    /\ UNCHANGED <<kind, marker, adapter, graph, ghosts>>

CheckedOut(f) ==
    /\ file' = [file EXCEPT ![repo][f] = IF f \in LfsFiles THEN "Pointer" ELSE "Full"]
    /\ IF f \in LfsFiles THEN Goto("Transfer") /\ cur' = f
       ELSE UNCHANGED <<pc, repo, overwrite, stop, outcome, cur>>

CloneCheckout(f) ==
    /\ pc = "Checkout" /\ <<repo, f>> \in todo
    /\ todo' = todo \ {<<repo, f>>}
    /\ CheckedOut(f)
    /\ UNCHANGED <<kind, head, part, index, marker, err, adapter, graph, missing, resuming,
                   ghosts, faults>>

CloneWritesIndex ==
    /\ pc = "Checkout" /\ todo = {}
    /\ index' = [index EXCEPT ![repo] = Files]
    /\ Goto("CloneFinal")
    /\ UNCHANGED <<kind, head, file, part, marker, err, adapter, graph, todo, missing, cur,
                   resuming, ghosts, faults>>

(* lfs_download: from where the .lfs_part file ends, checked by size only,   *)
(* and renamed over the pointer.                                            *)
Transfer ==
    /\ pc = "Transfer" /\ ~stop
    /\ file' = [file EXCEPT ![repo][cur] = IF part[repo][cur] = "Bad" THEN "Torn" ELSE "Full"]
    /\ part' = [part EXCEPT ![repo][cur] = "None"]
    /\ Goto(IF resuming THEN "Resume" ELSE "Checkout") /\ cur' = None
    /\ UNCHANGED <<kind, head, index, marker, err, adapter, graph, todo, missing, resuming,
                   ghosts, faults>>

(* A server that does not resume, or a part longer than the file: the       *)
(* download starts from zero and is whole, but lfs_error.txt tells of it.   *)
TransferRestarts ==
    /\ pc = "Transfer" /\ ~stop /\ part[repo][cur] # "None"
    /\ file' = [file EXCEPT ![repo][cur] = "Full"]
    /\ part' = [part EXCEPT ![repo][cur] = "None"]
    /\ err' = [err EXCEPT ![repo] = TRUE]
    /\ Goto(IF resuming THEN "Resume" ELSE "Checkout") /\ cur' = None
    /\ UNCHANGED <<kind, head, index, marker, adapter, graph, todo, missing, resuming,
                   ghosts, faults>>

(* A failure leaves the pointer and lfs_error.txt and fails no checkout.    *)
TransferAborts ==
    /\ pc = "Transfer" /\ TransferFails
    /\ err' = [err EXCEPT ![repo] = TRUE]
    /\ part' = [part EXCEPT ![repo][cur] = IF @ = "Bad" THEN @ ELSE "Good"]
    /\ Goto(IF resuming THEN "Resume" ELSE "Checkout") /\ cur' = None
    /\ UNCHANGED <<kind, head, file, index, marker, adapter, graph, todo, missing, resuming,
                   ghosts>>

(* Mutant: the errors are reported, so the marker goes.                     *)
LfsErrorUnmarks(p) ==
    /\ pc = p /\ err[repo]
    /\ err' = [err EXCEPT ![repo] = FALSE]
    /\ marker' = [marker EXCEPT ![repo] = FALSE]
    /\ End("LfsFailed")
    /\ UNCHANGED <<kind, head, file, part, index, adapter, graph, ghosts, faults>>

LfsErrorFound(p) ==
    /\ pc = p /\ err[repo]
    /\ err' = [err EXCEPT ![repo] = FALSE]
    /\ End("LfsFailed")
    /\ UNCHANGED <<kind, head, file, part, index, marker, adapter, graph, ghosts, faults>>

(* Mutant: the marker stays after a good end.                               *)
StatusCheckedMarked(p) ==
    /\ pc = p /\ ~err[repo]
    /\ IF Clean(repo) THEN Downloaded ELSE End("Unclean") /\ UNCHANGED ghosts
    /\ UNCHANGED <<kind, head, file, part, index, marker, err, adapter, graph, faults>>

StatusChecked(p) ==
    /\ pc = p /\ ~err[repo]
    /\ IF Clean(repo) THEN marker' = [marker EXCEPT ![repo] = FALSE] /\ Downloaded
       ELSE End("Unclean") /\ UNCHANGED <<marker, ghosts>>
    /\ UNCHANGED <<kind, head, file, part, index, err, adapter, graph, faults>>

finalizeAfterClone == LfsErrorFound("CloneFinal") \/ StatusChecked("CloneFinal")

-----------------------------------------------------------------------------
(* A directory that is already there.                                       *)

UseExisting ==
    /\ pc = "Entry" /\ Git /\ ~overwrite /\ head[repo] # "Absent"
    /\ head[repo] = "NoGit" \/ ~HasResumableState(repo)
    /\ NextDownload
    /\ UNCHANGED <<kind, disk, ghosts, faults>>

CannotOpen ==
    /\ pc = "Entry" /\ Git /\ ~overwrite /\ head[repo] = "Broken"
    /\ HasResumableState(repo)
    /\ End("GitFailed")
    /\ UNCHANGED <<kind, disk, ghosts, faults>>

BeginResume ==
    /\ pc = "Entry" /\ Git /\ ~overwrite /\ head[repo] \in {"Unborn", "Born"}
    /\ HasResumableState(repo)
    /\ todo' = findResumableLfsFiles(repo, marker[repo] \/ err[repo])
    /\ missing' = IF marker[repo] THEN findMissingTrackedNonLfsFiles(repo) ELSE {}
    /\ marker' = [marker EXCEPT ![repo] = TRUE]
    /\ err' = [err EXCEPT ![repo] = FALSE]
    /\ resuming' = TRUE /\ Goto("Resume")
    /\ UNCHANGED <<kind, head, file, part, index, adapter, graph, cur, ghosts, faults>>

(* A pointer that is not of this repository has no entry in its HEAD.       *)
ResumeForeign ==
    /\ pc = "Resume" /\ ~stop
    /\ \E x \in todo : x[1] # repo
    /\ End("LfsFailed")
    /\ UNCHANGED <<kind, disk, ghosts, faults>>

(* resumeLfsDownloadForFile: the entry of the index first, then the file.   *)
ResumeFile(f) ==
    /\ pc = "Resume" /\ ~stop /\ <<repo, f>> \in todo
    /\ todo' = todo \ {<<repo, f>>}
    /\ index' = [index EXCEPT ![repo] = @ \cup {f}]
    /\ file' = [file EXCEPT ![repo][f] = "Missing"]
    /\ cur' = f /\ Goto("ResumeCheckout")
    /\ UNCHANGED <<kind, head, part, marker, err, adapter, graph, missing, resuming, ghosts,
                   faults>>

(* git_checkout_head passes over what the index lacks.                      *)
ResumeCheckout ==
    /\ pc = "ResumeCheckout" /\ ~stop
    /\ IF cur \in index[repo]
       THEN CheckedOut(cur)
       ELSE Goto("Resume") /\ cur' = None /\ UNCHANGED file
    /\ UNCHANGED <<kind, head, part, index, marker, err, adapter, graph, todo, missing,
                   resuming, ghosts, faults>>

BeginRestore ==
    /\ pc = "Resume" /\ todo = {}
    /\ missing = {} \/ ~stop
    /\ index' = [index EXCEPT ![repo] = @ \cup missing]
    /\ Goto(IF missing = {} THEN "IndexHead" ELSE "Restore")
    /\ UNCHANGED <<kind, head, file, part, marker, err, adapter, graph, todo, missing, cur,
                   resuming, ghosts, faults>>

RestoreFile(f) ==
    /\ pc = "Restore" /\ f \in missing
    /\ file' = [file EXCEPT ![repo][f] = IF f \in index[repo] THEN "Full" ELSE @]
    /\ missing' = missing \ {f}
    /\ IF missing' = {} THEN Goto("IndexHead")
       ELSE UNCHANGED <<pc, repo, overwrite, stop, outcome>>
    /\ UNCHANGED <<kind, head, part, index, marker, err, adapter, graph, todo, cur, resuming,
                   ghosts, faults>>

(* The callbacks of the two checkouts and the loop over the files see a stop.*)
ResumeCancelled ==
    /\ stop
    /\ \/ pc = "ResumeCheckout" /\ UNCHANGED index
       \/ pc = "Resume" /\ todo # {} /\ UNCHANGED index
       \/ /\ pc = "Resume" /\ todo = {} /\ missing # {}
          /\ index' = [index EXCEPT ![repo] = @ \cup missing]
    /\ End("Cancelled")
    /\ UNCHANGED <<kind, head, file, part, marker, err, adapter, graph, ghosts, faults>>

restoreGitIndexToHead ==
    /\ pc = "IndexHead"
    /\ IF head[repo] = "Born"
       THEN /\ index' = [index EXCEPT ![repo] = Files]
            /\ Goto("ResumeFinal") /\ UNCHANGED <<todo, missing, cur, resuming>>
       ELSE End("GitFailed") /\ UNCHANGED index
    /\ UNCHANGED <<kind, head, file, part, marker, err, adapter, graph, ghosts, faults>>

FinishResume == LfsErrorFound("ResumeFinal") \/ StatusChecked("ResumeFinal")

-----------------------------------------------------------------------------
(* GGUF parts by curl, an export by optimum-cli, adapters and the graph.    *)

(* Any part that exists stands for the model.                               *)
checkIfAlreadyExists == \E f \in Files : Exists("main", f)

BeginGguf ==
    /\ pc = "Entry" /\ kind = "Gguf"
    /\ head' = [head EXCEPT !["main"] = "NoGit"]
    /\ IF overwrite
       THEN /\ file' = [file EXCEPT !["main"] = Nothing]
            /\ touched' = [touched EXCEPT !["main"] = {}]
       ELSE UNCHANGED <<file, touched>>
    /\ IF ~overwrite /\ checkIfAlreadyExists
       THEN NextDownload
       ELSE /\ todo' = {<<"main", f>> : f \in Files} /\ Goto("Parts")
            /\ UNCHANGED <<missing, cur, resuming>>
    /\ UNCHANGED <<kind, part, index, marker, err, adapter, graph, done, half, faults>>

(* One part, written to its final path; the process removes it on failure.  *)
DownloadPart(f) ==
    /\ pc = "Parts" /\ <<"main", f>> \in todo
    /\ \/ /\ file' = [file EXCEPT !["main"][f] = "Full"]
          /\ todo' = todo \ {<<"main", f>>}
          /\ UNCHANGED <<missing, cur, resuming, faults, pc, repo, overwrite, stop, outcome>>
       \/ /\ Fault("fail")
          /\ file' = [file EXCEPT !["main"][f] = "Missing"]
          /\ End("Failed")
    /\ UNCHANGED <<kind, head, part, index, marker, err, adapter, graph, ghosts>>

PartsDone ==
    /\ pc \in {"Parts", "Export"} /\ todo = {}
    /\ Downloaded
    /\ UNCHANGED <<kind, disk, faults>>

(* A directory that exists is taken as the exported model.                  *)
BeginExport ==
    /\ pc = "Entry" /\ kind = "Optimum"
    /\ IF head["main"] # "Absent" /\ ~overwrite
       THEN NextDownload /\ UNCHANGED <<head, file, graph, touched>>
       ELSE /\ head' = [head EXCEPT !["main"] = "NoGit"]
            /\ file' = [file EXCEPT !["main"] = Nothing]
            /\ touched' = [touched EXCEPT !["main"] = {}] /\ graph' = FALSE
            /\ todo' = {<<"main", f>> : f \in Files} /\ Goto("Export")
            /\ UNCHANGED <<missing, cur, resuming>>
    /\ UNCHANGED <<kind, part, index, marker, err, adapter, done, half, faults>>

ExportFile(f) ==
    /\ pc = "Export" /\ <<"main", f>> \in todo
    /\ \/ /\ file' = [file EXCEPT !["main"][f] = "Full"]
          /\ todo' = todo \ {<<"main", f>>}
          /\ UNCHANGED <<missing, cur, resuming, faults, pc, repo, overwrite, stop, outcome>>
       \/ /\ Fault("fail")
          /\ End("Failed") /\ UNCHANGED file
    /\ UNCHANGED <<kind, head, part, index, marker, err, adapter, graph, ghosts>>

(* A LoRA adapter goes to a .tmp file, which is renamed when it is whole.   *)
pullLoraAdapters ==
    /\ pc = "Adapter"
    /\ IF adapter = "Full" /\ ~overwrite
       THEN Goto("Graph") /\ UNCHANGED <<adapter, todo, missing, cur, resuming, faults>>
       ELSE \/ /\ adapter' = "Full" /\ Goto("Graph")
               /\ UNCHANGED <<todo, missing, cur, resuming, faults>>
            \/ /\ Fault("fail")
               /\ End("Failed") /\ UNCHANGED adapter
    /\ UNCHANGED <<kind, head, file, part, index, marker, err, graph, ghosts>>

createServableConfig ==
    /\ pc = "Graph"
    /\ graph' = TRUE
    /\ End("OK")
    /\ UNCHANGED <<kind, head, file, part, index, marker, err, adapter, ghosts, faults>>

-----------------------------------------------------------------------------
(* Kills and the user.                                                      *)

(* What the step in work may leave of the file it writes.                   *)
BeingWritten ==
    CASE pc \in {"Checkout", "Parts", "Export"} -> {x[2] : x \in todo}
      [] pc = "Restore" -> missing
      [] pc = "ResumeCheckout" -> {cur}
      [] OTHER -> {}

Kill ==
    /\ pc # "Down" /\ Fault("kill")
    /\ \/ UNCHANGED <<file, part>>
       \/ /\ \E f \in BeingWritten : file' = [file EXCEPT ![repo][f] = "Torn"]
          /\ UNCHANGED part
       \/ /\ pc = "Transfer"
          /\ \E p \in {"Good", "Bad"} : part' = [part EXCEPT ![repo][cur] = p]
          /\ UNCHANGED file
    /\ End("Killed")
    /\ UNCHANGED <<kind, head, index, marker, err, adapter, graph, ghosts>>

UserEdits(r, f) ==
    /\ pc = "Down" /\ head[r] # "Absent" /\ Fault("edit")
    /\ \E c \in {"Missing", "Edited"} :
          file[r][f] # c /\ file' = [file EXCEPT ![r][f] = c]
    /\ touched' = [touched EXCEPT ![r] = @ \cup {f}]
    /\ UNCHANGED <<kind, head, part, index, marker, err, adapter, graph, run, done, half>>

Clone ==
    \/ BeginRemoval \/ RemoveGit \/ BeginClone \/ GitInit \/ GitFetch \/ GitFetchFails
    \/ CloneWritesIndex \/ finalizeAfterClone
    \/ \E f \in Files : RemoveFile(f) \/ CloneCheckout(f)
ResumePull ==
    \/ UseExisting \/ CannotOpen \/ BeginResume \/ ResumeForeign \/ ResumeCheckout
    \/ BeginRestore \/ ResumeCancelled \/ restoreGitIndexToHead \/ FinishResume
    \/ \E f \in Files : ResumeFile(f) \/ RestoreFile(f)
Others ==
    \/ BeginGguf \/ PartsDone \/ BeginExport \/ pullLoraAdapters \/ createServableConfig
    \/ \E f \in Files : DownloadPart(f) \/ ExportFile(f)
Step == Clone \/ ResumePull \/ Others \/ Transfer \/ TransferRestarts \/ TransferAborts
Program == Step \/ Stop \/ Kill

-----------------------------------------------------------------------------
(* Properties.                                                              *)

Pulled(r) == head[r] = "Born" /\ ~half[r]
Complete(r) == \A f \in Files \ touched[r] : file[r][f] = "Full"

(* docs/pull_hf_models.md: whenever a cloned repository lacks anything the   *)
(* user did not take away himself, at any moment a kill may choose, the     *)
(* marker that makes the next run resume is on disk.                        *)
IncompleteIsMarked == \A r \in Repos : Pulled(r) /\ ~Complete(r) => marker[r]

(* A run that answers OK leaves every repository it cloned, the adapter and  *)
(* the graph complete, whatever happened to the runs before it.             *)
OkMeansComplete ==
    outcome = "OK" =>
        /\ \A r \in Repos : Pulled(r) => Complete(r)
        /\ graph /\ (kind = "Image" => adapter = "Full")

(* No run without --overwrite_models replaces a file the user edited, nor    *)
(* brings back one he removed after the pull finished.  (With a draft model  *)
(* the second is not so, and it is no promise of GGUF models: see the        *)
(* README.)                                                                 *)
KeepsUserFiles ==
    [][Program /\ ~overwrite =>
          \A r \in Repos, f \in Files :
             \/ file[r][f] = "Edited"
             \/ done[r] /\ f \in touched[r] /\ kind \in {"Text", "Image"}
             => file'[r][f] = file[r][f]]_vars

(* Resuming downloads nothing twice: a complete file is not touched again.  *)
CompletedFilesKept ==
    [][Program /\ ~overwrite =>
          \A r \in Repos, f \in Files : file[r][f] = "Full" => file'[r][f] = "Full"]_vars

(* What no further run without --overwrite_models repairs: a kill before    *)
(* git knew its HEAD, a file a kill or a spoilt .lfs_part left torn, a file  *)
(* the user changed in an unfinished repository, a pointer of the draft     *)
(* inside the main repository.                                              *)
Beyond ==
    \/ \E r \in Repos :
          \/ head[r] \in {"Broken", "Unborn"}
          \/ \E f \in Files : file[r][f] \in {"Torn", "Edited"}
          \/ \E f \in LfsFiles : part[r][f] = "Bad"
    \/ head["main"] = "Born" /\ \E f \in Files : file["draft"][f] = "Pointer"

(* With finitely many kills, stops and failures, running the same command    *)
(* again and again ends with OK, unless the disk is beyond resuming.        *)
PullCompletes == []<>(outcome = "OK") \/ []<>Beyond

(* What the disk or an answer says of a model is true.                      *)
DiskTellsTruth == TypeOK /\ IncompleteIsMarked /\ OkMeansComplete

(* A run takes nothing away from the user.                                  *)
FilesKept == KeepsUserFiles /\ CompletedFilesKept
=============================================================================
