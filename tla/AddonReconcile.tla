--------------------------- MODULE AddonReconcile ---------------------------
(***************************************************************************)
(* One kind of add-on (replication controllers, services, ...) under       *)
(* kube-addon-update.sh: reconcile-objects, run again and again by the     *)
(* loop of kube-addons.sh, with the background jobs it forks, against an   *)
(* API server that may fail and a directory of manifests that may change.  *)
(*                                                                         *)
(* A cycle asks the server for its objects, lists the manifests, matches   *)
(* the ones with the others, stops what has no manifest, waits, creates    *)
(* and updates, waits, and reports.  Every read of a manifest and every    *)
(* call of kubectl is a step of its own.                                   *)
(***************************************************************************)
EXTENDS AddonNames, FiniteSets, TLC

CONSTANTS
    NsName,           \* nsnames of add-ons
    NoName,           \* no nsname: a job that stops nothing
    Paths,            \* paths of manifests that find may print
    NoPath,           \* no path: a job that creates nothing
    Absent,           \* content: no file, or none of this kind and label
    Unnamed,          \* content: of this kind, but without a name
    Separator,        \* the separator this kind is reconciled with
    GrepHits,         \* <<p, q>>: path p, read as a pattern, occurs in path q
    NumTries,         \* NUM_TRIES
    MaxFaults,        \* bound: failing calls and crashes in a behaviour
    MaxEdits          \* bound: changes by others in a behaviour

ASSUME NameAssumption ==
    /\ \A n \in NsName : n \in Seq(Seq(STRING)) /\ n # << >>
    /\ NoName \notin NsName /\ Absent \notin NsName /\ Unnamed \notin NsName
    /\ Absent # Unnamed

ASSUME PathAssumption ==
    /\ IsFiniteSet(Paths)
    /\ NoPath \notin Paths
    /\ GrepHits \subseteq Paths \X Paths
    /\ \A p \in Paths : <<p, p>> \in GrepHits

ASSUME ParameterAssumption ==
    /\ Separator \in Separators
    /\ NumTries \in Nat \ {0}
    /\ MaxFaults \in Nat
    /\ MaxEdits \in Nat

Content == NsName \cup {Absent, Unnamed}

\* A background job: `old' is the object it stops, `path' the manifest it
\* creates.  stop-object has no path, create-object has nothing to stop,
\* update-object has both.
Jobs == [old : NsName \cup {NoName}, path : Paths \cup {NoPath}]

DeleteJob(n)    == [old |-> n,      path |-> NoPath]
CreateJob(p)    == [old |-> NoName, path |-> p]
UpdateJob(n, p) == [old |-> n,      path |-> p]

VARIABLES
    disk,        \* path -> content
    server,      \* the objects of this kind on the API server
    faults,      \* failing calls and crashes left
    edits,       \* changes by others left
    pc,          \* where reconcile-objects is
    toList,      \* paths whose kind is still to be read
    files,       \* addon_paths_in_files
    toMatch,     \* what is left of addon_nsnames_on_server
    obj,         \* nsname_on_server, NoName between two objects
    pos,         \* position in `files' of the inner loop
    matched,     \* matched_files
    forDelete,   \* nsnames_for_delete
    forUpdate,   \* for_update, as update jobs
    newFiles,    \* new_files
    at,          \* job -> where it is
    tries,       \* job -> tries left of its run-until-success
    opened,      \* job -> the nsname create-object read
    listed,      \* the shell's job table, what `jobs -p' prints
    stopResult,  \* stopResult
    result,      \* what the last cycle returned
    \* History, read by properties only:
    dirty,       \* the disk or the server was changed by others in the cycle
    stopFailed   \* objects whose stop-object gave up in the cycle

env     == <<disk, server, faults, edits>>
plan    == <<toList, files, toMatch, obj, pos, matched,
             forDelete, forUpdate, newFiles>>
jobs    == <<at, tries, opened>>
history == <<dirty, stopFailed>>
vars    == <<env, pc, plan, jobs, listed, stopResult, result, history>>

JobStates == {"none", "stop", "read", "create", "ok", "failed"}
Phases    == {"idle", "list", "match", "stop", "create"}

Finished(j) == at[j] \in {"ok", "failed"}
DiskNames   == {disk[p] : p \in Paths} \cap NsName
-----------------------------------------------------------------------------
Init ==
    /\ disk \in [Paths -> Content]
    /\ server \in SUBSET NsName
    /\ faults = MaxFaults
    /\ edits = MaxEdits
    /\ pc = "idle"
    /\ toList = {} /\ files = << >> /\ toMatch = {} /\ obj = NoName /\ pos = 1
    /\ matched = {} /\ forDelete = {} /\ forUpdate = {} /\ newFiles = {}
    /\ at = [j \in Jobs |-> "none"]
    /\ tries = [j \in Jobs |-> 0]
    /\ opened = [j \in Jobs |-> NoName]
    /\ listed = {}
    /\ stopResult = TRUE
    /\ result = "none"
    /\ dirty = FALSE /\ stopFailed = {}

\* A cycle runs in a subshell: its variables and its jobs go with it.
LeaveCycle(r) ==
    /\ pc' = "idle"
    /\ toList' = {} /\ files' = << >> /\ toMatch' = {} /\ obj' = NoName /\ pos' = 1
    /\ matched' = {} /\ forDelete' = {} /\ forUpdate' = {} /\ newFiles' = {}
    /\ at' = [j \in Jobs |-> "none"]
    /\ tries' = [j \in Jobs |-> 0]
    /\ opened' = [j \in Jobs |-> NoName]
    /\ listed' = {}
    /\ stopResult' = TRUE
    /\ result' = r
    /\ dirty' = FALSE /\ stopFailed' = {}

\* A call of kubectl fails, or the host does.
Fault == faults > 0 /\ faults' = faults - 1
-----------------------------------------------------------------------------
(* match-objects *)

\* The server answers: the cycle works on this answer from here on.
Query ==
    /\ pc = "idle"
    /\ pc' = "list"
    /\ toMatch' = server
    /\ toList' = Paths
    /\ UNCHANGED <<env, files, obj, pos, matched, forDelete, forUpdate,
                   newFiles, jobs, listed, stopResult, result, history>>

\* The server does not answer: the cycle is abandoned.
QueryFails ==
    /\ pc = "idle"
    /\ Fault
    /\ LeaveCycle("errors")
    /\ UNCHANGED <<disk, server, edits>>

\* get-addon-paths-from-disk reads the kind of one file find printed.
ListFile(p) ==
    /\ pc = "list"
    /\ p \in toList
    /\ toList' = toList \ {p}
    /\ files' = IF disk[p] = Absent THEN files ELSE Append(files, p)
    /\ UNCHANGED <<env, pc, toMatch, obj, pos, matched, forDelete, forUpdate,
                   newFiles, jobs, listed, stopResult, result, history>>

ListingDone ==
    /\ pc = "list"
    /\ toList = {}
    /\ pc' = "match"
    /\ UNCHANGED <<env, plan, jobs, listed, stopResult, result, history>>

\* The outer loop takes the next object of the answer.
NextObject(n) ==
    /\ pc = "match" /\ obj = NoName
    /\ n \in toMatch
    /\ toMatch' = toMatch \ {n}
    /\ obj' = n
    /\ pos' = 1
    /\ UNCHANGED <<env, pc, toList, files, matched, forDelete, forUpdate,
                   newFiles, jobs, listed, stopResult, result, history>>

Describes(f) == f \in NsName /\ Matches(obj, f, Separator)

\* The inner loop reads a file that cannot be named or does not match.
FileDiffers ==
    /\ pc = "match" /\ obj # NoName /\ pos <= Len(files)
    /\ ~Describes(disk[files[pos]])
    /\ pos' = pos + 1
    /\ UNCHANGED <<env, pc, toList, files, toMatch, obj, matched, forDelete,
                   forUpdate, newFiles, jobs, listed, stopResult, result,
                   history>>

\* Mutant of FileMatches: the versions are not compared.
FileMatchesAnyVersion ==
    /\ pc = "match" /\ obj # NoName /\ pos <= Len(files)
    /\ LET p == files[pos] IN
         /\ Describes(disk[p])
         /\ matched' = matched \cup {p}
         /\ forUpdate' = forUpdate \cup {UpdateJob(obj, p)}
    /\ obj' = NoName
    /\ pos' = 1
    /\ UNCHANGED <<env, pc, toList, files, toMatch, forDelete, newFiles, jobs,
                   listed, stopResult, result, history>>

\* The inner loop finds the file of the object: the same version is left
\* alone, another version is an update.
FileMatches ==
    /\ pc = "match" /\ obj # NoName /\ pos <= Len(files)
    /\ LET p == files[pos] IN
         /\ Describes(disk[p])
         /\ matched' = matched \cup {p}
         /\ forUpdate' = IF Suffix(obj, Separator) = Suffix(disk[p], Separator)
                         THEN forUpdate
                         ELSE forUpdate \cup {UpdateJob(obj, p)}
    /\ obj' = NoName
    /\ pos' = 1
    /\ UNCHANGED <<env, pc, toList, files, toMatch, forDelete, newFiles, jobs,
                   listed, stopResult, result, history>>

\* Mutant of NoFileMatches: the loop stops before the last file.
NoFileMatchesEarly ==
    /\ pc = "match" /\ obj # NoName /\ pos >= Len(files)
    /\ forDelete' = forDelete \cup {obj}
    /\ obj' = NoName
    /\ pos' = 1
    /\ UNCHANGED <<env, pc, toList, files, toMatch, matched, forUpdate,
                   newFiles, jobs, listed, stopResult, result, history>>

\* The inner loop ran out of files: the object has no manifest.
NoFileMatches ==
    /\ pc = "match" /\ obj # NoName /\ pos > Len(files)
    /\ forDelete' = forDelete \cup {obj}
    /\ obj' = NoName
    /\ pos' = 1
    /\ UNCHANGED <<env, pc, toList, files, toMatch, matched, forUpdate,
                   newFiles, jobs, listed, stopResult, result, history>>

\* Mutant of FindNewFiles: with nothing matched nothing is new.
FindNewFilesIfMatched ==
    /\ pc = "match" /\ obj = NoName /\ toMatch = {}
    /\ newFiles' = {p \in ToSet(files) :
                      \E q \in matched : <<p, q>> \notin GrepHits}
    /\ pc' = "stop"
    /\ UNCHANGED <<env, toList, files, toMatch, obj, pos, matched, forDelete,
                   forUpdate, jobs, listed, stopResult, result, history>>

\* Every listed path that grep does not find among the matched ones is new.
FindNewFiles ==
    /\ pc = "match" /\ obj = NoName /\ toMatch = {}
    /\ newFiles' = {p \in ToSet(files) :
                      \A q \in matched : <<p, q>> \notin GrepHits}
    /\ pc' = "stop"
    /\ UNCHANGED <<env, toList, files, toMatch, obj, pos, matched, forDelete,
                   forUpdate, jobs, listed, stopResult, result, history>>
-----------------------------------------------------------------------------
(* reconcile-objects: forking jobs and waiting for them *)

\* `job &': the shell forgets the jobs that have already ended.
Fork(j, first) ==
    /\ at[j] = "none"
    /\ at' = [at EXCEPT ![j] = first]
    /\ tries' = [tries EXCEPT ![j] = NumTries]
    /\ listed' = {k \in listed : ~Finished(k)} \cup {j}
    /\ UNCHANGED <<env, pc, plan, opened, stopResult, result, history>>

Forked(S)  == \A j \in S : at[j] # "none"
DeleteJobs == {DeleteJob(n) : n \in forDelete}
CreateJobs == {CreateJob(p) : p \in newFiles}

\* stop-objects
ForkDelete(j) == pc = "stop" /\ j \in DeleteJobs /\ Fork(j, "stop")

\* create-objects
ForkCreate(j) == pc = "create" /\ j \in CreateJobs /\ Fork(j, "read")

\* update-objects, after create-objects has forked its jobs
ForkUpdate(j) ==
    /\ pc = "create" /\ Forked(CreateJobs)
    /\ j \in forUpdate
    /\ Fork(j, "stop")

\* wait-for-jobs waits for the jobs the shell still lists.
WaitReturns(rc) ==
    /\ \A j \in listed : Finished(j)
    /\ rc = \A j \in listed : at[j] = "ok"

\* Mutant of WaitForStops: the first wait is missing.
WaitForStopsNot ==
    /\ pc = "stop" /\ Forked(DeleteJobs)
    /\ stopResult' = TRUE
    /\ pc' = "create"
    /\ UNCHANGED <<env, plan, jobs, listed, result, history>>

WaitForStops ==
    /\ pc = "stop" /\ Forked(DeleteJobs)
    /\ WaitReturns(stopResult')
    /\ listed' = {}
    /\ pc' = "create"
    /\ UNCHANGED <<env, plan, jobs, result, history>>

AllForked == Forked(CreateJobs) /\ Forked(forUpdate)

EndCycle ==
    /\ pc = "create" /\ AllForked
    /\ \E rc \in BOOLEAN :
         /\ WaitReturns(rc)
         /\ LeaveCycle(IF stopResult /\ rc THEN "ok" ELSE "errors")
    /\ UNCHANGED env
-----------------------------------------------------------------------------
(* The jobs.  run-until-success repeats a kubectl call until it succeeds   *)
(* or no try is left.                                                      *)

Goto(j, state) == at' = [at EXCEPT ![j] = state]

\* Mutant of AfterStop: stopping the old version is all of an update.
AfterStopNothing(j, state) == state

\* update-object goes on to create-object however stop-object ended.
AfterStop(j, state) == IF j.path = NoPath THEN state ELSE "read"

\* kubectl stop deletes the object.
StopSucceeds(j) ==
    /\ at[j] = "stop"
    /\ j.old \in server
    /\ server' = server \ {j.old}
    /\ Goto(j, AfterStop(j, "ok"))
    /\ UNCHANGED <<disk, faults, edits, pc, plan, tries, opened, listed, stopResult,
                   result, history>>

\* Mutant of StopTryFailed: `-ge 0' for `-gt 0' in run-until-success.
StopTryFailedOnceMore(j) ==
    /\ tries' = [tries EXCEPT ![j] = @ - 1]
    /\ IF tries[j] > 0
       THEN UNCHANGED <<at, stopFailed>>
       ELSE /\ Goto(j, AfterStop(j, "failed"))
            /\ stopFailed' = stopFailed \cup {j.old}
    /\ UNCHANGED <<disk, edits, pc, plan, opened, listed, stopResult, result,
                   dirty>>

\* A try of kubectl stop failed; after the last one stop-object gives up.
StopTryFailed(j) ==
    /\ tries' = [tries EXCEPT ![j] = @ - 1]
    /\ IF tries[j] > 1
       THEN UNCHANGED <<at, stopFailed>>
       ELSE /\ Goto(j, AfterStop(j, "failed"))
            /\ stopFailed' = stopFailed \cup {j.old}
    /\ UNCHANGED <<disk, edits, pc, plan, opened, listed, stopResult, result,
                   dirty>>

\* kubectl stop fails because there is no such object.
StopFindsNothing(j) ==
    /\ at[j] = "stop"
    /\ j.old \notin server
    /\ StopTryFailed(j)
    /\ UNCHANGED <<server, faults>>

\* The call fails, before or after the server carried it out.
StopFaults(j) ==
    /\ at[j] = "stop"
    /\ Fault
    /\ server' \in {server, server \ {j.old}}
    /\ StopTryFailed(j)

\* create-object reads the nsname of its file, and gives up without it.
ReadName(j) ==
    /\ at[j] = "read"
    /\ IF disk[j.path] \in NsName
       THEN /\ Goto(j, "create")
            /\ tries' = [tries EXCEPT ![j] = NumTries]
            /\ opened' = [opened EXCEPT ![j] = disk[j.path]]
       ELSE Goto(j, "failed") /\ UNCHANGED <<tries, opened>>
    /\ UNCHANGED <<env, pc, plan, listed, stopResult, result, history>>

\* kubectl create --namespace=... -f path, which reads the file again, can
\* be carried out: the file names an object that is not there yet, in the
\* namespace of the command line.
Creatable(j) ==
    LET f == disk[j.path] IN
    /\ f \in NsName \ server
    /\ Namespace(f) = Namespace(opened[j])

CreateSucceeds(j) ==
    /\ at[j] = "create"
    /\ Creatable(j)
    /\ server' = server \cup {disk[j.path]}
    /\ Goto(j, "ok")
    /\ UNCHANGED <<disk, faults, edits, pc, plan, tries, opened, listed, stopResult,
                   result, history>>

\* Mutant of CreateTryFailed: the tries are not counted.
CreateTryFailedUncounted(j) ==
    /\ UNCHANGED <<at, tries>>
    /\ UNCHANGED <<disk, edits, pc, plan, opened, listed, stopResult, result,
                   history>>

CreateTryFailed(j) ==
    /\ tries' = [tries EXCEPT ![j] = @ - 1]
    /\ IF tries[j] > 1 THEN UNCHANGED at ELSE Goto(j, "failed")
    /\ UNCHANGED <<disk, edits, pc, plan, opened, listed, stopResult, result,
                   history>>

\* The object exists already, or the file is gone, invalid or moved to
\* another namespace.
CreateRejected(j) ==
    /\ at[j] = "create"
    /\ ~Creatable(j)
    /\ CreateTryFailed(j)
    /\ UNCHANGED <<server, faults>>

\* The call fails, before or after the server carried it out.
CreateFaults(j) ==
    /\ at[j] = "create"
    /\ Fault
    /\ \/ UNCHANGED server
       \/ Creatable(j) /\ server' = server \cup {disk[j.path]}
    /\ CreateTryFailed(j)
-----------------------------------------------------------------------------
(* The surroundings *)

Edit == edits > 0 /\ edits' = edits - 1

\* An operator adds, removes, renames or breaks a manifest.
EditDisk(p, c) ==
    /\ Edit
    /\ c # disk[p]
    /\ disk' = [disk EXCEPT ![p] = c]
    /\ dirty' = (pc # "idle")
    /\ UNCHANGED <<server, faults, pc, plan, jobs, listed, stopResult, result,
                   stopFailed>>

\* Another client creates or deletes an object.
Meddle(n) ==
    /\ Edit
    /\ server' = IF n \in server THEN server \ {n} ELSE server \cup {n}
    /\ dirty' = (pc # "idle")
    /\ UNCHANGED <<disk, faults, pc, plan, jobs, listed, stopResult, result,
                   stopFailed>>

\* The manager's container or host goes down in a cycle, jobs included.
Crash ==
    /\ Fault
    /\ pc # "idle"
    /\ LeaveCycle("none")
    /\ UNCHANGED <<disk, server, edits>>
-----------------------------------------------------------------------------
Manager ==
    \/ Query \/ QueryFails
    \/ \E p \in Paths : ListFile(p)
    \/ ListingDone
    \/ \E n \in NsName : NextObject(n)
    \/ FileDiffers \/ FileMatches \/ NoFileMatches \/ FindNewFiles
    \/ \E j \in Jobs : ForkDelete(j) \/ ForkCreate(j) \/ ForkUpdate(j)
    \/ WaitForStops \/ EndCycle

Job(j) ==
    \/ StopSucceeds(j) \/ StopFindsNothing(j) \/ StopFaults(j)
    \/ ReadName(j)
    \/ CreateSucceeds(j) \/ CreateRejected(j) \/ CreateFaults(j)

Surroundings ==
    \/ \E p \in Paths, c \in Content : EditDisk(p, c)
    \/ \E n \in NsName : Meddle(n)
    \/ Crash

Next == Manager \/ (\E j \in Jobs : Job(j)) \/ Surroundings

\* The host schedules the script and its jobs, and kubectl returns.
Fairness == WF_vars(Manager) /\ \A j \in Jobs : WF_vars(Job(j))

Spec == Init /\ [][Next]_vars /\ Fairness
-----------------------------------------------------------------------------
TypeOK ==
    /\ disk \in [Paths -> Content]
    /\ server \subseteq NsName
    /\ faults \in 0 .. MaxFaults
    /\ edits \in 0 .. MaxEdits
    /\ pc \in Phases
    /\ toList \subseteq Paths
    /\ files \in Seq(Paths)
    /\ toMatch \subseteq NsName
    /\ obj \in NsName \cup {NoName}
    /\ pos \in Nat \ {0}
    /\ matched \subseteq Paths
    /\ forDelete \subseteq NsName
    /\ forUpdate \subseteq [old : NsName, path : Paths]
    /\ newFiles \subseteq Paths
    /\ at \in [Jobs -> JobStates]
    /\ tries \in [Jobs -> 0 .. NumTries]
    /\ opened \in [Jobs -> NsName \cup {NoName}]
    /\ listed \subseteq Jobs
    /\ stopResult \in BOOLEAN
    /\ result \in {"none", "ok", "errors"}
    /\ dirty \in BOOLEAN
    /\ stopFailed \subseteq NsName

\* The manifests are named the way the script relies on: no two of them
\* share a base name.
WellNamed ==
    \A p, q \in Paths :
        /\ disk[p] \in NsName /\ disk[q] \in NsName
        /\ Base(disk[p], Separator) = Base(disk[q], Separator)
        => p = q

\* No path occurs in another one.
NoShadows == \A p, q \in Paths : <<p, q>> \in GrepHits => p = q

\* Every job of the cycle has been forked and has ended.
CycleComplete ==
    /\ pc = "create" /\ AllForked
    /\ \A j \in Jobs : at[j] # "none" => Finished(j)

\* The comment on the first wait of reconcile-objects: while new objects are
\* made, every object chosen for deletion is gone, unless stop-object gave up
\* on it (or someone else changed things in the cycle).
OldGoneFirst ==
    pc = "create" /\ ~dirty => forDelete \cap server \subseteq stopFailed

\* No job stops an object whose very name is in a manifest: a cycle takes
\* down only what is obsolete.
KeepsCurrent ==
    ~dirty /\ WellNamed =>
        \A j \in Jobs : at[j] = "stop" => j.old \notin DiskNames

Converged == server = DiskNames

\* When the jobs of an undisturbed cycle have ended, every difference between
\* the server and the manifests is one that a job of the cycle reported: an
\* obsolete object stop-object gave up on, or a missing one whose create or
\* update job failed.  And if no call has failed so far, there is none: one
\* such cycle is enough, however its jobs race.
CycleSettles ==
    CycleComplete /\ ~dirty /\ WellNamed /\ NoShadows =>
        /\ server \ DiskNames \subseteq stopFailed
        /\ DiskNames \ server \subseteq
               {disk[j.path] : j \in {k \in Jobs : at[k] = "failed"
                                               /\ k.path # NoPath}}
        /\ faults = MaxFaults => Converged

\* A cycle always comes to its end: retries are bounded, and a manifest that
\* cannot be named or created holds up nobody for ever.
CycleEnds == pc # "idle" ~> pc = "idle"

\* Once the disturbances are over, cycle after cycle brings the server to the
\* manifests and keeps it there, whatever was lost, repeated or half done.
Convergence == NoShadows /\ <>[]WellNamed => <>[]Converged

Sync == INSTANCE AddonSync
        WITH Names <- NsName, wanted <- DiskNames,
             trusted <- ~dirty /\ WellNamed

\* A cycle in which nobody else interferes only ever brings the server nearer
\* to the manifests.
SyncSpec == Sync!Spec
-----------------------------------------------------------------------------
(* What comments and messages of the script say and the code does not do.  *)

\* Line 26: "controllers are not updated unless their name is changed".  No
\* job stops an object whose own name is in a manifest, however the manifests
\* are named.
NameUnchangedNotStopped ==
    ~dirty => \A j \in Jobs : at[j] = "stop" => j.old \notin DiskNames

Reports(r) == pc = "create" /\ pc' = "idle" /\ result' = r

\* Line 162: wait-for-jobs "returns 0 if all of them were successful and 1
\* otherwise", so a cycle with a failed job is not reported a success.
FailureIsReported ==
    [][Reports("ok") => \A j \in Jobs : at[j] # "failed"]_vars

\* What remains of it: a cycle whose jobs ran is reported a failure only if
\* one of them did fail.
ErrorsAreReal ==
    [][Reports("errors") => \E j \in Jobs : at[j] = "failed"]_vars

\* The kinds that are reconciled without a separator (services, secrets, ...)
\* are never updated in place of another object, whoever interferes.
NothingUpdated == forUpdate = {} /\ \A j \in Jobs : at[j] = "stop" => j.path = NoPath
-----------------------------------------------------------------------------
(* Why a cycle comes to its end (CycleEnds): how much work is left to it.  *)

\* The steps a job has left at most.
JobRank(j) ==
    CASE at[j] = "none"   -> 2 * NumTries + 2
      [] at[j] = "stop"   -> NumTries + 1 + tries[j]
      [] at[j] = "read"   -> NumTries + 1
      [] at[j] = "create" -> tries[j]
      [] OTHER            -> 0

\* No job of a cycle ever has more to do than before, and each of its steps
\* leaves it less.
JobsWindDown ==
    [][pc' # "idle" => \A j \in Jobs :
            /\ JobRank(j)' <= JobRank(j)
            /\ Job(j) => JobRank(j)' < JobRank(j)]_vars

PhaseRank == CASE pc = "list" -> 4 [] pc = "match" -> 3 [] pc = "stop" -> 2
               [] pc = "create" -> 1 [] OTHER -> 0

\* What is left of the inner loop of match-objects.
ScanRank == IF obj = NoName THEN 0 ELSE Len(files) + 2 - pos

Unforked == {j \in Jobs : at[j] = "none"}

\* The script advances from phase to phase and within each through the files,
\* the objects of the answer, the files again for each of them, and the jobs
\* to fork; what others do in the cycle sends it back nowhere.
ScriptAdvances ==
    [][pc # "idle" /\ pc' # "idle" =>
        \/ UNCHANGED <<pc, toList, toMatch, ScanRank, Unforked>> /\ ~Manager
        \/ PhaseRank' < PhaseRank
        \/ /\ pc' = pc
           /\ \/ toList' \subseteq toList /\ toList' # toList
              \/ /\ toList' = toList
                 /\ toMatch' \subseteq toMatch /\ toMatch' # toMatch
              \/ /\ UNCHANGED <<toList, toMatch>> /\ ScanRank' < ScanRank
                 /\ ScanRank' >= 0
              \/ /\ UNCHANGED <<toList, toMatch, ScanRank>>
                 /\ Unforked' \subseteq Unforked /\ Unforked' # Unforked]_vars

-----------------------------------------------------------------------------
(* The inductive invariant behind OldGoneFirst, KeepsCurrent, CycleSettles  *)
(* and the safety part of SyncSpec.                                        *)

\* Between two cycles nothing is left of the last one.
IdleIsFresh ==
    pc = "idle" =>
        /\ files = << >> /\ toMatch = {} /\ obj = NoName
        /\ matched = {} /\ forDelete = {} /\ forUpdate = {} /\ newFiles = {}
        /\ ~dirty

\* An object is being matched in the outer loop only, and the jobs start when
\* there is none left.
MatchingDone ==
    /\ pc # "match" => obj = NoName
    /\ pc \in {"stop", "create"} => toMatch = {}

\* Each phase has the jobs it forks, and `create' begins when `stop' is over.
JobsInPhase ==
    /\ \A j \in Jobs : at[j] # "none" =>
         \/ pc = "stop" /\ j \in DeleteJobs
         \/ pc = "create" /\ j \in DeleteJobs \cup CreateJobs \cup forUpdate
    /\ pc = "create" => \A j \in DeleteJobs : Finished(j)

\* A job that calls kubectl has a try left, and something to call it for.
JobsSound ==
    \A j \in Jobs :
        /\ at[j] \in {"stop", "create"} => tries[j] > 0
        /\ at[j] = "stop" => j.old \in NsName
        /\ at[j] \in {"read", "create"} => j.path \in Paths

\* The shell lists every job that runs, and both waits start after all jobs of
\* their phase were forked.
RunningIsListed ==
    \A j \in Jobs : at[j] \in {"stop", "read", "create"} => j \in listed

\* What the cycle knows of the manifests.
ListingComplete ==
    ~dirty /\ pc # "idle" =>
        \A p \in Paths : disk[p] \in NsName =>
            \/ pc = "list" /\ p \in toList
            \/ \E i \in 1 .. Len(files) : files[i] = p

ScannedDiffer ==
    ~dirty /\ obj # NoName =>
        \A i \in 1 .. Len(files) : i < pos => ~Describes(disk[files[i]])

DeleteIsObsolete ==
    ~dirty => forDelete \cap DiskNames = {}

UpdateIsOutdated ==
    ~dirty => \A u \in forUpdate :
        /\ disk[u.path] \in NsName
        /\ Matches(u.old, disk[u.path], Separator)
        /\ u.old # disk[u.path]

\* What the cycle knows of the server: objects still to be matched are there,
\* and each that no manifest describes is one it deals with.
AnswerHolds ==
    ~dirty /\ pc \in {"list", "match"} =>
        toMatch \subseteq server /\ (obj # NoName => obj \in server)

ObsoleteIsKnown ==
    ~dirty /\ pc # "idle" => \A n \in server \ DiskNames :
        n \in toMatch \/ n = obj \/ n \in forDelete
        \/ \E u \in forUpdate : u.old = n

StoppedIsGone ==
    ~dirty => \A j \in Jobs :
        at[j] \in {"read", "create", "ok", "failed"} =>
            j.old \in stopFailed \/ j.old \notin server \ DiskNames

\* A file is matched with an object of its name, or is in an update; the rest
\* is new.
MatchedIsHandled ==
    ~dirty /\ WellNamed =>
        \A p \in matched : disk[p] \in server \/ \E u \in forUpdate : u.path = p

ListedIsHandled ==
    pc \in {"stop", "create"} =>
        \A i \in 1 .. Len(files) :
            files[i] \in newFiles \/ \E q \in matched : <<files[i], q>> \in GrepHits

CreatedIsThere ==
    ~dirty /\ WellNamed =>
        \A j \in Jobs : at[j] = "ok" /\ j.path \in Paths =>
            disk[j.path] \in server

\* No object is planned for twice, nor while it is still to be matched.
Planned == DeleteJobs \cup forUpdate

PlannedOnce ==
    /\ \A j, k \in Planned : j.old = k.old => j = k
    /\ obj \notin toMatch
    /\ \A j \in Planned : j.old \notin toMatch /\ j.old # obj

\* In a cycle without a failing call, what is to be stopped is there until its
\* job has stopped it, and a manifest whose job failed names nothing or an
\* object that another job has made.
Smooth ==
    faults = MaxFaults /\ ~dirty =>
        /\ stopFailed = {}
        /\ \A j \in Planned : at[j] \in {"none", "stop"} => j.old \in server
        /\ \A j \in Jobs : at[j] = "create" => opened[j] = disk[j.path]
        /\ WellNamed => \A j \in Jobs :
             at[j] = "failed" /\ j.path \in Paths =>
                 disk[j.path] \notin NsName \/ disk[j.path] \in server

Inductive ==
    /\ TypeOK
    /\ IdleIsFresh /\ MatchingDone /\ JobsInPhase /\ JobsSound
    /\ RunningIsListed
    /\ ListingComplete /\ ScannedDiffer /\ DeleteIsObsolete /\ UpdateIsOutdated
    /\ AnswerHolds /\ ObsoleteIsKnown /\ StoppedIsGone
    /\ MatchedIsHandled /\ ListedIsHandled /\ CreatedIsThere
=============================================================================
