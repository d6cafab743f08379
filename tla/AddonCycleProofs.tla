-------------------------- MODULE AddonCycleProofs --------------------------
(* What a whole cycle of AddonReconcile leaves behind, and in particular    *)
(* what a cycle in which no call fails does, for any sets of names and      *)
(* manifests and any number of racing jobs.                                 *)
EXTENDS AddonReconcileProofs

USE DEF env, plan, jobs, history

\* Every difference that an undisturbed cycle leaves is one a job failed on.
LEMMA LeftBehind ==
    ASSUME Inductive, CycleComplete, ~dirty, WellNamed, NoShadows
    PROVE  /\ server \ DiskNames \subseteq stopFailed
           /\ \A n \in DiskNames \ server :
                \E j \in Jobs : at[j] = "failed" /\ j.path \in Paths
                               /\ disk[j.path] = n
<1>0. /\ pc = "create" /\ toMatch = {} /\ obj \notin server
      /\ \A j \in DeleteJobs \cup CreateJobs \cup forUpdate :
            j \in Jobs /\ at[j] \in {"ok", "failed"}
  <2>1. \A j \in DeleteJobs \cup CreateJobs \cup forUpdate : j \in Jobs
    BY JobsType DEF Inductive, TypeOK, DeleteJobs, CreateJobs
  <2>2. \A j \in DeleteJobs \cup CreateJobs \cup forUpdate : at[j] # "none"
    BY DEF Inductive, JobsInPhase, CycleComplete, AllForked, Forked, Finished
  <2>3. pc = "create" /\ toMatch = {} /\ obj \notin server
    BY NameAssumption DEF CycleComplete, Inductive, TypeOK, MatchingDone
  <2> QED
    BY <2>1, <2>2, <2>3 DEF CycleComplete, Finished
<1>1. ASSUME NEW n \in server \ DiskNames PROVE n \in stopFailed
  <2>1. n \in forDelete \/ \E u \in forUpdate : u.old = n
    BY <1>0, <1>1 DEF Inductive, ObsoleteIsKnown
  <2>2. PICK j \in DeleteJobs \cup forUpdate : j.old = n
    BY <2>1, JobFields
  <2> QED
    BY <1>0, <1>1, <2>2 DEF Inductive, StoppedIsGone
<1>2. ASSUME NEW n \in DiskNames \ server
      PROVE  \E j \in Jobs : at[j] = "failed" /\ j.path \in Paths /\ disk[j.path] = n
  <2>1. PICK p \in Paths : disk[p] = n /\ disk[p] \in NsName
    BY <1>2 DEF DiskNames
  <2>2. PICK i \in 1 .. Len(files) : files[i] = p
    BY <1>0, <2>1 DEF Inductive, ListingComplete
  <2>3. p \in newFiles \/ p \in matched
    BY <1>0, <2>2 DEF Inductive, TypeOK, ListedIsHandled, NoShadows
  <2>4. p \in newFiles \/ \E u \in forUpdate : u.path = p
    BY <1>2, <2>1, <2>3 DEF Inductive, MatchedIsHandled
  <2>5. PICK j \in CreateJobs \cup forUpdate : j.path = p
    BY <2>4, JobFields
  <2>6. j \in Jobs /\ at[j] = "failed"
    BY <1>0, <1>2, <2>1, <2>5 DEF Inductive, CreatedIsThere
  <2> QED
    BY <2>1, <2>5, <2>6
<1> QED
  BY <1>1, <1>2
-----------------------------------------------------------------------------
(* No object is planned for twice.                                         *)

LEMMA PlannedFields ==
    /\ Inductive => \A j \in Planned : j \in Jobs /\ j.old \in NsName
    /\ Inductive => \A j \in Jobs : at[j] = "stop" => j \in Planned
<1>1. ASSUME Inductive, NEW j \in Planned PROVE j \in Jobs /\ j.old \in NsName
  BY <1>1, JobsType DEF Planned, DeleteJobs, DeleteJob, Inductive, TypeOK
<1>2. ASSUME Inductive, NEW j \in Jobs, at[j] = "stop" PROVE j \in Planned
  BY <1>2, NameAssumption
  DEF Planned, CreateJobs, CreateJob, Inductive, JobsInPhase, JobsSound
<1> QED
  BY <1>1, <1>2

\* With an empty plan there is nothing to plan twice.
LEMMA NothingPlanned ==
    ASSUME forDelete' = {}, forUpdate' = {}, obj' \notin toMatch'
    PROVE  Planned' = {} /\ PlannedOnce'
  BY DEF Planned, DeleteJobs, PlannedOnce

\* The object that was just matched joins the plan.
LEMMA PlanMatched ==
    ASSUME Inductive, PlannedOnce, NEW u, u.old = obj, obj # NoName,
           Planned' \in {Planned, Planned \cup {u}},
           obj' = NoName, toMatch' = toMatch
    PROVE  PlannedOnce'
<1>1. NoName \notin toMatch /\ obj' \notin toMatch'
  BY NameAssumption DEF Inductive, TypeOK
<1>2. \A j, k \in Planned' : j.old = k.old => j = k
  BY DEF PlannedOnce
<1>3. \A j \in Planned' : j.old \notin toMatch' /\ j.old # obj'
  BY PlannedFields, NameAssumption DEF PlannedOnce
<1> QED
  BY <1>1, <1>2, <1>3 DEF PlannedOnce

LEMMA PlannedOnceStep ==
    Inductive /\ PlannedOnce /\ [Next]_vars => PlannedOnce'
<1> SUFFICES ASSUME Inductive, PlannedOnce, [Next]_vars PROVE PlannedOnce'
  OBVIOUS
<1>1. ASSUME UNCHANGED <<obj, toMatch, forDelete, forUpdate>> PROVE PlannedOnce'
  BY <1>1 DEF PlannedOnce, Planned, DeleteJobs
<1>2. ASSUME NEW r, LeaveCycle(r) PROVE PlannedOnce'
  BY <1>2, NothingPlanned DEF LeaveCycle
<1>3. CASE Query
  BY <1>3, NothingPlanned, NameAssumption DEF Query, Inductive, IdleIsFresh, TypeOK
<1>4. ASSUME NEW n \in NsName, NextObject(n) PROVE PlannedOnce'
  BY <1>4 DEF NextObject, PlannedOnce, Planned, DeleteJobs
<1>5. CASE FileMatches
  <2> DEFINE u == UpdateJob(obj, files[pos])
  <2>1. Planned' \in {Planned, Planned \cup {u}} /\ u.old = obj
    BY <1>5 DEF FileMatches, Planned, DeleteJobs, UpdateJob
  <2> QED
    BY <1>5, <2>1, PlanMatched DEF FileMatches
<1>6. CASE NoFileMatches
  <2>1. Planned' = Planned \cup {DeleteJob(obj)} /\ DeleteJob(obj).old = obj
    BY <1>6 DEF NoFileMatches, Planned, DeleteJobs, DeleteJob
  <2> QED
    BY <1>6, <2>1, PlanMatched DEF NoFileMatches
<1>7. CASE Manager
  BY <1>1, <1>2, <1>3, <1>4, <1>5, <1>6, <1>7
  DEF Manager, QueryFails, ListFile, ListingDone, FileDiffers, FindNewFiles, ForkDelete,
      ForkCreate, ForkUpdate, Fork, WaitForStops, EndCycle
<1>8. ASSUME NEW j \in Jobs, Job(j) PROVE PlannedOnce'
  BY <1>1, <1>8
  DEF Job, StopSucceeds, StopFindsNothing, StopFaults, StopTryFailed, ReadName,
      CreateSucceeds, CreateRejected, CreateFaults, CreateTryFailed
<1>9. CASE Surroundings
  BY <1>1, <1>2, <1>9 DEF Surroundings, EditDisk, Meddle, Crash
<1> QED
  BY <1>1, <1>7, <1>8, <1>9 DEF Next, vars
-----------------------------------------------------------------------------
(* A cycle in which no call fails.                                         *)

LEMMA SmoothLeave == ASSUME NEW r, LeaveCycle(r) PROVE Smooth'
<1>1. Planned' = {} /\ stopFailed' = {} /\ \A j \in Jobs : at'[j] = "none"
  BY DEF LeaveCycle, Planned, DeleteJobs
<1> QED
  BY <1>1 DEF Smooth

\* A failing call ends the run without failures.
LEMMA FaultSpent == TypeOK /\ Fault => faults' # MaxFaults
  BY ParameterAssumption DEF TypeOK, Fault

\* While the plan is made the objects in it are on the server.
LEMMA SmoothMatch ==
    ASSUME Inductive, Smooth, pc \in {"idle", "list", "match"}, at' = at,
           UNCHANGED <<server, faults, dirty, stopFailed>>,
           dirty \/ \A j \in Planned' \ Planned : j.old = obj /\ obj \in server
    PROVE  Smooth'
<1>1. \A j \in Jobs : at[j] = "none"
  BY DEF Inductive, JobsInPhase
<1>2. \A j \in Planned : j \in Jobs
  BY PlannedFields
<1> QED
  BY <1>1, <1>2 DEF Smooth

\* A step of a job: what it stops was there, and what it fails to create is.
LEMMA SmoothJob ==
    ASSUME Inductive, PlannedOnce, Smooth, NEW j \in Jobs, Job(j)
    PROVE  Smooth'
<1>0. /\ UNCHANGED <<disk, dirty, forDelete, forUpdate>>
      /\ Planned' = Planned /\ (WellNamed' <=> WellNamed)
  BY DEF Job, StopSucceeds, StopFindsNothing, StopFaults, StopTryFailed, ReadName,
         CreateSucceeds, CreateRejected, CreateFaults, CreateTryFailed, Planned,
         DeleteJobs, WellNamed
<1>1. CASE StopFaults(j) \/ CreateFaults(j)
  BY <1>1, FaultSpent DEF StopFaults, CreateFaults, Inductive, Smooth
<1> SUFFICES ASSUME faults = MaxFaults, ~dirty, ~(StopFaults(j) \/ CreateFaults(j))
             PROVE  Smooth'
  BY <1>0, <1>1
  DEF Smooth, Job, StopSucceeds, StopFindsNothing, StopTryFailed, ReadName, CreateSucceeds,
      CreateRejected, CreateTryFailed
<1>2. /\ stopFailed = {}
      /\ \A k \in Planned : at[k] \in {"none", "stop"} => k.old \in server
      /\ \A k \in Jobs : at[k] = "create" => opened[k] = disk[k.path]
      /\ at \in [Jobs -> JobStates] /\ opened \in [Jobs -> NsName \cup {NoName}]
  BY DEF Smooth, Inductive, TypeOK
<1>3. at[j] = "stop" => j \in Planned /\ j.old \in server
  BY <1>2, PlannedFields
<1>4. stopFailed' = {}
  BY <1>2, <1>3
  DEF Job, StopSucceeds, StopFindsNothing, ReadName, CreateSucceeds, CreateRejected,
      CreateTryFailed
<1>5. ASSUME NEW k \in Planned, at'[k] \in {"none", "stop"} PROVE k.old \in server'
  <2>1. k \in Jobs
    BY PlannedFields
  <2>2. CASE k = j
    BY <1>2, <1>3, <1>5, <2>1, <2>2
    DEF Job, StopSucceeds, StopFindsNothing, ReadName, CreateSucceeds, CreateRejected,
        CreateTryFailed, Goto, AfterStop
  <2>3. CASE k # j
    <3>1. at'[k] = at[k]
      BY <1>2, <1>3, <2>1, <2>3
      DEF Job, StopSucceeds, StopFindsNothing, ReadName, CreateSucceeds, CreateRejected,
          CreateTryFailed, Goto
    <3>2. at[j] = "stop" => k.old # j.old
      BY <1>3, <2>3 DEF PlannedOnce
    <3> QED
      BY <1>2, <1>3, <1>5, <3>1, <3>2
      DEF Job, StopSucceeds, StopFindsNothing, ReadName, CreateSucceeds, CreateRejected,
          CreateTryFailed
  <2> QED
    BY <2>2, <2>3
<1>6. ASSUME NEW k \in Jobs, at'[k] = "create" PROVE opened'[k] = disk[k.path]
  BY <1>2, <1>3, <1>6
  DEF Job, StopSucceeds, StopFindsNothing, ReadName, CreateSucceeds, CreateRejected,
      CreateTryFailed, Goto, AfterStop
<1>7. ASSUME WellNamed, NEW k \in Jobs, at'[k] = "failed", k.path \in Paths,
             disk[k.path] \in NsName
      PROVE  disk[k.path] \in server'
  <2>1. disk[k.path] \in DiskNames
    BY <1>7 DEF DiskNames
  <2>2. (server \ server') \cap DiskNames = {}
    BY <1>7, JobServer
  <2>3. CASE at[k] = "failed"
    BY <1>7, <2>1, <2>2, <2>3 DEF Smooth
  <2>4. CASE at[k] # "failed"
    <3>1. k = j /\ CreateRejected(k)
      BY <1>2, <1>3, <1>7, <2>4, PathAssumption
      DEF Job, StopSucceeds, StopFindsNothing, ReadName, CreateSucceeds, CreateRejected,
          CreateTryFailed, Goto, AfterStop
    <3> QED
      BY <1>2, <1>7, <3>1 DEF CreateRejected, Creatable
  <2> QED
    BY <2>3, <2>4
<1> QED
  BY <1>0, <1>4, <1>5, <1>6, <1>7 DEF Smooth

\* A step of the script while it plans.
LEMMA SmoothPlanning ==
    ASSUME Inductive, Smooth, pc \in {"idle", "list", "match"}, Manager
    PROVE  Smooth'
<1>1. ASSUME UNCHANGED <<at, server, faults, dirty, stopFailed, forDelete, forUpdate>>
      PROVE  Smooth'
  BY <1>1, SmoothMatch DEF Planned, DeleteJobs
<1>2. CASE QueryFails
  BY <1>2, SmoothLeave DEF QueryFails
<1>3. pc = "match" /\ obj # NoName => dirty \/ obj \in server
  BY DEF Inductive, AnswerHolds
<1>4. CASE FileMatches
  <2> DEFINE u == UpdateJob(obj, files[pos])
  <2>1. \A j \in Planned' \ Planned : j = u /\ u.old = obj
    BY <1>4 DEF FileMatches, Planned, DeleteJobs, UpdateJob
  <2>2. \A j \in Planned' \ Planned : j.old = obj
    BY <2>1
  <2>3. dirty \/ obj \in server
    BY <1>3, <1>4 DEF FileMatches
  <2> QED
    BY <1>4, <2>2, <2>3, SmoothMatch DEF FileMatches
<1>5. CASE NoFileMatches
  <2>1. \A j \in Planned' \ Planned : j.old = obj
    BY <1>5 DEF NoFileMatches, Planned, DeleteJobs, DeleteJob
  <2>2. dirty \/ obj \in server
    BY <1>3, <1>5 DEF NoFileMatches
  <2> QED
    BY <1>5, <2>1, <2>2, SmoothMatch DEF NoFileMatches
<1> QED
  BY <1>1, <1>2, <1>4, <1>5
  DEF Manager, Query, ListFile, ListingDone, NextObject, FileDiffers, FindNewFiles,
      ForkDelete, ForkCreate, ForkUpdate, WaitForStops, EndCycle

\* A job is forked.
LEMMA SmoothFork ==
    ASSUME Inductive, Smooth, NEW j \in Jobs, NEW first \in {"stop", "read"},
           Fork(j, first)
    PROVE  Smooth'
<1>1. /\ Planned' = Planned /\ (WellNamed' <=> WellNamed) /\ at[j] = "none"
      /\ UNCHANGED <<disk, server, faults, dirty, stopFailed, opened>>
      /\ at' = [at EXCEPT ![j] = first] /\ at \in [Jobs -> JobStates]
  BY DEF Fork, Planned, DeleteJobs, WellNamed, Inductive, TypeOK
<1>2. \A k \in Planned : k \in Jobs
  BY PlannedFields
<1> QED
  BY <1>1, <1>2 DEF Smooth

LEMMA SmoothStep ==
    Inductive /\ PlannedOnce /\ Smooth /\ [Next]_vars => Smooth'
<1> SUFFICES ASSUME Inductive, PlannedOnce, Smooth, [Next]_vars PROVE Smooth'
  OBVIOUS
<1>1. ASSUME UNCHANGED <<disk, server, faults, dirty, forDelete, forUpdate, at, opened,
                         stopFailed>>
      PROVE  Smooth'
  BY <1>1 DEF Smooth, Planned, DeleteJobs, WellNamed
<1>2. CASE Manager
  <2>1. ASSUME NEW j \in Jobs, ForkDelete(j) \/ ForkCreate(j) \/ ForkUpdate(j)
        PROVE  Smooth'
    BY <2>1, SmoothFork DEF ForkDelete, ForkCreate, ForkUpdate
  <2>2. CASE WaitForStops
    BY <1>1, <2>2 DEF WaitForStops
  <2>3. CASE EndCycle
    BY <2>3, SmoothLeave DEF EndCycle
  <2> QED
    BY <1>2, <2>1, <2>2, <2>3, SmoothPlanning
    DEF Manager, Query, QueryFails, ListFile, ListingDone, NextObject, FileDiffers,
        FileMatches, NoFileMatches, FindNewFiles
<1>3. ASSUME NEW j \in Jobs, Job(j) PROVE Smooth'
  BY <1>3, SmoothJob
<1>4. ASSUME dirty' = (pc # "idle"), UNCHANGED <<pc, plan, jobs, faults, stopFailed>>
      PROVE  Smooth'
  <2>1. CASE pc = "idle"
    <3>1. /\ Planned' = {} /\ ~dirty /\ \A j \in Jobs : at[j] = "none"
      BY <1>4, <2>1 DEF Planned, DeleteJobs, Inductive, IdleIsFresh, JobsInPhase
    <3> QED
      BY <1>4, <3>1 DEF Smooth
  <2> QED
    BY <1>4, <2>1 DEF Smooth
<1>5. CASE Surroundings
  BY <1>4, <1>5, SmoothLeave DEF Surroundings, EditDisk, Meddle, Crash
<1> QED
  BY <1>1, <1>2, <1>3, <1>5 DEF Next, vars
-----------------------------------------------------------------------------
\* No object is planned for twice, and as long as no call has failed, what a
\* cycle plans to stop is there to be stopped and what its jobs failed to
\* create is there already: racing jobs do each other's work, never undo it.
THEOREM SmoothHolds == Spec => [](PlannedOnce /\ Smooth)
<1>1. Init => PlannedOnce /\ Smooth
  <2>1. ASSUME Init PROVE Planned = {} /\ obj \notin toMatch /\ stopFailed = {}
                          /\ \A j \in Jobs : at[j] = "none"
    BY <2>1 DEF Init, Planned, DeleteJobs
  <2> QED
    BY <2>1 DEF PlannedOnce, Smooth
<1>2. Inductive /\ PlannedOnce /\ Smooth /\ [Next]_vars => PlannedOnce' /\ Smooth'
  BY PlannedOnceStep, SmoothStep
<1> QED
  BY <1>1, <1>2, InductiveHolds, PTL DEF Spec

\* The cycle settles: every difference an undisturbed cycle leaves is one that
\* a job failed on, and a cycle without a failing call leaves none.
THEOREM CyclesSettle == Spec => []CycleSettles
<1>1. Inductive /\ Smooth => CycleSettles
  <2> SUFFICES ASSUME Inductive, Smooth, CycleComplete, ~dirty, WellNamed, NoShadows
               PROVE  /\ server \ DiskNames \subseteq stopFailed
                      /\ DiskNames \ server \subseteq
                             {disk[j.path] : j \in {k \in Jobs : at[k] = "failed"
                                                             /\ k.path # NoPath}}
                      /\ faults = MaxFaults => Converged
    BY DEF CycleSettles
  <2>1. server \ DiskNames \subseteq stopFailed
    BY LeftBehind
  <2>2. \A n \in DiskNames \ server :
          \E j \in Jobs : at[j] = "failed" /\ j.path \in Paths /\ disk[j.path] = n
    BY LeftBehind
  <2>3. ASSUME faults = MaxFaults PROVE Converged
    <3>1. server \subseteq DiskNames
      BY <2>1, <2>3 DEF Smooth
    <3>2. DiskNames \subseteq server
      BY <2>2, <2>3 DEF Smooth, DiskNames
    <3> QED
      BY <3>1, <3>2 DEF Converged
  <2> QED
    BY <2>1, <2>2, <2>3, PathAssumption
<1> QED
  BY <1>1, InductiveHolds, SmoothHolds, PTL
-----------------------------------------------------------------------------
(* What a cycle reports.                                                   *)

\* When the first wait was not satisfied, a job has failed.
FailureKnown == pc = "create" /\ ~stopResult => \E j \in Jobs : at[j] = "failed"

LEMMA FailureKnownStep ==
    Inductive /\ FailureKnown /\ [Next]_vars => FailureKnown'
<1> SUFFICES ASSUME Inductive, FailureKnown, [Next]_vars, pc' = "create", ~stopResult'
             PROVE  \E j \in Jobs : at'[j] = "failed"
  BY DEF FailureKnown
<1>0. at \in [Jobs -> JobStates] /\ listed \subseteq Jobs
  BY DEF Inductive, TypeOK
<1>1. ASSUME UNCHANGED <<pc, stopResult>>, \A j \in Jobs : at[j] = "failed" => at'[j] = "failed"
      PROVE  \E j \in Jobs : at'[j] = "failed"
  BY <1>1 DEF FailureKnown
<1>2. CASE WaitForStops
  BY <1>0, <1>2 DEF WaitForStops, WaitReturns, Finished
<1>3. ASSUME NEW r, LeaveCycle(r) PROVE FALSE
  BY <1>3 DEF LeaveCycle
<1>4. CASE Manager
  <2>1. ASSUME NEW j \in Jobs, ForkDelete(j) \/ ForkCreate(j) \/ ForkUpdate(j)
        PROVE  \E k \in Jobs : at'[k] = "failed"
    BY <1>0, <1>1, <2>1 DEF ForkDelete, ForkCreate, ForkUpdate, Fork
  <2> QED
    BY <1>1, <1>2, <1>3, <1>4, <2>1
    DEF Manager, Query, QueryFails, ListFile, ListingDone, NextObject, FileDiffers,
        FileMatches, NoFileMatches, FindNewFiles, EndCycle
<1>5. ASSUME NEW j \in Jobs, Job(j) PROVE \E k \in Jobs : at'[k] = "failed"
  BY <1>0, <1>1, <1>5
  DEF Job, StopSucceeds, StopFindsNothing, StopFaults, StopTryFailed, ReadName,
      CreateSucceeds, CreateRejected, CreateFaults, CreateTryFailed, Goto
<1>6. CASE Surroundings
  BY <1>1, <1>3, <1>6 DEF Surroundings, EditDisk, Meddle, Crash
<1> QED
  BY <1>1, <1>4, <1>5, <1>6 DEF Next, vars

\* A cycle whose jobs ran reports a failure only if one of them failed.
THEOREM ReportedFailuresAreReal == Spec => ErrorsAreReal
<1>1. Init => FailureKnown
  BY DEF Init, FailureKnown
<1>2. Inductive /\ FailureKnown /\ [Next]_vars => [Reports("errors") =>
                                    \E j \in Jobs : at[j] = "failed"]_vars
  <2> SUFFICES ASSUME Inductive, FailureKnown, Next, Reports("errors")
               PROVE  \E j \in Jobs : at[j] = "failed"
    BY DEF vars, Reports
  <2>1. pc = "create" /\ pc' = "idle" /\ result' = "errors"
    BY DEF Reports
  <2>2. EndCycle \/ Crash
    BY <2>1
    DEF Next, Manager, Query, QueryFails, ListFile, ListingDone, NextObject, FileDiffers,
        FileMatches, NoFileMatches, FindNewFiles, ForkDelete, ForkCreate, ForkUpdate, Fork,
        WaitForStops, Surroundings, EditDisk, Meddle, Job, StopSucceeds, StopFindsNothing,
        StopFaults, StopTryFailed, ReadName, CreateSucceeds, CreateRejected, CreateFaults,
        CreateTryFailed
  <2>3. EndCycle
    BY <2>1, <2>2 DEF Crash, LeaveCycle
  <2>4. PICK rc \in BOOLEAN : WaitReturns(rc) /\ LeaveCycle(IF stopResult /\ rc
                                                           THEN "ok" ELSE "errors")
    BY <2>3 DEF EndCycle
  <2>5. ~stopResult \/ ~rc
    BY <2>1, <2>4 DEF LeaveCycle
  <2> QED
    BY <2>1, <2>4, <2>5 DEF FailureKnown, WaitReturns, Finished, Inductive, TypeOK
<1> QED
  BY <1>1, <1>2, FailureKnownStep, InductiveHolds, PTL DEF Spec, ErrorsAreReal
-----------------------------------------------------------------------------
(* The kinds without a separator.                                          *)

LEMMA UnversionedPlan ==
    ASSUME Separator = "" PROVE forUpdate = {} /\ [Next]_vars => forUpdate' = {}
<1> SUFFICES ASSUME forUpdate = {}, [Next]_vars PROVE forUpdate' = {}
  OBVIOUS
<1>1. \A n, f : Suffix(n, Separator) = Suffix(f, Separator)
  BY DEF Suffix
<1>2. CASE Manager
  BY <1>1, <1>2
  DEF Manager, Query, QueryFails, ListFile, ListingDone, NextObject, FileDiffers,
      FileMatches, NoFileMatches, FindNewFiles, ForkDelete, ForkCreate, ForkUpdate, Fork,
      WaitForStops, EndCycle, LeaveCycle
<1>3. ASSUME NEW j \in Jobs, Job(j) PROVE forUpdate' = {}
  BY <1>3
  DEF Job, StopSucceeds, StopFindsNothing, StopFaults, StopTryFailed, ReadName,
      CreateSucceeds, CreateRejected, CreateFaults, CreateTryFailed
<1>4. CASE Surroundings
  BY <1>4 DEF Surroundings, EditDisk, Meddle, Crash, LeaveCycle
<1> QED
  BY <1>2, <1>3, <1>4 DEF Next, vars

LEMMA DeleteJobFields == \A j \in DeleteJobs : j.old \in forDelete /\ j.path = NoPath
<1> SUFFICES ASSUME NEW n \in forDelete
             PROVE  DeleteJob(n).old \in forDelete /\ DeleteJob(n).path = NoPath
  BY DEF DeleteJobs
<1> QED
  BY DEF DeleteJob

\* Without a separator no object is ever stopped to make room for another one.
THEOREM UnversionedNotUpdated == Spec => [](Separator = "" => NothingUpdated)
<1> DEFINE NoUpdate == Separator = "" => forUpdate = {}
<1>1. Init => NoUpdate
  BY DEF Init
<1>2. NoUpdate /\ [Next]_vars => NoUpdate'
  BY UnversionedPlan
<1>3. Inductive /\ NoUpdate => (Separator = "" => NothingUpdated)
  BY PlannedFields, DeleteJobFields DEF NothingUpdated, Planned
<1> QED
  BY <1>1, <1>2, <1>3, InductiveHolds, PTL DEF Spec

\* Without a separator the comment of line 26 holds however the manifests are
\* named: no job of an undisturbed cycle stops what a manifest names.
THEOREM UnversionedKept == Spec => [](Separator = "" => NameUnchangedNotStopped)
<1>1. Inductive /\ NothingUpdated => NameUnchangedNotStopped
  BY PlannedFields, DeleteJobFields
  DEF NothingUpdated, Planned, NameUnchangedNotStopped, Inductive, TypeOK, DeleteIsObsolete
<1> QED
  BY <1>1, UnversionedNotUpdated, InductiveHolds, PTL
-----------------------------------------------------------------------------
(* Every cycle has only so much to do.                                     *)

\* The inner loop of match-objects ends right after the last file.
ScanInFiles == obj # NoName => pos <= Len(files) + 1

LEMMA ScanInFilesStep ==
    Inductive /\ ScanInFiles /\ [Next]_vars => ScanInFiles'
<1> SUFFICES ASSUME Inductive, ScanInFiles, [Next]_vars PROVE ScanInFiles'
  OBVIOUS
<1>0. Len(files) \in Nat /\ pos \in Nat
  BY LenProperties DEF Inductive, TypeOK
<1>1. CASE Manager
  BY <1>0, <1>1
  DEF Manager, Query, QueryFails, ListFile, ListingDone, NextObject, FileDiffers,
      FileMatches, NoFileMatches, FindNewFiles, ForkDelete, ForkCreate, ForkUpdate, Fork,
      WaitForStops, EndCycle, LeaveCycle, ScanInFiles, Inductive, MatchingDone
<1>2. ASSUME NEW j \in Jobs, Job(j) PROVE ScanInFiles'
  BY <1>2
  DEF ScanInFiles, Job, StopSucceeds, StopFindsNothing, StopFaults, StopTryFailed, ReadName,
      CreateSucceeds, CreateRejected, CreateFaults, CreateTryFailed
<1>3. CASE Surroundings
  BY <1>3 DEF Surroundings, EditDisk, Meddle, Crash, LeaveCycle, ScanInFiles
<1> QED
  BY <1>1, <1>2, <1>3 DEF Next, vars, ScanInFiles

\* What a step of a job leaves alone: all that the script works with.
LEMMA JobLeavesScript ==
    ASSUME TypeOK, NEW j \in Jobs, Job(j)
    PROVE  /\ UNCHANGED <<pc, toList, toMatch, obj, pos, files>>
           /\ Unforked' = Unforked
           /\ \A k \in Jobs : k # j => at'[k] = at[k] /\ tries'[k] = tries[k]
  BY DEF Job, StopSucceeds, StopFindsNothing, StopFaults, StopTryFailed, ReadName,
         CreateSucceeds, CreateRejected, CreateFaults, CreateTryFailed, Goto, AfterStop,
         Unforked, TypeOK

\* The script advances in each of its steps.
LEMMA ManagerAdvances ==
    ASSUME Inductive, ScanInFiles, Manager, pc # "idle", pc' # "idle"
    PROVE  \/ PhaseRank' < PhaseRank
           \/ /\ pc' = pc
              /\ \/ toList' \subseteq toList /\ toList' # toList
                 \/ /\ toList' = toList
                    /\ toMatch' \subseteq toMatch /\ toMatch' # toMatch
                 \/ /\ UNCHANGED <<toList, toMatch>> /\ ScanRank' < ScanRank
                    /\ ScanRank' >= 0
                 \/ /\ UNCHANGED <<toList, toMatch, ScanRank>>
                    /\ Unforked' \subseteq Unforked /\ Unforked' # Unforked
<1>0. Len(files) \in Nat /\ pos \in Nat /\ at \in [Jobs -> JobStates]
  BY LenProperties DEF Inductive, TypeOK
<1>1. CASE Query \/ QueryFails \/ EndCycle
  BY <1>1 DEF Query, QueryFails, EndCycle, LeaveCycle
<1>2. CASE ListingDone \/ FindNewFiles \/ WaitForStops
  BY <1>2 DEF ListingDone, FindNewFiles, WaitForStops, PhaseRank
<1>3. ASSUME NEW p \in Paths, ListFile(p)
      PROVE  pc' = pc /\ toList' \subseteq toList /\ toList' # toList
  BY <1>3 DEF ListFile
<1>4. ASSUME NEW n \in NsName, NextObject(n)
      PROVE  /\ UNCHANGED <<pc, toList>>
             /\ toMatch' \subseteq toMatch /\ toMatch' # toMatch
  BY <1>4 DEF NextObject
<1>5. ASSUME FileDiffers \/ FileMatches \/ NoFileMatches
      PROVE  /\ UNCHANGED <<pc, toList, toMatch>>
             /\ ScanRank' < ScanRank /\ ScanRank' >= 0
  BY <1>0, <1>5 DEF FileDiffers, FileMatches, NoFileMatches, ScanRank, ScanInFiles
<1>6. ASSUME NEW j \in Jobs, ForkDelete(j) \/ ForkCreate(j) \/ ForkUpdate(j)
      PROVE  /\ UNCHANGED <<pc, toList, toMatch, ScanRank>>
             /\ Unforked' \subseteq Unforked /\ Unforked' # Unforked
  BY <1>0, <1>6 DEF ForkDelete, ForkCreate, ForkUpdate, Fork, Unforked, ScanRank
<1> QED
  BY <1>1, <1>2, <1>3, <1>4, <1>5, <1>6 DEF Manager

\* Steps of others in a cycle leave the script where it is.
LEMMA SurroundingsLeaveScript ==
    ASSUME Surroundings, pc' # "idle"
    PROVE  UNCHANGED <<pc, toList, toMatch, obj, pos, files, at, tries>>
  BY DEF Surroundings, EditDisk, Meddle, Crash, LeaveCycle

\* The script never goes back in a cycle: the safety half of CycleEnds.
THEOREM CycleAdvances == Spec => ScriptAdvances
<1>1. Init => ScanInFiles
  BY DEF Init, ScanInFiles
<1> DEFINE Advance ==
             \/ PhaseRank' < PhaseRank
             \/ /\ pc' = pc
                /\ \/ toList' \subseteq toList /\ toList' # toList
                   \/ /\ toList' = toList
                      /\ toMatch' \subseteq toMatch /\ toMatch' # toMatch
                   \/ /\ UNCHANGED <<toList, toMatch>> /\ ScanRank' < ScanRank
                      /\ ScanRank' >= 0
                   \/ /\ UNCHANGED <<toList, toMatch, ScanRank>>
                      /\ Unforked' \subseteq Unforked /\ Unforked' # Unforked
<1>2. Inductive /\ ScanInFiles /\ [Next]_vars =>
        [pc # "idle" /\ pc' # "idle" =>
            \/ UNCHANGED <<pc, toList, toMatch, ScanRank, Unforked>> /\ ~Manager
            \/ Advance]_vars
  <2> SUFFICES ASSUME Inductive, ScanInFiles, Next, pc # "idle", pc' # "idle", ~Advance
               PROVE  UNCHANGED <<pc, toList, toMatch, ScanRank, Unforked>> /\ ~Manager
    BY DEF vars
  <2>1. ~Manager
    BY ManagerAdvances
  <2>2. UNCHANGED <<pc, toList, toMatch, obj, pos, files>> /\ Unforked' = Unforked
    BY <2>1, JobLeavesScript, SurroundingsLeaveScript DEF Next, Inductive, Unforked
  <2> QED
    BY <2>1, <2>2 DEF ScanRank
<1> QED
  BY <1>1, <1>2, ScanInFilesStep, InductiveHolds, PTL DEF Spec, ScriptAdvances

\* A step of a job leaves it less to do.
LEMMA JobDescends ==
    ASSUME Inductive, NEW j \in Jobs, Job(j) PROVE JobRank(j)' < JobRank(j)
<1>1. /\ at \in [Jobs -> JobStates] /\ tries \in [Jobs -> 0 .. NumTries]
      /\ NumTries \in Nat /\ NumTries > 0
  BY ParameterAssumption DEF Inductive, TypeOK
<1>2. at[j] \in {"stop", "create"} => tries[j] > 0
  BY DEF Inductive, JobsSound
<1>3. tries[j] \in Nat /\ tries[j] <= NumTries
  BY <1>1
<1>4. CASE StopSucceeds(j)
  BY <1>1, <1>2, <1>3, <1>4 DEF StopSucceeds, Goto, AfterStop, JobRank
<1>5. ASSUME at[j] = "stop", StopTryFailed(j) PROVE JobRank(j)' < JobRank(j)
  <2>1. CASE tries[j] > 1
    BY <1>1, <1>3, <1>5, <2>1 DEF StopTryFailed, JobRank
  <2>2. CASE ~(tries[j] > 1)
    BY <1>1, <1>2, <1>3, <1>5, <2>2 DEF StopTryFailed, Goto, AfterStop, JobRank
  <2> QED
    BY <2>1, <2>2
<1>6. CASE ReadName(j)
  BY <1>1, <1>3, <1>6 DEF ReadName, Goto, JobRank
<1>7. CASE CreateSucceeds(j)
  BY <1>1, <1>2, <1>3, <1>7 DEF CreateSucceeds, Goto, JobRank
<1>8. ASSUME at[j] = "create", CreateTryFailed(j) PROVE JobRank(j)' < JobRank(j)
  <2>1. CASE tries[j] > 1
    BY <1>1, <1>3, <1>8, <2>1 DEF CreateTryFailed, JobRank
  <2>2. CASE ~(tries[j] > 1)
    BY <1>1, <1>2, <1>3, <1>8, <2>2 DEF CreateTryFailed, Goto, JobRank
  <2> QED
    BY <2>1, <2>2
<1> QED
  BY <1>4, <1>5, <1>6, <1>7, <1>8
  DEF Job, StopFindsNothing, StopFaults, CreateRejected, CreateFaults

\* So does its fork.
LEMMA ForkDescends ==
    ASSUME TypeOK, NEW j \in Jobs, NEW first \in {"stop", "read"}, Fork(j, first)
    PROVE  JobRank(j)' < JobRank(j)
  BY ParameterAssumption DEF Fork, JobRank, TypeOK

\* No job of a cycle ever has more to do than before.
THEOREM JobsDescend == Spec => JobsWindDown
<1> DEFINE Descend == \A j \in Jobs : /\ JobRank(j)' <= JobRank(j)
                                      /\ Job(j) => JobRank(j)' < JobRank(j)
<1>1. Inductive /\ Inductive' /\ [Next]_vars => [pc' # "idle" => Descend]_vars
  <2> SUFFICES ASSUME Inductive, Inductive', Next, pc' # "idle", NEW k \in Jobs
               PROVE  /\ JobRank(k)' <= JobRank(k)
                      /\ Job(k) => JobRank(k)' < JobRank(k)
    BY DEF vars
  <2>1. TypeOK => JobRank(k) \in Nat
    BY ParameterAssumption DEF TypeOK, JobRank
  <2>2. TypeOK' => JobRank(k)' \in Nat
    BY ParameterAssumption DEF TypeOK, JobRank
  <2>3. JobRank(k) \in Nat /\ JobRank(k)' \in Nat
    BY <2>1, <2>2 DEF Inductive
  <2>4. ASSUME at'[k] = at[k], tries'[k] = tries[k] PROVE JobRank(k)' <= JobRank(k)
    BY <2>3, <2>4 DEF JobRank
  <2>5. Job(k) => JobRank(k)' < JobRank(k)
    BY JobDescends
  <2>6. ASSUME NEW j \in Jobs, Job(j) PROVE JobRank(k)' <= JobRank(k)
    <3>1. CASE j = k
      BY <2>3, <2>5, <2>6, <3>1
    <3>2. CASE j # k
      BY <2>4, <2>6, <3>2, JobLeavesScript DEF Inductive
    <3> QED
      BY <3>1, <3>2
  <2>7. ASSUME NEW j \in Jobs, NEW first \in {"stop", "read"}, Fork(j, first)
        PROVE  JobRank(k)' <= JobRank(k)
    <3>1. CASE j = k
      BY <2>3, <2>7, <3>1, ForkDescends DEF Inductive
    <3>2. CASE j # k
      BY <2>4, <2>7, <3>2 DEF Fork, Inductive, TypeOK
    <3> QED
      BY <3>1, <3>2
  <2>8. ASSUME Manager PROVE JobRank(k)' <= JobRank(k)
    BY <2>4, <2>7, <2>8
    DEF Manager, Query, QueryFails, ListFile, ListingDone, NextObject, FileDiffers,
        FileMatches, NoFileMatches, FindNewFiles, ForkDelete, ForkCreate, ForkUpdate,
        WaitForStops, EndCycle, LeaveCycle
  <2>9. ASSUME Surroundings PROVE JobRank(k)' <= JobRank(k)
    BY <2>4, <2>9, SurroundingsLeaveScript
  <2> QED
    BY <2>5, <2>6, <2>8, <2>9 DEF Next
<1> QED
  BY <1>1, InductiveHolds, PTL DEF Spec, JobsWindDown
-----------------------------------------------------------------------------
(* What AddonReconcile inherits from AddonSync.                            *)

\* Only interference ever takes the server away from the manifests, and no job,
\* however outdated its plan, creates what no manifest describes any more.
THEOREM NeverFurther == Spec => Sync!Nearer /\ Sync!OnlyWanted
<1>1. TypeOK /\ [Sync!Next]_Sync!vars =>
        [~dirty /\ WellNamed /\ edits' = edits =>
            /\ server' \ DiskNames' \subseteq server \ DiskNames
            /\ DiskNames' \ server' \subseteq DiskNames \ server]_Sync!vars
  <2> SUFFICES ASSUME TypeOK, Sync!Next, ~dirty, WellNamed, edits' = edits
               PROVE  /\ server' \ DiskNames' \subseteq server \ DiskNames
                      /\ DiskNames' \ server' \subseteq DiskNames \ server
    BY DEF Sync!vars
  <2>1. ~Sync!Interfere
    BY ParameterAssumption DEF TypeOK, Sync!Interfere
  <2> QED
    BY <2>1 DEF Sync!Next, Sync!Approach, Sync!Stray, Sync!Refresh, Sync!Delete, Sync!Create
<1>2. TypeOK /\ [Sync!Next]_Sync!vars =>
        [edits' = edits => server' \ server \subseteq DiskNames]_Sync!vars
  <2> SUFFICES ASSUME TypeOK, Sync!Next, edits' = edits
               PROVE  server' \ server \subseteq DiskNames
    BY DEF Sync!vars
  <2>1. ~Sync!Interfere
    BY ParameterAssumption DEF TypeOK, Sync!Interfere
  <2> QED
    BY <2>1 DEF Sync!Next, Sync!Approach, Sync!Stray, Sync!Refresh, Sync!Delete, Sync!Create
<1> QED
  BY <1>1, <1>2, ImplementsSync, TypeCorrect, PTL
  DEF SyncSpec, Sync!Spec, Sync!Nearer, Sync!OnlyWanted
=============================================================================
