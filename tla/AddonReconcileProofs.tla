------------------------ MODULE AddonReconcileProofs ------------------------
(* Theorems about AddonReconcile, for any sets of names and manifests, any *)
(* separator, number of tries, faults and edits.                           *)
EXTENDS AddonReconcile, AddonNamesProofs

USE DEF env, plan, jobs, history

LEMMA JobsType ==
    /\ \A n \in NsName : DeleteJob(n) \in Jobs
    /\ \A p \in Paths : CreateJob(p) \in Jobs
    /\ \A n \in NsName, p \in Paths :
         UpdateJob(n, p) \in [old : NsName, path : Paths]
    /\ [old : NsName, path : Paths] \subseteq Jobs
  BY DEF DeleteJob, CreateJob, UpdateJob, Jobs

LEMMA JobFields ==
    /\ \A n \in forDelete : DeleteJob(n) \in DeleteJobs /\ DeleteJob(n).old = n
    /\ \A q \in newFiles : CreateJob(q) \in CreateJobs /\ CreateJob(q).path = q
  BY DEF DeleteJobs, DeleteJob, CreateJobs, CreateJob

LEMMA InitType == Init => TypeOK
<1> SUFFICES ASSUME Init PROVE TypeOK
  OBVIOUS
<1>1. files \in Seq(Paths)
  BY EmptySeq DEF Init
<1>2. /\ at \in [Jobs -> JobStates]
      /\ tries \in [Jobs -> 0 .. NumTries]
      /\ opened \in [Jobs -> NsName \cup {NoName}]
  BY ParameterAssumption DEF Init, JobStates
<1>3. faults \in 0 .. MaxFaults /\ edits \in 0 .. MaxEdits
  BY ParameterAssumption DEF Init
<1>4. /\ disk \in [Paths -> Content] /\ server \subseteq NsName /\ pc \in Phases
      /\ toList \subseteq Paths /\ toMatch \subseteq NsName
      /\ obj \in NsName \cup {NoName} /\ pos \in Nat \ {0}
      /\ matched \subseteq Paths /\ forDelete \subseteq NsName
      /\ forUpdate \subseteq [old : NsName, path : Paths]
      /\ newFiles \subseteq Paths /\ listed \subseteq Jobs
      /\ result \in {"none", "ok", "errors"} /\ stopFailed \subseteq NsName
  BY DEF Init, Phases
<1>5. stopResult \in BOOLEAN /\ dirty \in BOOLEAN
  BY Zenon DEF Init
<1> QED
  BY <1>1, <1>2, <1>3, <1>4, <1>5 DEF TypeOK

LEMMA LeaveType ==
    ASSUME TypeOK, NEW r \in {"none", "ok", "errors"}, LeaveCycle(r),
           disk' = disk, server' = server, edits' = edits,
           faults' = faults \/ Fault
    PROVE  TypeOK'
<1>1. files' \in Seq(Paths)
  BY EmptySeq DEF LeaveCycle
<1>2. /\ at' \in [Jobs -> JobStates]
      /\ tries' \in [Jobs -> 0 .. NumTries]
      /\ opened' \in [Jobs -> NsName \cup {NoName}]
  BY ParameterAssumption DEF LeaveCycle, JobStates
<1>3. faults' \in 0 .. MaxFaults
  BY ParameterAssumption DEF TypeOK, Fault
<1>4. disk' \in [Paths -> Content] /\ server' \subseteq NsName
      /\ edits' \in 0 .. MaxEdits
  BY DEF TypeOK
<1>5. /\ pc' \in Phases
      /\ toList' \subseteq Paths /\ toMatch' \subseteq NsName
      /\ obj' \in NsName \cup {NoName} /\ pos' \in Nat \ {0}
      /\ matched' \subseteq Paths /\ forDelete' \subseteq NsName
      /\ forUpdate' \subseteq [old : NsName, path : Paths]
      /\ newFiles' \subseteq Paths /\ listed' \subseteq Jobs
      /\ result' \in {"none", "ok", "errors"} /\ stopFailed' \subseteq NsName
  BY DEF LeaveCycle, Phases
<1>6. stopResult' \in BOOLEAN /\ dirty' \in BOOLEAN
  BY Zenon DEF LeaveCycle
<1> QED
  BY <1>1, <1>2, <1>3, <1>4, <1>5, <1>6 DEF TypeOK

\* Every variable keeps its type in a step of the script.
LEMMA ManagerType == TypeOK /\ Manager => TypeOK'
<1> SUFFICES ASSUME TypeOK, Manager PROVE TypeOK'
  OBVIOUS
<1>1. CASE Query
  BY <1>1 DEF Query, TypeOK, Phases
<1>2. CASE QueryFails
  BY <1>2, LeaveType DEF QueryFails
<1>3. ASSUME NEW p \in Paths, ListFile(p) PROVE TypeOK'
  <2>1. files' \in Seq(Paths)
    BY <1>3, AppendProperties DEF ListFile, TypeOK
  <2> QED
    BY <1>3, <2>1 DEF ListFile, TypeOK
<1>4. CASE ListingDone
  BY <1>4 DEF ListingDone, TypeOK, Phases
<1>5. ASSUME NEW n \in NsName, NextObject(n) PROVE TypeOK'
  BY <1>5 DEF NextObject, TypeOK
<1>6. CASE FileDiffers
  BY <1>6 DEF FileDiffers, TypeOK
<1>7. CASE FileMatches
  <2> DEFINE p == files[pos]
  <2>1. p \in Paths /\ obj \in NsName
    BY <1>7, ElementOfSeq, LenProperties DEF FileMatches, TypeOK
  <2>2. forUpdate' \subseteq [old : NsName, path : Paths]
    BY <1>7, <2>1, JobsType DEF FileMatches, TypeOK
  <2>3. matched' \subseteq Paths
    BY <1>7, <2>1 DEF FileMatches, TypeOK
  <2> QED
    BY <1>7, <2>2, <2>3 DEF FileMatches, TypeOK
<1>8. CASE NoFileMatches
  BY <1>8 DEF NoFileMatches, TypeOK
<1>9. CASE FindNewFiles
  <2>1. newFiles' \subseteq Paths
    BY <1>9 DEF FindNewFiles, TypeOK, ToSet
  <2> QED
    BY <1>9, <2>1 DEF FindNewFiles, TypeOK, Phases
<1>10. ASSUME NEW j \in Jobs, ForkDelete(j) \/ ForkCreate(j) \/ ForkUpdate(j)
       PROVE  TypeOK'
  <2>1. PICK first \in {"stop", "read"} : Fork(j, first)
    BY <1>10 DEF ForkDelete, ForkCreate, ForkUpdate
  <2> QED
    BY <2>1, ParameterAssumption DEF Fork, TypeOK, JobStates
<1>11. CASE WaitForStops
  BY <1>11 DEF WaitForStops, WaitReturns, TypeOK, Phases
<1>12. CASE EndCycle
  <2>1. PICK rc \in BOOLEAN : LeaveCycle(IF stopResult /\ rc THEN "ok" ELSE "errors")
    BY <1>12 DEF EndCycle
  <2> QED
    BY <1>12, <2>1, LeaveType DEF EndCycle
<1> QED
  BY <1>1, <1>2, <1>3, <1>4, <1>5, <1>6, <1>7, <1>8, <1>9, <1>10, <1>11,
     <1>12 DEF Manager

LEMMA AfterStopType ==
    ASSUME NEW j \in Jobs, NEW s \in JobStates
    PROVE  AfterStop(j, s) \in JobStates
  BY DEF AfterStop, JobStates

LEMMA StopTryFailedType ==
    ASSUME TypeOK, NEW j \in Jobs, at[j] = "stop", tries[j] > 0,
           j.old \in NsName, StopTryFailed(j),
           server' \subseteq NsName, faults' = faults \/ Fault
    PROVE  TypeOK'
<1>1. faults' \in 0 .. MaxFaults
  BY ParameterAssumption DEF TypeOK, Fault
<1>2. tries' \in [Jobs -> 0 .. NumTries]
  BY ParameterAssumption DEF StopTryFailed, TypeOK
<1>3. at' \in [Jobs -> JobStates] /\ stopFailed' \subseteq NsName
  BY AfterStopType DEF StopTryFailed, Goto, TypeOK, JobStates
<1> QED
  BY <1>1, <1>2, <1>3 DEF StopTryFailed, TypeOK

LEMMA CreateTryFailedType ==
    ASSUME TypeOK, NEW j \in Jobs, tries[j] > 0, CreateTryFailed(j),
           server' \subseteq NsName, faults' = faults \/ Fault
    PROVE  TypeOK'
<1>1. faults' \in 0 .. MaxFaults
  BY ParameterAssumption DEF TypeOK, Fault
<1>2. tries' \in [Jobs -> 0 .. NumTries]
  BY ParameterAssumption DEF CreateTryFailed, TypeOK
<1>3. at' \in [Jobs -> JobStates]
  BY DEF CreateTryFailed, Goto, TypeOK, JobStates
<1> QED
  BY <1>1, <1>2, <1>3 DEF CreateTryFailed, TypeOK

\* Every variable keeps its type in a step of a job.
LEMMA JobType ==
    ASSUME TypeOK, JobsSound, NEW j \in Jobs, Job(j)
    PROVE  TypeOK'
<1>1. CASE StopSucceeds(j)
  BY <1>1, AfterStopType DEF StopSucceeds, Goto, TypeOK, JobStates
<1>2. CASE StopFindsNothing(j)
  BY <1>2, StopTryFailedType DEF StopFindsNothing, JobsSound, TypeOK
<1>3. CASE StopFaults(j)
  BY <1>3, StopTryFailedType DEF StopFaults, JobsSound, TypeOK
<1>4. CASE ReadName(j)
  <2>1. at' \in [Jobs -> JobStates]
    BY <1>4 DEF ReadName, Goto, TypeOK, JobStates
  <2>2. tries' \in [Jobs -> 0 .. NumTries]
    BY <1>4, ParameterAssumption DEF ReadName, TypeOK
  <2>3. opened' \in [Jobs -> NsName \cup {NoName}]
    BY <1>4 DEF ReadName, TypeOK
  <2> QED
    BY <1>4, <2>1, <2>2, <2>3 DEF ReadName, TypeOK
<1>5. CASE CreateSucceeds(j)
  BY <1>5 DEF CreateSucceeds, Creatable, Goto, TypeOK, JobStates
<1>6. CASE CreateRejected(j)
  BY <1>6, CreateTryFailedType DEF CreateRejected, JobsSound, TypeOK
<1>7. CASE CreateFaults(j)
  BY <1>7, CreateTryFailedType
  DEF CreateFaults, Creatable, JobsSound, TypeOK
<1> QED
  BY <1>1, <1>2, <1>3, <1>4, <1>5, <1>6, <1>7 DEF Job

\* Every variable keeps its type when others change the world.
LEMMA SurroundingsType == TypeOK /\ Surroundings => TypeOK'
<1> SUFFICES ASSUME TypeOK, Surroundings PROVE TypeOK'
  OBVIOUS
<1>1. ASSUME NEW p \in Paths, NEW c \in Content, EditDisk(p, c)
      PROVE  TypeOK'
  BY <1>1, ParameterAssumption DEF EditDisk, Edit, TypeOK
<1>2. ASSUME NEW n \in NsName, Meddle(n) PROVE TypeOK'
  BY <1>2, ParameterAssumption DEF Meddle, Edit, TypeOK
<1>3. CASE Crash
  BY <1>3, LeaveType DEF Crash
<1> QED
  BY <1>1, <1>2, <1>3 DEF Surroundings
-----------------------------------------------------------------------------
(* Names of add-ons: instances of the lemmas on names.                     *)

LEMMA SelfMatch ==
    ASSUME NEW n \in NsName PROVE Matches(n, n, Separator)
  BY NameAssumption, MatchIsSameBase

LEMMA MatchBase ==
    ASSUME NEW n \in NsName, NEW f \in NsName
    PROVE  Matches(n, f, Separator) <=> Base(n, Separator) = Base(f, Separator)
  BY NameAssumption, MatchIsSameBase

LEMMA SameVersion ==
    ASSUME NEW n \in NsName, NEW f \in NsName, Matches(n, f, Separator)
    PROVE  Suffix(n, Separator) = Suffix(f, Separator) <=> n = f
  BY NameAssumption, SameVersionIsSameName
-----------------------------------------------------------------------------
(* What follows from the inductive invariant.                              *)

\* A job that stops an object does so because no manifest names it.
LEMMA InductiveKeepsCurrent == Inductive => KeepsCurrent
<1> SUFFICES ASSUME Inductive, ~dirty, WellNamed,
                    NEW j \in Jobs, at[j] = "stop", j.old \in DiskNames
             PROVE  FALSE
  BY DEF KeepsCurrent
<1>1. j \in DeleteJobs \cup CreateJobs \cup forUpdate /\ j.old \in NsName
  BY DEF Inductive, JobsInPhase, JobsSound
<1>2. CASE j \in DeleteJobs
  BY <1>2 DEF DeleteJobs, DeleteJob, Inductive, DeleteIsObsolete
<1>3. CASE j \in CreateJobs
  BY <1>1, <1>3, NameAssumption DEF CreateJobs, CreateJob
<1>4. CASE j \in forUpdate
  <2>1. PICK q \in Paths : disk[q] = j.old
    BY DEF DiskNames
  <2>2. /\ j.path \in Paths /\ disk[j.path] \in NsName
        /\ Matches(j.old, disk[j.path], Separator) /\ j.old # disk[j.path]
    BY <1>4 DEF Inductive, TypeOK, UpdateIsOutdated
  <2>3. Base(disk[q], Separator) = Base(disk[j.path], Separator)
    BY <1>1, <2>1, <2>2, MatchBase
  <2>4. q = j.path
    BY <1>1, <2>1, <2>2, <2>3 DEF WellNamed
  <2> QED
    BY <2>1, <2>2, <2>4
<1> QED
  BY <1>1, <1>2, <1>3, <1>4

LEMMA InductiveOldGone == Inductive => OldGoneFirst
<1> SUFFICES ASSUME Inductive, pc = "create", ~dirty,
                    NEW n \in forDelete, n \in server
             PROVE  n \in stopFailed
  BY DEF OldGoneFirst
<1>1. n \in NsName /\ n \notin DiskNames
  BY DEF Inductive, TypeOK, DeleteIsObsolete
<1>2. DeleteJob(n) \in Jobs /\ DeleteJob(n).old = n /\ DeleteJob(n) \in DeleteJobs
  BY <1>1, JobsType DEF DeleteJob, DeleteJobs
<1>3. at[DeleteJob(n)] \in {"ok", "failed"}
  BY <1>2 DEF Inductive, JobsInPhase, Finished
<1> QED
  BY <1>1, <1>2, <1>3 DEF Inductive, StoppedIsGone
-----------------------------------------------------------------------------
(* The invariant is inductive.                                             *)

\* What Inductive says of the jobs, true when there is none.
JobPart ==
    /\ JobsInPhase /\ JobsSound /\ RunningIsListed
    /\ StoppedIsGone /\ CreatedIsThere

\* What Inductive says of the plan.
PlanPart ==
    /\ IdleIsFresh /\ MatchingDone /\ ListingComplete /\ ScannedDiffer
    /\ DeleteIsObsolete /\ UpdateIsOutdated /\ AnswerHolds /\ ObsoleteIsKnown
    /\ MatchedIsHandled /\ ListedIsHandled

LEMMA InductiveParts == Inductive <=> TypeOK /\ JobPart /\ PlanPart
  BY DEF Inductive, JobPart, PlanPart

LEMMA NoJobs ==
    ASSUME \A j \in Jobs : at'[j] = "none", pc' # "create"
    PROVE  JobPart'
  BY DEF JobPart, JobsInPhase, JobsSound, RunningIsListed, StoppedIsGone,
         CreatedIsThere

LEMMA InitInductive == Init => Inductive
<1> SUFFICES ASSUME Init PROVE Inductive
  OBVIOUS
<1>1. /\ pc = "idle" /\ files = << >> /\ toMatch = {} /\ obj = NoName
      /\ matched = {} /\ forDelete = {} /\ forUpdate = {} /\ newFiles = {}
      /\ ~dirty
      /\ \A j \in Jobs : at[j] = "none"
  BY DEF Init
<1>2. JobPart
  BY <1>1
  DEF JobPart, JobsInPhase, JobsSound, RunningIsListed, StoppedIsGone,
      CreatedIsThere
<1>3. PlanPart
  BY <1>1
  DEF PlanPart, IdleIsFresh, MatchingDone, ListingComplete, ScannedDiffer,
      DeleteIsObsolete, UpdateIsOutdated, AnswerHolds, ObsoleteIsKnown,
      MatchedIsHandled, ListedIsHandled
<1> QED
  BY <1>2, <1>3, InitType, InductiveParts

LEMMA LeaveParts == ASSUME NEW r, LeaveCycle(r) PROVE JobPart' /\ PlanPart'
<1>1. /\ pc' = "idle" /\ files' = << >> /\ toMatch' = {} /\ obj' = NoName
      /\ matched' = {} /\ forDelete' = {} /\ forUpdate' = {} /\ newFiles' = {}
      /\ ~dirty'
      /\ \A j \in Jobs : at'[j] = "none"
  BY DEF LeaveCycle
<1>2. JobPart'
  BY <1>1, NoJobs
<1>3. PlanPart'
  BY <1>1
  DEF PlanPart, IdleIsFresh, MatchingDone, ListingComplete, ScannedDiffer,
      DeleteIsObsolete, UpdateIsOutdated, AnswerHolds, ObsoleteIsKnown,
      MatchedIsHandled, ListedIsHandled
<1> QED
  BY <1>2, <1>3

\* The steps of match-objects, during which there are no jobs.
LEMMA MatchStepJobs ==
    ASSUME TypeOK, JobPart, pc \in {"idle", "list", "match"},
           at' = at, pc' # "create"
    PROVE  JobPart'
<1>1. \A j \in Jobs : at[j] = "none"
  BY DEF JobPart, JobsInPhase
<1> QED
  BY <1>1, NoJobs

LEMMA QueryPlan == TypeOK /\ PlanPart /\ Query => PlanPart'
<1> SUFFICES ASSUME TypeOK, PlanPart, Query PROVE PlanPart'
  OBVIOUS
<1>1. /\ files = << >> /\ obj = NoName /\ matched = {} /\ forDelete = {}
      /\ forUpdate = {} /\ newFiles = {}
  BY DEF PlanPart, IdleIsFresh, Query
<1> QED
  BY <1>1
  DEF Query, PlanPart, IdleIsFresh, MatchingDone, ListingComplete, ScannedDiffer,
      DeleteIsObsolete, UpdateIsOutdated, AnswerHolds, ObsoleteIsKnown,
      MatchedIsHandled, ListedIsHandled, DiskNames, WellNamed, Describes

LEMMA ListFilePlan ==
    ASSUME TypeOK, PlanPart, NEW p \in Paths, ListFile(p) PROVE PlanPart'
<1>1. ListingComplete'
  <2> SUFFICES ASSUME ~dirty, NEW q \in Paths, disk[q] \in NsName
               PROVE  q \in toList' \/ \E i \in 1 .. Len(files') : files'[i] = q
    BY DEF ListFile, ListingComplete
  <2>1. q \in toList \/ \E i \in 1 .. Len(files) : files[i] = q
    BY DEF PlanPart, ListingComplete, ListFile
  <2>2. CASE disk[p] = Absent
    BY <2>1, <2>2, NameAssumption DEF ListFile
  <2>3. CASE disk[p] # Absent
    <3>1. files' = Append(files, p) /\ files \in Seq(Paths)
      BY <2>3 DEF ListFile, TypeOK
    <3>2. /\ Len(files') = Len(files) + 1 /\ files'[Len(files) + 1] = p
          /\ \A i \in 1 .. Len(files) : files'[i] = files[i]
          /\ Len(files) \in Nat
      BY <3>1, AppendProperties, LenProperties
    <3> QED
      BY <2>1, <3>2 DEF ListFile
  <2> QED
    BY <2>2, <2>3
<1> QED
  BY <1>1
  DEF ListFile, PlanPart, IdleIsFresh, MatchingDone, ScannedDiffer,
      DeleteIsObsolete, UpdateIsOutdated, AnswerHolds, ObsoleteIsKnown,
      MatchedIsHandled, ListedIsHandled, DiskNames, WellNamed, Describes

LEMMA ListingDonePlan == TypeOK /\ PlanPart /\ ListingDone => PlanPart'
  BY
  DEF ListingDone, PlanPart, IdleIsFresh, MatchingDone, ListingComplete, ScannedDiffer,
      DeleteIsObsolete, UpdateIsOutdated, AnswerHolds, ObsoleteIsKnown,
      MatchedIsHandled, ListedIsHandled, DiskNames, WellNamed, Describes

LEMMA NextObjectPlan ==
    ASSUME TypeOK, PlanPart, NEW n \in NsName, NextObject(n) PROVE PlanPart'
<1>1. ScannedDiffer'
  BY LenProperties DEF NextObject, ScannedDiffer
<1>2. IdleIsFresh' /\ MatchingDone' /\ ListingComplete'
  BY DEF NextObject, PlanPart, IdleIsFresh, MatchingDone, ListingComplete
<1>3. DeleteIsObsolete' /\ UpdateIsOutdated' /\ MatchedIsHandled' /\ ListedIsHandled'
  BY DEF NextObject, PlanPart, DeleteIsObsolete, UpdateIsOutdated, MatchedIsHandled,
         ListedIsHandled, DiskNames, WellNamed
<1>4. AnswerHolds' /\ ObsoleteIsKnown'
  BY NameAssumption
  DEF NextObject, PlanPart, AnswerHolds, ObsoleteIsKnown, DiskNames, TypeOK
<1> QED
  BY <1>1, <1>2, <1>3, <1>4 DEF PlanPart

LEMMA FileDiffersPlan == TypeOK /\ PlanPart /\ FileDiffers => PlanPart'
<1> SUFFICES ASSUME TypeOK, PlanPart, FileDiffers PROVE PlanPart'
  OBVIOUS
<1>1. ScannedDiffer'
  <2> SUFFICES ASSUME ~dirty, NEW i \in 1 .. Len(files), i < pos + 1
               PROVE  ~Describes(disk[files[i]])
    BY DEF FileDiffers, ScannedDiffer, Describes
  <2>1. CASE i = pos
    BY <2>1 DEF FileDiffers
  <2>2. CASE i # pos
    <3>1. Len(files) \in Nat /\ pos \in Nat
      BY LenProperties DEF TypeOK
    <3>2. i < pos
      BY <2>2, <3>1
    <3> QED
      BY <3>2 DEF PlanPart, ScannedDiffer, FileDiffers
  <2> QED
    BY <2>1, <2>2
<1>2. /\ IdleIsFresh' /\ MatchingDone' /\ ListingComplete' /\ DeleteIsObsolete'
      /\ UpdateIsOutdated' /\ MatchedIsHandled' /\ ListedIsHandled'
      /\ AnswerHolds' /\ ObsoleteIsKnown'
  BY DEF FileDiffers, PlanPart, IdleIsFresh, MatchingDone, ListingComplete,
         DeleteIsObsolete, UpdateIsOutdated, MatchedIsHandled, ListedIsHandled,
         AnswerHolds, ObsoleteIsKnown, DiskNames, WellNamed
<1> QED
  BY <1>1, <1>2 DEF PlanPart

LEMMA FileMatchesPlan == TypeOK /\ PlanPart /\ FileMatches => PlanPart'
<1> SUFFICES ASSUME TypeOK, PlanPart, FileMatches PROVE PlanPart'
  OBVIOUS
<1> DEFINE p == files[pos]
           same == Suffix(obj, Separator) = Suffix(disk[p], Separator)
<1>1. /\ p \in Paths /\ obj \in NsName /\ disk[p] \in NsName
      /\ Matches(obj, disk[p], Separator)
  BY ElementOfSeq, LenProperties DEF FileMatches, Describes, TypeOK
<1>2. same <=> obj = disk[p]
  BY <1>1, SameVersion
<1>3. /\ matched' = matched \cup {p}
      /\ forUpdate' = IF obj = disk[p] THEN forUpdate
                      ELSE forUpdate \cup {UpdateJob(obj, p)}
      /\ pc = "match" /\ obj' = NoName /\ toMatch' = toMatch
      /\ UNCHANGED <<disk, server, pc, toList, files, forDelete, newFiles, dirty>>
  BY <1>2 DEF FileMatches
<1>4. UpdateJob(obj, p).old = obj /\ UpdateJob(obj, p).path = p
  BY DEF UpdateJob
<1> HIDE DEF p, same
<1>5. IdleIsFresh' /\ MatchingDone' /\ ListingComplete' /\ ScannedDiffer'
  BY <1>3 DEF PlanPart, IdleIsFresh, MatchingDone, ListingComplete, ScannedDiffer
<1>6. DeleteIsObsolete' /\ ListedIsHandled' /\ AnswerHolds'
  BY <1>3 DEF PlanPart, DeleteIsObsolete, ListedIsHandled, AnswerHolds, DiskNames
<1>7. UpdateIsOutdated'
  BY <1>1, <1>3, <1>4 DEF PlanPart, UpdateIsOutdated
<1>8. ObsoleteIsKnown'
  BY <1>1, <1>3, <1>4 DEF PlanPart, ObsoleteIsKnown, DiskNames
<1>9. MatchedIsHandled'
  BY <1>1, <1>3, <1>4, NameAssumption
  DEF PlanPart, MatchedIsHandled, AnswerHolds, WellNamed
<1> QED
  BY <1>5, <1>6, <1>7, <1>8, <1>9 DEF PlanPart

LEMMA NoFileMatchesPlan == TypeOK /\ PlanPart /\ NoFileMatches => PlanPart'
<1> SUFFICES ASSUME TypeOK, PlanPart, NoFileMatches PROVE PlanPart'
  OBVIOUS
<1>1. DeleteIsObsolete'
  <2> SUFFICES ASSUME ~dirty, NEW q \in Paths, disk[q] = obj PROVE FALSE
    BY DEF NoFileMatches, PlanPart, DeleteIsObsolete, DiskNames
  <2>1. obj \in NsName /\ pc = "match" /\ Len(files) \in Nat
    BY LenProperties DEF NoFileMatches, TypeOK
  <2>2. PICK i \in 1 .. Len(files) : files[i] = q
    BY <2>1 DEF PlanPart, ListingComplete
  <2>3. i < pos
    BY <2>1 DEF NoFileMatches, TypeOK
  <2>4. ~Describes(disk[q])
    BY <2>2, <2>3 DEF NoFileMatches, PlanPart, ScannedDiffer
  <2> QED
    BY <2>1, <2>4, SelfMatch DEF Describes
<1>2. IdleIsFresh' /\ MatchingDone' /\ ListingComplete' /\ ScannedDiffer'
  BY DEF NoFileMatches, PlanPart, IdleIsFresh, MatchingDone, ListingComplete,
         ScannedDiffer
<1>3. UpdateIsOutdated' /\ ListedIsHandled' /\ AnswerHolds'
  BY DEF NoFileMatches, PlanPart, UpdateIsOutdated, ListedIsHandled, AnswerHolds
<1>4. ObsoleteIsKnown' /\ MatchedIsHandled'
  BY DEF NoFileMatches, PlanPart, ObsoleteIsKnown, MatchedIsHandled, DiskNames,
         WellNamed
<1> QED
  BY <1>1, <1>2, <1>3, <1>4 DEF PlanPart

LEMMA FindNewFilesPlan == TypeOK /\ PlanPart /\ FindNewFiles => PlanPart'
<1> SUFFICES ASSUME TypeOK, PlanPart, FindNewFiles PROVE PlanPart'
  OBVIOUS
<1>1. ListedIsHandled'
  BY LenProperties DEF FindNewFiles, ListedIsHandled, TypeOK, ToSet
<1>2. IdleIsFresh' /\ MatchingDone' /\ ListingComplete' /\ ScannedDiffer'
  BY DEF FindNewFiles, PlanPart, IdleIsFresh, MatchingDone, ListingComplete,
         ScannedDiffer
<1>3. DeleteIsObsolete' /\ UpdateIsOutdated' /\ AnswerHolds'
  BY DEF FindNewFiles, PlanPart, DeleteIsObsolete, UpdateIsOutdated, AnswerHolds,
         DiskNames
<1>4. ObsoleteIsKnown' /\ MatchedIsHandled'
  BY DEF FindNewFiles, PlanPart, ObsoleteIsKnown, MatchedIsHandled, DiskNames,
         WellNamed
<1> QED
  BY <1>1, <1>2, <1>3, <1>4 DEF PlanPart

\* Steps once the plan is made: they keep it true as long as they create only
\* what a manifest describes, and delete only what none does.
LEMMA PlanKept ==
    ASSUME TypeOK, PlanPart, UNCHANGED <<disk, plan, dirty>>,
           pc \in {"stop", "create"}, pc' \in {"stop", "create"},
           server' \ server \subseteq DiskNames,
           ~dirty /\ WellNamed => (server \ server') \cap DiskNames = {}
    PROVE  PlanPart'
<1>1. DiskNames' = DiskNames /\ (WellNamed' <=> WellNamed)
  BY DEF DiskNames, WellNamed
<1>2. /\ IdleIsFresh' /\ MatchingDone' /\ ListingComplete' /\ ScannedDiffer'
      /\ UpdateIsOutdated' /\ ListedIsHandled' /\ AnswerHolds'
  BY DEF PlanPart, IdleIsFresh, MatchingDone, ListingComplete, ScannedDiffer,
         UpdateIsOutdated, ListedIsHandled, AnswerHolds, Describes
<1>3. DeleteIsObsolete' /\ ObsoleteIsKnown'
  BY <1>1 DEF PlanPart, DeleteIsObsolete, ObsoleteIsKnown
<1>4. MatchedIsHandled'
  <2> SUFFICES ASSUME ~dirty, WellNamed, NEW q \in matched, disk[q] \in server
               PROVE  disk[q] \in server'
    BY <1>1 DEF PlanPart, MatchedIsHandled
  <2>1. disk[q] \in DiskNames
    BY DEF TypeOK, DiskNames
  <2> QED
    BY <2>1
<1> QED
  BY <1>2, <1>3, <1>4 DEF PlanPart

\* Forking a job.
LEMMA ForkJobs ==
    ASSUME TypeOK, JobPart, NEW j \in Jobs, NEW first \in {"stop", "read"},
           Fork(j, first),
           \/ pc = "stop" /\ j \in DeleteJobs
           \/ pc = "create" /\ j \in (CreateJobs \cup forUpdate) \ DeleteJobs,
           first = "stop" => j.old \in NsName,
           first = "read" => j.path \in Paths /\ j.old = NoName
    PROVE  JobPart'
<1>1. /\ at' = [at EXCEPT ![j] = first] /\ at[j] = "none"
      /\ tries' = [tries EXCEPT ![j] = NumTries]
      /\ listed' = {k \in listed : at[k] \notin {"ok", "failed"}} \cup {j}
      /\ UNCHANGED <<disk, server, pc, forDelete, forUpdate, newFiles, dirty, stopFailed>>
  BY DEF Fork, Finished
<1>2. /\ DeleteJobs' = DeleteJobs /\ CreateJobs' = CreateJobs
      /\ DiskNames' = DiskNames /\ (WellNamed' <=> WellNamed)
  BY <1>1 DEF DeleteJobs, CreateJobs, DiskNames, WellNamed
<1>3. JobsInPhase'
  BY <1>1, <1>2 DEF JobPart, JobsInPhase, Finished, TypeOK
<1>4. JobsSound'
  BY <1>1, ParameterAssumption DEF JobPart, JobsSound, TypeOK
<1>5. RunningIsListed'
  BY <1>1 DEF JobPart, RunningIsListed, TypeOK
<1>6. StoppedIsGone'
  BY <1>1, <1>2, NameAssumption DEF JobPart, StoppedIsGone, TypeOK
<1>7. CreatedIsThere'
  BY <1>1, <1>2 DEF JobPart, CreatedIsThere, TypeOK
<1> QED
  BY <1>3, <1>4, <1>5, <1>6, <1>7 DEF JobPart

\* Waiting for the deletions.
LEMMA WaitForStopsJobs == TypeOK /\ JobPart /\ WaitForStops => JobPart'
<1> SUFFICES ASSUME TypeOK, JobPart, WaitForStops PROVE JobPart'
  OBVIOUS
<1>1. /\ \A j \in Jobs : at[j] \in {"none", "ok", "failed"}
      /\ \A j \in DeleteJobs : at[j] # "none"
      /\ \A j \in DeleteJobs : j \in Jobs
  <2>1. \A j \in listed : at[j] \in {"ok", "failed"}
    BY DEF WaitForStops, WaitReturns, Finished
  <2>2. \A j \in DeleteJobs : j \in Jobs
    BY JobsType DEF DeleteJobs, TypeOK
  <2> QED
    BY <2>1, <2>2
    DEF WaitForStops, Forked, JobPart, RunningIsListed, TypeOK, JobStates
<1>2. /\ pc = "stop" /\ pc' = "create" /\ listed' = {}
      /\ UNCHANGED <<disk, server, at, tries, forDelete, forUpdate, newFiles, dirty,
                     stopFailed>>
      /\ DeleteJobs' = DeleteJobs /\ CreateJobs' = CreateJobs
      /\ DiskNames' = DiskNames /\ (WellNamed' <=> WellNamed)
  BY DEF WaitForStops, DeleteJobs, CreateJobs, DiskNames, WellNamed
<1>3. JobsInPhase'
  BY <1>1, <1>2 DEF JobPart, JobsInPhase, Finished
<1>4. JobsSound' /\ RunningIsListed'
  BY <1>1, <1>2 DEF JobPart, JobsSound, RunningIsListed
<1>5. StoppedIsGone' /\ CreatedIsThere'
  BY <1>2 DEF JobPart, StoppedIsGone, CreatedIsThere
<1> QED
  BY <1>3, <1>4, <1>5 DEF JobPart

\* A step of a job, by what it does to the job and to the server.
LEMMA JobMoves ==
    ASSUME TypeOK, JobPart, NEW j \in Jobs,
           NEW s \in {"stop", "read", "create", "ok", "failed"},
           at[j] \in {"stop", "read", "create"}, at' = [at EXCEPT ![j] = s],
           UNCHANGED <<disk, pc, plan, listed, dirty>>,
           \A k \in Jobs : k # j => tries'[k] = tries[k],
           server' \ server \subseteq DiskNames,
           ~dirty /\ WellNamed => (server \ server') \cap DiskNames = {},
           stopFailed \subseteq stopFailed',
           s \in {"stop", "create"} => tries'[j] > 0,
           s = "stop" => at[j] = "stop",
           s \in {"read", "create"} => j.path \in Paths,
           at[j] = "stop" /\ s # "stop" => j.old \in stopFailed' \/ j.old \notin server',
           s = "ok" /\ j.path \in Paths => disk[j.path] \in server'
    PROVE  JobPart'
<1>1. /\ DeleteJobs' = DeleteJobs /\ CreateJobs' = CreateJobs
      /\ DiskNames' = DiskNames /\ (WellNamed' <=> WellNamed)
  BY DEF DeleteJobs, CreateJobs, DiskNames, WellNamed
<1>2. JobsInPhase'
  BY <1>1 DEF JobPart, JobsInPhase, Finished, TypeOK
<1>3. JobsSound'
  BY DEF JobPart, JobsSound, TypeOK
<1>4. RunningIsListed'
  BY DEF JobPart, RunningIsListed, TypeOK
<1>5. StoppedIsGone'
  BY <1>1 DEF JobPart, StoppedIsGone, TypeOK
<1>6. CreatedIsThere'
  <2> SUFFICES ASSUME ~dirty, WellNamed, NEW k \in Jobs, at'[k] = "ok", k.path \in Paths
               PROVE  disk[k.path] \in server'
    BY <1>1 DEF CreatedIsThere
  <2>1. CASE k = j
    BY <2>1 DEF TypeOK
  <2>2. CASE k # j
    <3>1. disk[k.path] \in server
      BY <2>2 DEF JobPart, CreatedIsThere, TypeOK
    <3>2. disk[k.path] \in DiskNames
      BY <3>1 DEF DiskNames, TypeOK
    <3> QED
      BY <3>1, <3>2
  <2> QED
    BY <2>1, <2>2
<1> QED
  BY <1>2, <1>3, <1>4, <1>5, <1>6 DEF JobPart

\* A job creates only what a manifest describes, and in a cycle nobody
\* interfered with it deletes only what none does.
LEMMA JobServer ==
    ASSUME Inductive, NEW j \in Jobs, Job(j)
    PROVE  /\ server' \ server \subseteq DiskNames
           /\ ~dirty /\ WellNamed => (server \ server') \cap DiskNames = {}
           /\ \E n \in NsName \cup {NoName} :
                server' \in {server, server \cup {n}, server \ {n}}
<1>1. CASE StopSucceeds(j) \/ StopFindsNothing(j) \/ StopFaults(j)
  <2>1. at[j] = "stop" /\ server' \in {server, server \ {j.old}}
    BY <1>1 DEF StopSucceeds, StopFindsNothing, StopFaults
  <2>2. j.old \in NsName \cup {NoName}
    BY DEF Jobs
  <2> QED
    BY <2>1, <2>2, InductiveKeepsCurrent DEF KeepsCurrent
<1>2. CASE CreateSucceeds(j) \/ CreateRejected(j) \/ CreateFaults(j)
  <2>1. server' = server \/ (Creatable(j) /\ server' = server \cup {disk[j.path]})
    BY <1>2 DEF CreateSucceeds, CreateRejected, CreateFaults
  <2>2. at[j] = "create" /\ j.path \in Paths
    BY <1>2 DEF CreateSucceeds, CreateRejected, CreateFaults, Inductive, JobsSound
  <2> QED
    BY <2>1, <2>2 DEF Creatable, DiskNames
<1>3. CASE ReadName(j)
  BY <1>3 DEF ReadName
<1> QED
  BY <1>1, <1>2, <1>3 DEF Job

\* Every step of a job keeps the invariant.
LEMMA JobInductive ==
    ASSUME Inductive, NEW j \in Jobs, Job(j) PROVE Inductive'
<1>0. TypeOK /\ JobPart /\ PlanPart
  BY InductiveParts
<1>1. TypeOK'
  BY JobType DEF Inductive
<1>2. /\ at[j] \in {"stop", "read", "create"}
      /\ UNCHANGED <<disk, pc, plan, listed, dirty>>
  BY DEF Job, StopSucceeds, StopFindsNothing, StopFaults, StopTryFailed, ReadName,
         CreateSucceeds, CreateRejected, CreateFaults, CreateTryFailed
<1>3. pc \in {"stop", "create"}
  BY <1>2 DEF Inductive, JobsInPhase
<1>4. PlanPart'
  BY <1>0, <1>2, <1>3, JobServer, PlanKept
<1> DEFINE Moves(s) ==
             /\ at' = [at EXCEPT ![j] = s]
             /\ \A k \in Jobs : k # j => tries'[k] = tries[k]
             /\ stopFailed \subseteq stopFailed'
             /\ s \in {"stop", "create"} => tries'[j] > 0
             /\ s = "stop" => at[j] = "stop"
             /\ s \in {"read", "create"} => j.path \in Paths
             /\ at[j] = "stop" /\ s # "stop" =>
                  j.old \in stopFailed' \/ j.old \notin server'
             /\ s = "ok" /\ j.path \in Paths => disk[j.path] \in server'
<1>5. ASSUME NEW s \in {"stop", "read", "create", "ok", "failed"}, Moves(s)
      PROVE  JobPart'
  <2> HIDE DEF Jobs
  <2>1. /\ server' \ server \subseteq DiskNames
        /\ ~dirty /\ WellNamed => (server \ server') \cap DiskNames = {}
    BY JobServer
  <2> QED
    BY <1>0, <1>2, <1>5, <2>1, JobMoves
<1>6. at \in [Jobs -> JobStates] /\ tries \in [Jobs -> 0 .. NumTries]
  BY <1>0 DEF TypeOK
<1>7. /\ at[j] \in {"stop", "create"} => tries[j] > 0
      /\ at[j] \in {"read", "create"} => j.path \in Paths
      /\ j.path # NoPath => j.path \in Paths
  BY <1>0 DEF JobPart, JobsSound, Jobs
<1>8. ASSUME StopSucceeds(j) PROVE JobPart'
  <2>1. Moves("ok") \/ Moves("read")
    BY <1>6, <1>7, <1>8, PathAssumption DEF StopSucceeds, Goto, AfterStop
  <2> QED
    BY <1>5, <2>1
<1>9. ASSUME at[j] = "stop", StopTryFailed(j) PROVE JobPart'
  <2>1. CASE tries[j] > 1
    <3>1. Moves("stop")
      BY <1>6, <1>9, <2>1 DEF StopTryFailed
    <3> QED
      BY <1>5, <3>1
  <2>2. CASE ~(tries[j] > 1)
    <3>1. Moves("failed") \/ Moves("read")
      BY <1>6, <1>7, <1>9, <2>2 DEF StopTryFailed, Goto, AfterStop
    <3> QED
      BY <1>5, <3>1
  <2> QED
    BY <2>1, <2>2
<1>10. ASSUME ReadName(j) PROVE JobPart'
  <2>1. Moves("create") \/ Moves("failed")
    BY <1>6, <1>7, <1>10, ParameterAssumption DEF ReadName, Goto
  <2> QED
    BY <1>5, <2>1
<1>11. ASSUME CreateSucceeds(j) PROVE JobPart'
  <2>1. Moves("ok")
    BY <1>6, <1>7, <1>11 DEF CreateSucceeds, Goto
  <2> QED
    BY <1>5, <2>1
<1>12. ASSUME at[j] = "create", CreateTryFailed(j) PROVE JobPart'
  <2>1. CASE tries[j] > 1
    <3>1. Moves("create")
      BY <1>6, <1>7, <1>12, <2>1 DEF CreateTryFailed
    <3> QED
      BY <1>5, <3>1
  <2>2. CASE ~(tries[j] > 1)
    <3>1. Moves("failed")
      BY <1>6, <1>7, <1>12, <2>2 DEF CreateTryFailed, Goto
    <3> QED
      BY <1>5, <3>1
  <2> QED
    BY <2>1, <2>2
<1>13. JobPart'
  BY <1>8, <1>9, <1>10, <1>11, <1>12
  DEF Job, StopFindsNothing, StopFaults, CreateRejected, CreateFaults
<1> QED
  BY <1>1, <1>4, <1>13 DEF Inductive, JobPart, PlanPart

\* Every step of the script keeps the invariant.
LEMMA ManagerInductive == Inductive /\ Manager => Inductive'
<1> SUFFICES ASSUME Inductive, Manager PROVE JobPart' /\ PlanPart'
  BY ManagerType DEF Inductive, JobPart, PlanPart
<1>0. TypeOK /\ JobPart /\ PlanPart
  BY InductiveParts
<1>1. CASE Query
  <2>1. JobPart'
    BY <1>0, <1>1, MatchStepJobs DEF Query
  <2> QED
    BY <1>0, <1>1, <2>1, QueryPlan
<1>2. CASE QueryFails
  BY <1>2, LeaveParts DEF QueryFails
<1>3. ASSUME NEW p \in Paths, ListFile(p) PROVE JobPart' /\ PlanPart'
  <2>1. JobPart'
    BY <1>0, <1>3, MatchStepJobs DEF ListFile
  <2> QED
    BY <1>0, <1>3, <2>1, ListFilePlan
<1>4. CASE ListingDone
  <2>1. JobPart'
    BY <1>0, <1>4, MatchStepJobs DEF ListingDone
  <2> QED
    BY <1>0, <1>4, <2>1, ListingDonePlan
<1>5. ASSUME NEW n \in NsName, NextObject(n) PROVE JobPart' /\ PlanPart'
  <2>1. JobPart'
    BY <1>0, <1>5, MatchStepJobs DEF NextObject
  <2> QED
    BY <1>0, <1>5, <2>1, NextObjectPlan
<1>6. CASE FileDiffers
  <2>1. JobPart'
    BY <1>0, <1>6, MatchStepJobs DEF FileDiffers
  <2> QED
    BY <1>0, <1>6, <2>1, FileDiffersPlan
<1>7. CASE FileMatches
  <2>1. JobPart'
    BY <1>0, <1>7, MatchStepJobs DEF FileMatches
  <2> QED
    BY <1>0, <1>7, <2>1, FileMatchesPlan
<1>8. CASE NoFileMatches
  <2>1. JobPart'
    BY <1>0, <1>8, MatchStepJobs DEF NoFileMatches
  <2> QED
    BY <1>0, <1>8, <2>1, NoFileMatchesPlan
<1>9. CASE FindNewFiles
  <2>1. JobPart'
    BY <1>0, <1>9, MatchStepJobs DEF FindNewFiles
  <2> QED
    BY <1>0, <1>9, <2>1, FindNewFilesPlan
<1>10. ASSUME NEW j \in Jobs, ForkDelete(j) \/ ForkCreate(j) \/ ForkUpdate(j)
       PROVE  JobPart' /\ PlanPart'
  <2>1. CASE ForkDelete(j)
    <3>1. j.old \in NsName
      BY <1>0, <2>1 DEF ForkDelete, DeleteJobs, DeleteJob, TypeOK
    <3> QED
      BY <1>0, <2>1, <3>1, ForkJobs, PlanKept DEF ForkDelete, Fork
  <2>2. CASE ForkCreate(j)
    <3>1. j.path \in Paths /\ j.old = NoName /\ j \notin DeleteJobs
      BY <1>0, <2>2, PathAssumption
      DEF ForkCreate, CreateJobs, CreateJob, DeleteJobs, DeleteJob, TypeOK
    <3> QED
      BY <1>0, <2>2, <3>1, ForkJobs, PlanKept DEF ForkCreate, Fork
  <2>3. CASE ForkUpdate(j)
    <3>1. j.old \in NsName /\ j \notin DeleteJobs
      BY <1>0, <2>3, PathAssumption DEF ForkUpdate, DeleteJobs, DeleteJob, TypeOK
    <3> QED
      BY <1>0, <2>3, <3>1, ForkJobs, PlanKept DEF ForkUpdate, Fork
  <2> QED
    BY <1>10, <2>1, <2>2, <2>3
<1>11. CASE WaitForStops
  <2>1. PlanPart'
    BY <1>0, <1>11, PlanKept DEF WaitForStops
  <2> QED
    BY <1>0, <1>11, <2>1, WaitForStopsJobs
<1>12. CASE EndCycle
  BY <1>12, LeaveParts DEF EndCycle
<1> QED
  BY <1>1, <1>2, <1>3, <1>4, <1>5, <1>6, <1>7, <1>8, <1>9, <1>10, <1>11,
     <1>12 DEF Manager

\* A change by others between two cycles finds nothing to spoil, and one in a
\* cycle marks the cycle as disturbed.
LEMMA InterferenceParts ==
    ASSUME TypeOK, JobPart, PlanPart,
           UNCHANGED <<pc, plan, jobs, listed, stopFailed>>,
           dirty' = (pc # "idle")
    PROVE  JobPart' /\ PlanPart'
<1>1. DeleteJobs' = DeleteJobs /\ CreateJobs' = CreateJobs
  BY DEF DeleteJobs, CreateJobs
<1>2. JobsInPhase' /\ JobsSound' /\ RunningIsListed'
  BY <1>1 DEF JobPart, JobsInPhase, JobsSound, RunningIsListed, Finished
<1>3. IdleIsFresh' /\ MatchingDone' /\ ListedIsHandled'
  BY DEF PlanPart, IdleIsFresh, MatchingDone, ListedIsHandled
<1>4. CASE pc # "idle"
  <2>1. dirty'
    BY <1>4
  <2>2. StoppedIsGone' /\ CreatedIsThere'
    BY <2>1 DEF StoppedIsGone, CreatedIsThere
  <2>3. /\ ListingComplete' /\ ScannedDiffer' /\ DeleteIsObsolete' /\ UpdateIsOutdated'
        /\ AnswerHolds' /\ ObsoleteIsKnown' /\ MatchedIsHandled'
    BY <2>1 DEF ListingComplete, ScannedDiffer, DeleteIsObsolete, UpdateIsOutdated,
                AnswerHolds, ObsoleteIsKnown, MatchedIsHandled
  <2> QED
    BY <1>2, <1>3, <2>2, <2>3 DEF JobPart, PlanPart
<1>5. CASE pc = "idle"
  <2>1. /\ \A j \in Jobs : at'[j] = "none"
        /\ pc' = "idle" /\ obj' = NoName /\ matched' = {} /\ forDelete' = {}
        /\ forUpdate' = {}
    BY <1>5 DEF JobPart, PlanPart, JobsInPhase, IdleIsFresh
  <2>2. StoppedIsGone' /\ CreatedIsThere'
    BY <2>1 DEF StoppedIsGone, CreatedIsThere
  <2>3. /\ ListingComplete' /\ ScannedDiffer' /\ DeleteIsObsolete' /\ UpdateIsOutdated'
        /\ AnswerHolds' /\ ObsoleteIsKnown' /\ MatchedIsHandled'
    BY <2>1 DEF ListingComplete, ScannedDiffer, DeleteIsObsolete, UpdateIsOutdated,
                AnswerHolds, ObsoleteIsKnown, MatchedIsHandled
  <2> QED
    BY <1>2, <1>3, <2>2, <2>3 DEF JobPart, PlanPart
<1> QED
  BY <1>4, <1>5

LEMMA SurroundingsInductive == Inductive /\ Surroundings => Inductive'
<1> SUFFICES ASSUME Inductive, Surroundings PROVE JobPart' /\ PlanPart'
  BY SurroundingsType DEF Inductive, JobPart, PlanPart
<1>0. TypeOK /\ JobPart /\ PlanPart
  BY InductiveParts
<1>1. ASSUME NEW p \in Paths, NEW c \in Content, EditDisk(p, c)
      PROVE  JobPart' /\ PlanPart'
  BY <1>0, <1>1, InterferenceParts DEF EditDisk
<1>2. ASSUME NEW n \in NsName, Meddle(n) PROVE JobPart' /\ PlanPart'
  BY <1>0, <1>2, InterferenceParts DEF Meddle
<1>3. CASE Crash
  BY <1>3, LeaveParts DEF Crash
<1> QED
  BY <1>1, <1>2, <1>3 DEF Surroundings

LEMMA StutterInductive == Inductive /\ UNCHANGED vars => Inductive'
<1> SUFFICES ASSUME Inductive, UNCHANGED vars PROVE Inductive'
  OBVIOUS
<1>1. TypeOK'
  BY DEF Inductive, TypeOK, vars
<1>2. JobPart'
  BY DEF vars, Inductive, JobPart, JobsInPhase, JobsSound, RunningIsListed, StoppedIsGone,
         CreatedIsThere, DeleteJobs, CreateJobs, Finished, DiskNames, WellNamed
<1>3. PlanPart'
  BY DEF vars, Inductive, PlanPart, IdleIsFresh, MatchingDone, ListingComplete,
         ScannedDiffer, DeleteIsObsolete, UpdateIsOutdated, AnswerHolds, ObsoleteIsKnown,
         MatchedIsHandled, ListedIsHandled, DiskNames, WellNamed, Describes
<1> QED
  BY <1>1, <1>2, <1>3 DEF Inductive, JobPart, PlanPart
-----------------------------------------------------------------------------
(* The theorems.                                                           *)

\* The inductive invariant holds in every reachable state.
THEOREM InductiveHolds == Spec => []Inductive
<1>1. Inductive /\ [Next]_vars => Inductive'
  BY ManagerInductive, JobInductive, SurroundingsInductive, StutterInductive DEF Next
<1> QED
  BY <1>1, InitInductive, PTL DEF Spec

\* Type correctness of the reconciliation of one kind.
THEOREM TypeCorrect == Spec => []TypeOK
  BY InductiveHolds, InductiveParts, PTL

\* While new objects are made, every object chosen for deletion is gone,
\* unless stop-object gave up on it or someone interfered.
THEOREM DeletedBeforeCreated == Spec => []OldGoneFirst
  BY InductiveHolds, InductiveOldGone, PTL

\* No cycle takes down an object that a manifest still describes.
THEOREM CurrentIsKept == Spec => []KeepsCurrent
  BY InductiveHolds, InductiveKeepsCurrent, PTL
-----------------------------------------------------------------------------
(* The reconciliation implements AddonSync.                                *)

LEMMA SyncInit == Init => Sync!Init
  BY DEF Init, Sync!Init, DiskNames

\* A step that leaves the world alone is a stuttering step.
LEMMA SyncStutter ==
    ASSUME UNCHANGED <<disk, server, edits, dirty>>
    PROVE  UNCHANGED Sync!vars
  BY DEF Sync!vars, DiskNames, WellNamed

\* The end of a cycle is a stuttering step, or the next one starts afresh.
LEMMA SyncLeave ==
    ASSUME NEW r, LeaveCycle(r), UNCHANGED <<disk, server, edits>>
    PROVE  [Sync!Next]_Sync!vars
<1>1. /\ DiskNames' = DiskNames /\ (WellNamed' <=> WellNamed) /\ ~dirty'
      /\ server' = server /\ edits' = edits
  BY DEF LeaveCycle, DiskNames, WellNamed
<1>2. CASE (~dirty /\ WellNamed)' = (~dirty /\ WellNamed)
  BY <1>1, <1>2 DEF Sync!vars
<1>3. CASE (~dirty /\ WellNamed)' # (~dirty /\ WellNamed)
  BY <1>1, <1>3 DEF Sync!Next, Sync!Refresh
<1> QED
  BY <1>2, <1>3

\* A step of a job.
LEMMA SyncJob ==
    ASSUME Inductive, NEW j \in Jobs, Job(j) PROVE [Sync!Next]_Sync!vars
<1>1. UNCHANGED <<disk, edits, dirty>>
  BY DEF Job, StopSucceeds, StopFindsNothing, StopFaults, StopTryFailed, ReadName,
         CreateSucceeds, CreateRejected, CreateFaults, CreateTryFailed
<1>2. DiskNames' = DiskNames /\ (WellNamed' <=> WellNamed) /\ dirty' = dirty /\ edits' = edits
  BY <1>1 DEF DiskNames, WellNamed
<1>3. PICK n \in NsName \cup {NoName} : server' \in {server, server \cup {n}, server \ {n}}
  BY JobServer
<1>4. CASE server' = server
  BY <1>1, <1>4, SyncStutter
<1>5. CASE n \notin server /\ server' = server \cup {n}
  <2>1. n \in DiskNames \ server
    BY <1>5, JobServer
  <2> QED
    BY <1>2, <1>5, <2>1 DEF Sync!Next, Sync!Approach, Sync!Stray, Sync!Create
<1>6. CASE n \in server /\ server' = server \ {n}
  <2>1. ~dirty /\ WellNamed => n \in server \ DiskNames
    BY <1>6, JobServer
  <2> QED
    BY <1>2, <1>6, <2>1 DEF Sync!Next, Sync!Approach, Sync!Stray, Sync!Delete
<1> QED
  BY <1>3, <1>4, <1>5, <1>6

\* A step of the script.
LEMMA SyncManager == Manager => [Sync!Next]_Sync!vars
<1> SUFFICES ASSUME Manager PROVE [Sync!Next]_Sync!vars
  OBVIOUS
<1>1. CASE QueryFails \/ EndCycle
  BY <1>1, SyncLeave DEF QueryFails, EndCycle
<1>2. CASE ~(QueryFails \/ EndCycle)
  <2>1. UNCHANGED <<disk, server, edits, dirty>>
    BY <1>2 DEF Manager, Query, ListFile, ListingDone, NextObject, FileDiffers, FileMatches,
                NoFileMatches, FindNewFiles, ForkDelete, ForkCreate, ForkUpdate, Fork,
                WaitForStops
  <2> QED
    BY <2>1, SyncStutter
<1> QED
  BY <1>1, <1>2

\* A change by others, or a crash.
LEMMA SyncSurroundings ==
    TypeOK' /\ Surroundings => [Sync!Next]_Sync!vars
<1> SUFFICES ASSUME TypeOK', Surroundings PROVE [Sync!Next]_Sync!vars
  OBVIOUS
<1>0. DiskNames' \in SUBSET NsName /\ (~dirty /\ WellNamed)' \in BOOLEAN
  BY DEF DiskNames
<1>1. ASSUME NEW p \in Paths, NEW c \in Content, EditDisk(p, c)
      PROVE  Sync!Interfere
  BY <1>0, <1>1 DEF EditDisk, Edit, Sync!Interfere
<1>2. ASSUME NEW n \in NsName, Meddle(n) PROVE Sync!Interfere
  <2>1. DiskNames' = DiskNames
    BY <1>2 DEF Meddle, DiskNames
  <2> QED
    BY <1>0, <1>2, <2>1 DEF Meddle, Edit, Sync!Interfere, Sync!Delete, Sync!Create
<1>3. CASE Crash
  BY <1>3, SyncLeave DEF Crash
<1> QED
  BY <1>1, <1>2, <1>3 DEF Surroundings, Sync!Next

\* Every behaviour of the script, its jobs and their surroundings is one that
\* AddonSync allows: a cycle nobody interferes with only ever brings the
\* server nearer to the manifests.
THEOREM ImplementsSync == Spec => SyncSpec
<1>1. Inductive /\ Inductive' /\ [Next]_vars => [Sync!Next]_Sync!vars
  <2> SUFFICES ASSUME Inductive, Inductive', [Next]_vars
               PROVE  [Sync!Next]_Sync!vars
    OBVIOUS
  <2>1. CASE UNCHANGED vars
    BY <2>1, SyncStutter DEF vars
  <2>2. CASE Next
    BY <2>2, SyncManager, SyncJob, SyncSurroundings DEF Next, Inductive
  <2> QED
    BY <2>1, <2>2
<1> QED
  BY <1>1, SyncInit, InductiveHolds, PTL DEF Spec, SyncSpec, Sync!Spec
=============================================================================
