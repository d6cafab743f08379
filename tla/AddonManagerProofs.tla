------------------------- MODULE AddonManagerProofs -------------------------
(***************************************************************************)
(* AddonManager starts an update when what the add-ons need is there, runs *)
(* one at a time, and leaves no user without a secret but for failed calls *)
(* and for users who share its name.                                       *)
(***************************************************************************)
EXTENDS AddonManager, TLAPS

USE NameAssumption, ParameterAssumption

\* What relates the script to the server.  A cycle that runs is the one the
\* script is in, which it got to past the wait for the token, which only the
\* namespace can have.
Ready ==
    /\ token => made[Namespace] # NoJob
    /\ pc \in {"secrets", "limits", "update", "cycle", "sleep"} => token

Inv == TypeOK /\ OneCycle /\ Ready

LEMMA JobFacts ==
    /\ Namespace \in Jobs
    /\ \A u \in Users : Secret(u) \in Jobs
    /\ \A a \in Limits : Limit(a) \in Jobs
    /\ \A j \in Jobs : Object(j) \in Objects
    /\ Object(Namespace) = Namespace
  BY DEF Jobs, Objects, Object, Namespace

\* Jobs only add objects.
LEMMA CreateType ==
    ASSUME TypeOK, NEW j \in Jobs, Create(j)
    PROVE  /\ made' \in [Objects -> Jobs \cup {NoJob}]
           /\ \A o \in Objects : made[o] # NoJob => made'[o] # NoJob
  BY JobFacts DEF TypeOK, Create

\* The steps of the script up to its loop.
LEMMA StartKeeps ==
    ASSUME Inv,
           \/ (\E i \in Entries : LoadImage(i)) \/ Loaded \/ LoadAgain
           \/ CreateNamespace \/ TokenFound \/ StillNoToken
           \/ (\E u \in Users : CreateSecret(u)) \/ SecretsForked
           \/ (\E a \in Limits : CreateLimit(a)) \/ LimitsForked
    PROVE  Inv'
<1> USE DEF Inv, Ready
<1>1. ASSUME NEW i \in Entries, LoadImage(i)
      PROVE  Inv'
  <2>1. i # Pattern => i \in Images
    BY DEF Entries
  <2>2. /\ loaded' \subseteq Images /\ late' \subseteq Images
        /\ success' \in BOOLEAN
    BY <1>1, <2>1 DEF LoadImage, TypeOK
  <2>3. faults' \in 0 .. MaxFaults
    BY <1>1 DEF LoadImage, Fault, TypeOK
  <2>4. TypeOK'
    BY <1>1, <2>2, <2>3 DEF LoadImage, TypeOK, Places, server
  <2> QED
    BY <1>1, <2>4 DEF LoadImage, OneCycle, server
<1>2. CASE Loaded \/ LoadAgain
  <2>1. TypeOK'
    BY <1>2 DEF Loaded, LoadAgain, Goto, TypeOK, Places, server, docker
  <2>2. /\ pc' \in {"namespace", "images"} /\ pc # "cycle"
        /\ UNCHANGED <<running, made, token>>
    BY <1>2 DEF Loaded, LoadAgain, Goto, server
  <2> QED
    BY <2>1, <2>2 DEF OneCycle
<1>3. CASE CreateNamespace
  <2>1. TypeOK'
    BY <1>3, JobFacts DEF CreateNamespace, Fork, Goto, TypeOK, Places, server,
                          docker
  <2> QED
    BY <1>3, <2>1 DEF CreateNamespace, Goto, OneCycle, server
<1>4. CASE TokenFound
  <2>1. TypeOK'
    BY <1>4 DEF TokenFound, Goto, TypeOK, Places, server, docker
  <2> QED
    BY <1>4, <2>1 DEF TokenFound, Goto, OneCycle, server
<1>5. CASE StillNoToken
  BY <1>5 DEF StillNoToken, vars, script, docker, server, TypeOK, OneCycle
<1>6. ASSUME NEW u \in Users, CreateSecret(u)
      PROVE  Inv'
  <2>1. TypeOK'
    BY <1>6, JobFacts DEF CreateSecret, Fork, Goto, TypeOK, Places, server,
                          docker
  <2> QED
    BY <1>6, <2>1 DEF CreateSecret, Goto, OneCycle, server
<1>7. ASSUME NEW a \in Limits, CreateLimit(a)
      PROVE  Inv'
  <2>1. TypeOK'
    BY <1>7, JobFacts DEF CreateLimit, Fork, Goto, TypeOK, Places, server,
                          docker
  <2> QED
    BY <1>7, <2>1 DEF CreateLimit, Goto, OneCycle, server
<1>8. CASE SecretsForked \/ LimitsForked
  <2>1. TypeOK'
    BY <1>8 DEF SecretsForked, LimitsForked, Goto, TypeOK, Places, server,
                docker
  <2> QED
    BY <1>8, <2>1 DEF SecretsForked, LimitsForked, Goto, OneCycle, server
<1> QED
  BY <1>1, <1>2, <1>3, <1>4, <1>5, <1>6, <1>7, <1>8

\* The loop of updates.
LEMMA LoopKeeps ==
    ASSUME Inv,
           Update \/ Updated \/ Sleep \/ \E k \in Kinds : ReconcileEnds(k)
    PROVE  Inv'
<1> USE DEF Inv, Ready, TypeOK
<1>1. CASE Update
  BY <1>1 DEF Update, Goto, Places, OneCycle, server, docker
<1>2. CASE Updated
  BY <1>2 DEF Updated, Goto, Places, OneCycle, server, docker
<1>3. CASE Sleep
  BY <1>3 DEF Sleep, Goto, Places, OneCycle, server, docker
<1>4. ASSUME NEW k \in Kinds, ReconcileEnds(k)
      PROVE  Inv'
  BY <1>4 DEF ReconcileEnds, OneCycle, server, docker
<1> QED
  BY <1>1, <1>2, <1>3, <1>4

\* The background jobs.
LEMMA JobKeeps ==
    ASSUME Inv, NEW j \in Jobs, Job(j)
    PROVE  Inv'
<1>1. /\ made' \in [Objects -> Jobs \cup {NoJob}]
      /\ \A o \in Objects : made[o] # NoJob => made'[o] # NoJob
  BY CreateType DEF Inv, TypeOK, Job, Succeed, TryFails
<1>2. tries' \in [Jobs -> 0 .. NumTries] /\ faults' \in 0 .. MaxFaults
  BY DEF Inv, TypeOK, Job, Succeed, TryFails, Fault
<1>3. UNCHANGED <<script, docker, token, crashes>>
  BY DEF Job, Succeed, TryFails
<1>4. TypeOK'
  BY <1>1, <1>2, <1>3 DEF Inv, TypeOK, script, docker
<1>5. Namespace \in Objects
  BY JobFacts
<1> QED
  BY <1>1, <1>3, <1>4, <1>5 DEF Inv, Ready, OneCycle, script

\* What others do.
LEMMA OthersKeep ==
    ASSUME Inv, TokenMade \/ Hang \/ Crash
    PROVE  Inv'
<1> USE DEF Inv, Ready
<1>1. CASE TokenMade
  BY <1>1 DEF TokenMade, TypeOK, OneCycle, script, docker
<1>2. CASE Hang
  BY <1>2 DEF Hang, Fault, TypeOK, OneCycle, script, server
<1>3. CASE Crash
  <2>1. TypeOK'
    BY <1>3 DEF Crash, Goto, Start, Idle, TypeOK, Places, docker, server
  <2> QED
    BY <1>3, <2>1 DEF Crash, Goto, Start, OneCycle, server
<1> QED
  BY <1>1, <1>2, <1>3

\* However the script, its jobs, the server and crashes interleave, the script
\* is in a cycle whenever one runs, and has the token from there on.
THEOREM InvariantHolds == Spec => []Inv
<1>1. Init => Inv
  <2> SUFFICES ASSUME Init
               PROVE  Inv
    OBVIOUS
  <2>1. made \in [Objects -> Jobs \cup {NoJob}] /\ tries \in [Jobs -> 0 .. NumTries]
    BY DEF Init, Idle
  <2>2. pc \in Places /\ running \in [Kinds -> Nat]
    BY DEF Init, Start, Places
  <2>a. faults \in 0 .. MaxFaults /\ crashes \in 0 .. MaxCrashes
    BY DEF Init
  <2>b. loaded \subseteq Images /\ late \subseteq Images
        /\ todo \subseteq Entries \cup Users \cup Limits
    BY DEF Init
  <2>c. success \in BOOLEAN /\ hung \in BOOLEAN /\ token \in BOOLEAN
    BY DEF Init
  <2>3. TypeOK
    BY <2>1, <2>2, <2>a, <2>b, <2>c DEF TypeOK
  <2> QED
    BY <2>3 DEF Init, Inv, OneCycle, Ready, Start
<1>2. Inv /\ [Next]_vars => Inv'
  <2> SUFFICES ASSUME Inv, [Next]_vars
               PROVE  Inv'
    OBVIOUS
  <2>1. CASE Script
    BY <2>1, StartKeeps, LoopKeeps DEF Script
  <2>2. CASE \E j \in Jobs : Job(j)
    BY <2>2, JobKeeps
  <2>3. CASE \E k \in Kinds : ReconcileEnds(k)
    BY <2>3, LoopKeeps
  <2>4. CASE TokenMade \/ Hang \/ Crash
    BY <2>4, OthersKeep
  <2>5. CASE UNCHANGED vars
    BY <2>5 DEF vars, script, docker, server, Inv, TypeOK, OneCycle, Ready
  <2> QED
    BY <2>1, <2>2, <2>3, <2>4, <2>5 DEF Next
<1> QED
  BY <1>1, <1>2, PTL DEF Spec

\* No update starts before the namespace and its token are there.
THEOREM ReadyFirst == Spec => []ReadyBeforeUpdates
<1>1. Inv => ReadyBeforeUpdates
  BY DEF Inv, TypeOK, OneCycle, Ready, ReadyBeforeUpdates
<1> QED
  BY <1>1, InvariantHolds, PTL

\* No two updates run at the same time.
THEOREM OneCycleAtATime == Spec => []OneCycle
<1>1. Inv => OneCycle
  BY DEF Inv
<1> QED
  BY <1>1, InvariantHolds, PTL

\* TypeOK, for any number of tries, failures and crashes.
THEOREM TypeCorrect == Spec => []TypeOK
<1>1. Inv => TypeOK
  BY DEF Inv
<1> QED
  BY <1>1, InvariantHolds, PTL

\* In a pass without a failed load, docker has what the pass is through with,
\* but for the late ones; and only such a pass ends the loop.
Passed ==
    /\ pc = "images" /\ success => Images \ todo \subseteq loaded \cup late
    /\ pc # "images" => Images \subseteq loaded \cup late

\* If the master does not come with its images, docker has them all when the
\* script gets past their loop, but for those it took too long to load.
THEOREM LateAloneMissing == Spec => []OnlyLateMissing
<1>1. CASE Trusty
  <2>1. OnlyLateMissing
    BY <1>1 DEF OnlyLateMissing
  <2> QED
    BY <2>1, PTL
<1>2. CASE ~Trusty
  <2>1. Init => Passed
    BY <1>2 DEF Init, Passed, Start, Entries
  <2>2. Passed /\ [Next]_vars => Passed'
    <3> SUFFICES ASSUME Passed, [Next]_vars
                 PROVE  Passed'
      OBVIOUS
    <3>1. ASSUME NEW i \in Entries, LoadImage(i)
          PROVE  Passed'
      <4>1. pc = "images" /\ pc' = "images" /\ todo' = todo \ {i}
        BY <3>1 DEF LoadImage
      <4>2. CASE ~success'
        BY <4>1, <4>2 DEF Passed
      <4>3. CASE success'
        <5>1. /\ success
              /\ loaded \cup late \cup {i} \subseteq loaded' \cup late'
          BY <3>1, <4>3 DEF LoadImage
        <5> QED
          BY <4>1, <5>1 DEF Passed
      <4> QED
        BY <4>2, <4>3
    <3>2. CASE Loaded
      BY <3>2 DEF Loaded, Goto, docker, Passed
    <3>3. CASE LoadAgain \/ Crash
      BY <1>2, <3>3 DEF LoadAgain, Crash, Goto, Start, Entries, Passed
    <3>4. CASE \/ CreateNamespace \/ TokenFound \/ StillNoToken
               \/ (\E u \in Users : CreateSecret(u)) \/ SecretsForked
               \/ (\E a \in Limits : CreateLimit(a)) \/ LimitsForked
               \/ Update \/ Updated \/ Sleep
      <4>1. /\ pc # "images" /\ pc' # "images"
            /\ UNCHANGED <<loaded, late>>
        BY <3>4 DEF CreateNamespace, TokenFound, StillNoToken, CreateSecret,
                    SecretsForked, CreateLimit, LimitsForked, Update, Updated,
                    Sleep, Goto, docker, script, vars
      <4> QED
        BY <4>1 DEF Passed
    <3>5. CASE \/ (\E j \in Jobs : Job(j)) \/ TokenMade \/ Hang
               \/ (\E k \in Kinds : ReconcileEnds(k)) \/ UNCHANGED vars
      <4>1. UNCHANGED <<pc, todo, success, loaded, late>>
        BY <3>5 DEF Job, Succeed, TryFails, TokenMade, Hang, ReconcileEnds,
                    script, docker, vars
      <4> QED
        BY <4>1 DEF Passed
    <3> QED
      BY <3>1, <3>2, <3>3, <3>4, <3>5 DEF Next, Script
  <2>3. Passed => OnlyLateMissing
    BY DEF Passed, OnlyLateMissing
  <2> QED
    BY <2>1, <2>2, <2>3, PTL DEF Spec
<1> QED
  BY <1>1, <1>2
-----------------------------------------------------------------------------
(* What is missing has cost failed calls                                   *)

\* Of whom a job is.
LEMMA JobsDiffer ==
    /\ \A u : Secret(u) # Namespace /\ Limit(u) # Namespace
    /\ \A u, v : Secret(u) # Limit(v)
    /\ \A u, v : Secret(u) = Secret(v) => u = v
    /\ \A u, v : Limit(u) = Limit(v) => u = v
    /\ \A u : Secret(u)[1] = "secret" /\ Limit(u)[1] # "secret"
    /\ Namespace[1] # "secret"
  BY DEF Secret, Limit, Namespace

\* A step of the script begins a job or leaves it alone.
LEMMA ScriptForks ==
    ASSUME TypeOK, Script, NEW j \in Jobs, Forked(j)'
    PROVE  /\ made' = made /\ faults' = faults
           /\ tries'[j] = NumTries \/ (Forked(j) /\ tries'[j] = tries[j])
<1> USE DEF Forked, Goto, server, docker
<1>0. tries \in [Jobs -> 0 .. NumTries]
  BY DEF TypeOK
<1>1. CASE (\E i \in Entries : LoadImage(i)) \/ Loaded \/ LoadAgain
  BY <1>1 DEF LoadImage, Loaded, LoadAgain
<1>2. CASE CreateNamespace
  BY <1>0, <1>2, JobsDiffer, JobFacts DEF CreateNamespace, Fork
<1>3. CASE TokenFound
  BY <1>3, JobsDiffer DEF TokenFound
<1>4. CASE StillNoToken
  BY <1>4 DEF StillNoToken, vars, script
<1>5. ASSUME NEW u \in Users, CreateSecret(u)
      PROVE  /\ made' = made /\ faults' = faults
             /\ tries'[j] = NumTries \/ (Forked(j) /\ tries'[j] = tries[j])
  BY <1>0, <1>5, JobsDiffer, JobFacts DEF CreateSecret, Fork
<1>6. CASE SecretsForked
  BY <1>6, JobsDiffer DEF SecretsForked
<1>7. ASSUME NEW a \in Limits, CreateLimit(a)
      PROVE  /\ made' = made /\ faults' = faults
             /\ tries'[j] = NumTries \/ (Forked(j) /\ tries'[j] = tries[j])
  BY <1>0, <1>7, JobsDiffer, JobFacts DEF CreateLimit, Fork
<1>8. CASE LimitsForked \/ Update \/ Updated \/ Sleep
  BY <1>8 DEF LimitsForked, Update, Updated, Sleep
<1> QED
  BY <1>1, <1>2, <1>3, <1>4, <1>5, <1>6, <1>7, <1>8 DEF Script

\* A job that was begun finds what it needs.
LEMMA ForkedCreatable ==
    ASSUME Inv, NEW j \in Jobs, Forked(j), made[Object(j)] = NoJob
    PROVE  Creatable(j)
  BY JobsDiffer DEF Inv, Ready, Forked, Creatable

LEMMA TriesStep == Inv /\ TriesNotWasted /\ [Next]_vars => TriesNotWasted'
<1> SUFFICES ASSUME Inv, TriesNotWasted, [Next]_vars,
                    NEW j \in Jobs, Forked(j)', made'[Object(j)] = NoJob
             PROVE  NumTries - tries'[j] <= MaxFaults - faults'
  BY DEF TriesNotWasted
<1>0. tries[j] \in 0 .. NumTries /\ faults \in 0 .. MaxFaults
  BY DEF Inv, TypeOK
<1>1. CASE Script
  BY <1>0, <1>1, ScriptForks DEF Inv, TriesNotWasted
<1>2. ASSUME NEW k \in Jobs, Job(k)
      PROVE  NumTries - tries'[j] <= MaxFaults - faults'
  <2>1. Forked(j) /\ UNCHANGED script
    BY <1>2 DEF Job, Succeed, TryFails, script, Forked
  <2>2. made[Object(j)] = NoJob
    BY <1>2, CreateType, JobFacts DEF Inv, Job, Succeed, TryFails
  <2>3. NumTries - tries[j] <= MaxFaults - faults /\ Creatable(j)
    BY <2>1, <2>2, ForkedCreatable DEF TriesNotWasted
  <2>4. CASE k = j
    <3>1. ~Create(j)
      BY JobFacts, NameAssumption DEF Create, Inv, TypeOK
    <3>2. tries'[j] = tries[j] - 1 /\ Fault
      BY <1>2, <2>3, <2>4, <3>1 DEF Job, Succeed, TryFails, Inv, TypeOK
    <3> QED
      BY <1>0, <2>3, <3>2 DEF Fault
  <2>5. CASE k # j
    <3>1. tries'[j] = tries[j]
      BY <1>2, <2>5 DEF Job, Succeed, TryFails, Inv, TypeOK
    <3>2. faults' = faults \/ faults' = faults - 1
      BY <1>2 DEF Job, Succeed, TryFails, Fault
    <3> QED
      BY <1>0, <2>3, <3>1, <3>2
  <2> QED
    BY <2>4, <2>5
<1>3. CASE (\E k \in Kinds : ReconcileEnds(k)) \/ TokenMade \/ Hang \/ UNCHANGED vars
  <2>1. /\ Forked(j) /\ UNCHANGED <<tries, made>>
        /\ faults' = faults \/ faults' = faults - 1
    BY <1>3 DEF ReconcileEnds, TokenMade, Hang, Fault, vars, script, server, docker, Forked
  <2> QED
    BY <1>0, <2>1 DEF TriesNotWasted
<1>4. CASE Crash
  <2>1. pc' \in {"images", "namespace"}
    BY <1>4 DEF Crash, Goto, Start
  <2> QED
    BY <2>1 DEF Forked
<1> QED
  BY <1>1, <1>2, <1>3, <1>4 DEF Next

\* However the script, its jobs and crashes interleave, each try that a job has
\* used in vain was a call that failed: what is created in the background is
\* begun when it can be created.
THEOREM EveryTryCounts == Spec => []TriesNotWasted
<1>1. Init => TriesNotWasted
  BY JobsDiffer DEF Init, Start, TriesNotWasted, Forked
<1> QED
  BY <1>1, TriesStep, InvariantHolds, PTL DEF Spec

\* The manager gives up on its namespace only after as many failed calls as a
\* job has tries.  It is the safety half of KeepsUpdating: with fewer, its wait
\* for the token has a job under way, or the namespace.
THEOREM GivesUpOnFaults == Spec => [](GaveUp => MaxFaults - faults >= NumTries)
<1>1. Inv /\ TriesNotWasted => (GaveUp => MaxFaults - faults >= NumTries)
  <2> SUFFICES ASSUME Inv, TriesNotWasted, GaveUp
               PROVE  MaxFaults - faults >= NumTries
    OBVIOUS
  <2>1. Forked(Namespace) /\ tries[Namespace] = 0 /\ made[Object(Namespace)] = NoJob
    BY JobFacts DEF GaveUp, Forked
  <2>2. NumTries - 0 <= MaxFaults - faults
    BY <2>1, JobFacts DEF TriesNotWasted
  <2> QED
    BY <2>2 DEF Inv, TypeOK
<1> QED
  BY <1>1, EveryTryCounts, InvariantHolds, PTL

\* And the safety half of EventuallyComplete: in the loop of updates, with no
\* job left, all objects are there, unless calls failed as often as a job tries.
THEOREM CompleteBehindJobs ==
    Spec => [](/\ pc \in {"update", "cycle", "sleep"} /\ \A j \in Jobs : tries[j] = 0
               /\ MaxFaults - faults < NumTries
               => \A o \in Objects : made[o] # NoJob)
<1>1. Inv /\ TriesNotWasted =>
        (/\ pc \in {"update", "cycle", "sleep"} /\ \A j \in Jobs : tries[j] = 0
         /\ MaxFaults - faults < NumTries
         => \A o \in Objects : made[o] # NoJob)
  <2> SUFFICES ASSUME Inv, TriesNotWasted, pc \in {"update", "cycle", "sleep"},
                      \A j \in Jobs : tries[j] = 0, MaxFaults - faults < NumTries,
                      NEW o \in Objects, made[o] = NoJob
               PROVE  FALSE
    OBVIOUS
  <2>1. PICK j \in Jobs : o = Object(j)
    BY DEF Objects
  <2>2. Forked(j)
    BY DEF Forked, Jobs
  <2>3. NumTries - 0 <= MaxFaults - faults
    BY <2>1, <2>2 DEF TriesNotWasted
  <2> QED
    BY <2>3 DEF Inv, TypeOK
<1> QED
  BY <1>1, EveryTryCounts, InvariantHolds, PTL
\* What is there was created by a job of that object.
MadeByOwn == \A o \in Objects : made[o] # NoJob => Object(made[o]) = o

LEMMA MadeStep == Inv /\ MadeByOwn /\ [Next]_vars => MadeByOwn'
<1> SUFFICES ASSUME Inv, MadeByOwn, [Next]_vars
             PROVE  MadeByOwn'
  OBVIOUS
<1>1. ASSUME NEW j \in Jobs, Create(j)
      PROVE  MadeByOwn'
  BY <1>1, JobFacts DEF Create, MadeByOwn, Inv, TypeOK
<1>2. CASE \E j \in Jobs : Job(j)
  BY <1>1, <1>2 DEF Job, Succeed, TryFails, MadeByOwn
<1>3. CASE Script \/ \E k \in Kinds : ReconcileEnds(k)
  <2>1. UNCHANGED made
    BY <1>3 DEF Script, LoadImage, Loaded, LoadAgain, CreateNamespace,
                TokenFound, StillNoToken, CreateSecret, SecretsForked,
                CreateLimit, LimitsForked, Update, Updated, Sleep,
                ReconcileEnds, server, vars
  <2> QED
    BY <2>1 DEF MadeByOwn
<1>4. CASE TokenMade \/ Hang \/ Crash \/ UNCHANGED vars
  BY <1>4 DEF TokenMade, Hang, Crash, vars, server, MadeByOwn
<1> QED
  BY <1>2, <1>3, <1>4 DEF Next

\* Whoever has a secret has its name.
LEMMA HolderShares ==
    ASSUME Inv, MadeByOwn, NEW u \in Users, made[Object(Secret(u))] # NoJob
    PROVE  \E v \in Users : /\ SafeUsername[v] = SafeUsername[u]
                           /\ made[Object(Secret(u))] = Secret(v)
<1> DEFINE o == Object(Secret(u))
<1>1. o \in Objects /\ made[o] \in Jobs /\ Object(made[o]) = o
  BY JobFacts DEF Inv, TypeOK, MadeByOwn
<1>2. o = <<"token", SafeUsername[u]>>
  BY DEF Object, Secret
<1>3. PICK v \in Users : made[o] = Secret(v)
  BY <1>1, <1>2 DEF Object, Jobs, Secret, Limit, Namespace
<1>4. Object(Secret(v)) = <<"token", SafeUsername[v]>>
  BY DEF Object, Secret
<1> QED
  BY <1>1, <1>2, <1>3, <1>4

\* Whatever known_tokens.csv holds, and however jobs, failures and crashes
\* interleave: a user whose job is over is without the own secret only because
\* calls failed as often as a job tries, or because another user, whose name
\* differs in its separators only, was faster.
THEOREM UnservedShare == Spec => []OnlySharedUnserved
<1>1. Inv /\ MadeByOwn /\ TriesNotWasted => OnlySharedUnserved
  <2> SUFFICES ASSUME Inv, MadeByOwn, TriesNotWasted, NEW u \in Users,
                      Forked(Secret(u)), tries[Secret(u)] = 0,
                      MaxFaults - faults < NumTries,
                      made[Object(Secret(u))] # Secret(u)
               PROVE  \E v \in Users \ {u} :
                         /\ SafeUsername[v] = SafeUsername[u]
                         /\ made[Object(Secret(u))] = Secret(v)
    BY DEF OnlySharedUnserved
  <2>1. made[Object(Secret(u))] # NoJob
    <3> SUFFICES ASSUME made[Object(Secret(u))] = NoJob
                 PROVE  FALSE
      OBVIOUS
    <3>1. NumTries - 0 <= MaxFaults - faults
      BY JobFacts DEF TriesNotWasted
    <3> QED
      BY <3>1 DEF Inv, TypeOK
  <2> QED
    BY <2>1, HolderShares
<1>2. Init => MadeByOwn
  BY DEF Init, MadeByOwn
<1> QED
  BY <1>1, <1>2, MadeStep, EveryTryCounts, InvariantHolds, PTL DEF Spec
=============================================================================
