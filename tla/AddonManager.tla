---------------------------- MODULE AddonManager ----------------------------
(***************************************************************************)
(* kube-addons.sh: the addon manager from its start, and again after each  *)
(* crash, to the loop that runs kube-addon-update.sh.  What it needs on    *)
(* the API server it creates in background jobs that try a number of times *)
(* and then give up; what it waits for, it waits for without end.          *)
(*                                                                         *)
(* A crash takes the script with all its jobs.  AddonReconcile models what *)
(* a job of an update does; here it only runs and ends.                    *)
(***************************************************************************)
EXTENDS Naturals, Sequences, FiniteSets, SequencesExt

CONSTANTS
    Users,       \* usernames in known_tokens.csv, as sequences of characters
    Limits,      \* files in the directory of admission controls
    Images,      \* files in the directory of docker images
    Pattern,     \* what "$1/*" stays if there is no file
    Kinds,       \* kinds of add-ons
    Trusty,      \* TRUSTY_MASTER
    NumTries,    \* tries of a background job
    NoJob,
    MaxFaults,   \* bound: failing calls in a behaviour
    MaxCrashes   \* bound: crashes in a behaviour

\* tr -s ':_' '--': both separators become a dash, and of several dashes in a
\* row one is left.
SafeUsername ==
    [u \in Users |->
        FoldLeft(LAMBDA s, c :
                     IF c = "-" /\ s # << >> /\ Last(s) = "-" THEN s ELSE Append(s, c),
                 << >>,
                 [i \in DOMAIN u |-> IF u[i] \in {":", "_"} THEN "-" ELSE u[i]])]

Namespace == <<"namespace", "kube-system">>
Secret(u) == <<"secret", u>>
Limit(a)  == <<"limit", a>>

\* The background jobs that create an object each, and the objects.
Jobs == {Namespace} \cup {Secret(u) : u \in Users} \cup {Limit(a) : a \in Limits}

Object(j) == IF j[1] = "secret" THEN <<"token", SafeUsername[j[2]]>> ELSE j

Objects == {Object(j) : j \in Jobs}

ASSUME NameAssumption == Pattern \notin Images /\ NoJob \notin Jobs

ASSUME ParameterAssumption ==
    /\ Trusty \in BOOLEAN
    /\ NumTries \in Nat \ {0} /\ MaxFaults \in Nat /\ MaxCrashes \in Nat

VARIABLES
    pc,        \* where the script is
    todo,      \* what is left in its loop over images, users or limits
    success,   \* `success' of load-docker-images
    running,   \* kind -> jobs of kube-addon-update.sh that reconcile it
    tries,     \* job -> tries it has left, 0 if it does not run
    loaded,    \* images docker has
    hung,      \* does docker hang?
    late,      \* images whose last load timed out; read by properties only
    made,      \* object -> the job that created it
    token,     \* has the default service account a token?
    faults, crashes

script == <<pc, todo, success, running>>
docker == <<loaded, hung, late>>
server == <<made, token>>
vars   == <<script, tries, docker, server, faults, crashes>>

Places == {"images", "namespace", "token", "secrets", "limits", "update",
           "cycle", "sleep"}

\* The words of the loop over "$1/"*.
Entries == IF Images = {} THEN {Pattern} ELSE Images

Start == IF Trusty THEN "namespace" ELSE "images"

Idle == [j \in Jobs |-> 0]
-----------------------------------------------------------------------------
Init ==
    /\ pc = Start /\ todo = Entries /\ success = TRUE
    /\ running = [k \in Kinds |-> 0]
    /\ tries = Idle
    /\ loaded = {} /\ hung = FALSE /\ late = {}
    /\ made = [o \in Objects |-> NoJob] /\ token = FALSE
    /\ faults = MaxFaults /\ crashes = MaxCrashes

Fault == faults > 0 /\ faults' = faults - 1

Goto(state, left) == pc' = state /\ todo' = left

\* Mutant of LoadImage: the last image alone decides.
LoadImageLast(i) ==
    /\ pc = "images" /\ i \in todo
    /\ todo' = todo \ {i}
    /\ \/ /\ i # Pattern /\ ~hung
          /\ loaded' = loaded \cup {i} /\ success' = TRUE /\ late' = late \ {i}
          /\ UNCHANGED faults
       \/ /\ i # Pattern /\ hung
          /\ loaded' \in {loaded, loaded \cup {i}} /\ late' = late \cup {i}
          /\ UNCHANGED <<success, faults>>
       \/ /\ IF i = Pattern THEN UNCHANGED faults ELSE ~hung /\ Fault
          /\ success' = FALSE /\ late' = late \ {i}
          /\ UNCHANGED loaded
    /\ UNCHANGED <<pc, running, tries, hung, server, crashes>>

\* timeout 30 docker load: it works, it takes too long (and may work yet), or
\* it fails, as it does when there is no file.
LoadImage(i) ==
    /\ pc = "images" /\ i \in todo
    /\ todo' = todo \ {i}
    /\ \/ /\ i # Pattern /\ ~hung
          /\ loaded' = loaded \cup {i} /\ late' = late \ {i}
          /\ UNCHANGED <<success, faults>>
       \/ /\ i # Pattern /\ hung
          /\ loaded' \in {loaded, loaded \cup {i}} /\ late' = late \cup {i}
          /\ UNCHANGED <<success, faults>>
       \/ /\ IF i = Pattern THEN UNCHANGED faults ELSE ~hung /\ Fault
          /\ success' = FALSE /\ late' = late \ {i}
          /\ UNCHANGED loaded
    /\ UNCHANGED <<pc, running, tries, hung, server, crashes>>

Loaded ==
    /\ pc = "images" /\ todo = {} /\ success
    /\ Goto("namespace", {})
    /\ UNCHANGED <<success, running, tries, docker, server, faults, crashes>>

\* Mutant of LoadAgain: the flags are not set again.
LoadAgainUnset ==
    /\ pc = "images" /\ todo = {} /\ ~success
    /\ hung' = IF late # {} THEN FALSE ELSE hung
    /\ Goto("images", Entries)
    /\ UNCHANGED <<success, running, tries, loaded, late, server, faults, crashes>>

\* Some load failed: all images again.  Docker is restarted if a load of this
\* pass timed out (a pass loads every image, so `late' is about this pass).
LoadAgain ==
    /\ pc = "images" /\ todo = {} /\ ~success
    /\ success' = TRUE
    /\ hung' = IF late # {} THEN FALSE ELSE hung
    /\ Goto("images", Entries)
    /\ UNCHANGED <<running, tries, loaded, late, server, faults, crashes>>

\* Mutant of Fork: `while [ ${tries} -ge 0 ]'.
ForkOneMore(j) == tries' = [tries EXCEPT ![j] = NumTries + 1]

Fork(j) == tries' = [tries EXCEPT ![j] = NumTries]

CreateNamespace ==
    /\ pc = "namespace"
    /\ Fork(Namespace)
    /\ Goto("token", {})
    /\ UNCHANGED <<success, running, docker, server, faults, crashes>>

\* Mutant of TokenFound: nobody waits for the token.
TokenAwaited ==
    /\ pc = "token"
    /\ Goto("secrets", Users)
    /\ UNCHANGED <<success, running, tries, docker, server, faults, crashes>>

\* The loop goes on until the service account of the namespace has a token.
TokenFound ==
    /\ pc = "token" /\ token
    /\ Goto("secrets", Users)
    /\ UNCHANGED <<success, running, tries, docker, server, faults, crashes>>

StillNoToken ==
    /\ pc = "token" /\ ~token
    /\ UNCHANGED vars

CreateSecret(u) ==
    /\ pc = "secrets" /\ u \in todo
    /\ Fork(Secret(u))
    /\ Goto("secrets", todo \ {u})
    /\ UNCHANGED <<success, running, docker, server, faults, crashes>>

SecretsForked ==
    /\ pc = "secrets" /\ todo = {}
    /\ Goto("limits", Limits)
    /\ UNCHANGED <<success, running, tries, docker, server, faults, crashes>>

CreateLimit(a) ==
    /\ pc = "limits" /\ a \in todo
    /\ Fork(Limit(a))
    /\ Goto("limits", todo \ {a})
    /\ UNCHANGED <<success, running, docker, server, faults, crashes>>

LimitsForked ==
    /\ pc = "limits" /\ todo = {}
    /\ Goto("update", {})
    /\ UNCHANGED <<success, running, tries, docker, server, faults, crashes>>

\* update-addons reconciles all kinds at the same time ...
Update ==
    /\ pc = "update"
    /\ running' = [k \in Kinds |-> running[k] + 1]
    /\ Goto("cycle", {})
    /\ UNCHANGED <<success, tries, docker, server, faults, crashes>>

ReconcileEnds(k) ==
    /\ running[k] > 0
    /\ running' = [running EXCEPT ![k] = @ - 1]
    /\ UNCHANGED <<pc, todo, success, tries, docker, server, faults, crashes>>

\* Mutant of Updated: one job is waited for.
UpdatedOne ==
    /\ pc = "cycle" /\ \E k \in Kinds : running[k] = 0
    /\ Goto("sleep", {})
    /\ UNCHANGED <<success, running, tries, docker, server, faults, crashes>>

\* ... and waits for all its jobs.
Updated ==
    /\ pc = "cycle" /\ \A k \in Kinds : running[k] = 0
    /\ Goto("sleep", {})
    /\ UNCHANGED <<success, running, tries, docker, server, faults, crashes>>

\* The rest of the interval passes, if any is left.
Sleep ==
    /\ pc = "sleep"
    /\ Goto("update", {})
    /\ UNCHANGED <<success, running, tries, docker, server, faults, crashes>>
-----------------------------------------------------------------------------
(* create-resource-from-string in the background *)

Creatable(j) ==
    /\ made[Object(j)] = NoJob
    /\ j[1] = "secret" => made[Namespace] # NoJob

Create(j) == made' = [made EXCEPT ![Object(j)] = j]

Succeed(j) ==
    /\ tries[j] > 0
    /\ Creatable(j)
    /\ Create(j)
    /\ tries' = [tries EXCEPT ![j] = 0]
    /\ UNCHANGED <<script, docker, token, faults, crashes>>

\* Mutant of TryFails: the first error is final.
TryFailsOnce(j) ==
    /\ tries[j] > 0
    /\ tries' = [tries EXCEPT ![j] = 0]
    /\ \/ ~Creatable(j) /\ UNCHANGED <<made, faults>>
       \/ Fault /\ UNCHANGED made
       \/ Fault /\ Creatable(j) /\ Create(j)
    /\ UNCHANGED <<script, docker, token, crashes>>

\* The object is there already, or its namespace is not; or the call fails,
\* before or after it was carried out.
TryFails(j) ==
    /\ tries[j] > 0
    /\ tries' = [tries EXCEPT ![j] = @ - 1]
    /\ \/ ~Creatable(j) /\ UNCHANGED <<made, faults>>
       \/ Fault /\ UNCHANGED made
       \/ Fault /\ Creatable(j) /\ Create(j)
    /\ UNCHANGED <<script, docker, token, crashes>>
-----------------------------------------------------------------------------
(* Others *)

\* The server makes a service account with a token in each namespace.
TokenMade ==
    /\ made[Namespace] # NoJob /\ ~token
    /\ token' = TRUE
    /\ UNCHANGED <<script, tries, docker, made, faults, crashes>>

Hang ==
    /\ ~hung /\ Fault
    /\ hung' = TRUE
    /\ UNCHANGED <<script, tries, loaded, late, server, crashes>>

\* The script and its jobs are gone, and it is started again.
Crash ==
    /\ crashes > 0 /\ crashes' = crashes - 1
    /\ Goto(Start, Entries)
    /\ success' = TRUE
    /\ running' = [k \in Kinds |-> 0]
    /\ tries' = Idle
    /\ UNCHANGED <<docker, server, faults>>
-----------------------------------------------------------------------------
Script ==
    \/ (\E i \in Entries : LoadImage(i)) \/ Loaded \/ LoadAgain
    \/ CreateNamespace \/ TokenFound \/ StillNoToken
    \/ (\E u \in Users : CreateSecret(u)) \/ SecretsForked
    \/ (\E a \in Limits : CreateLimit(a)) \/ LimitsForked
    \/ Update \/ Updated \/ Sleep

Job(j) == Succeed(j) \/ TryFails(j)

Next ==
    \/ Script
    \/ \E j \in Jobs : Job(j)
    \/ \E k \in Kinds : ReconcileEnds(k)
    \/ TokenMade \/ Hang \/ Crash

\* The processes run, every cycle of AddonReconcile ends, and the server makes
\* the token.
Fairness ==
    /\ WF_vars(Script)
    /\ \A j \in Jobs : WF_vars(Job(j))
    /\ \A k \in Kinds : WF_vars(ReconcileEnds(k))
    /\ WF_vars(TokenMade)

Spec == Init /\ [][Next]_vars /\ Fairness
-----------------------------------------------------------------------------
TypeOK ==
    /\ pc \in Places
    /\ todo \subseteq Entries \cup Users \cup Limits
    /\ success \in BOOLEAN
    /\ running \in [Kinds -> Nat]
    /\ tries \in [Jobs -> 0 .. NumTries]
    /\ loaded \subseteq Images
    /\ hung \in BOOLEAN
    /\ late \subseteq Images
    /\ made \in [Objects -> Jobs \cup {NoJob}]
    /\ token \in BOOLEAN
    /\ faults \in 0 .. MaxFaults /\ crashes \in 0 .. MaxCrashes

\* While a cycle runs, or the manager sleeps, there are the namespace and the
\* token that the pods of the add-ons need.
ReadyBeforeUpdates ==
    pc \in {"secrets", "limits", "update", "cycle", "sleep"}
    \/ (\E k \in Kinds : running[k] > 0) => made[Namespace] # NoJob /\ token

\* No two cycles run at a time: AddonReconcile may take a cycle for the only
\* one of its kind.
OneCycle ==
    \A k \in Kinds : running[k] <= IF pc = "cycle" THEN 1 ELSE 0

\* An image docker does not have is one that docker took too long to load.
OnlyLateMissing ==
    pc # "images" /\ ~Trusty => Images \ loaded \subseteq late

\* The namespace could not be created in all the tries of its job: the wait
\* for its token never ends.
GaveUp == pc = "token" /\ tries[Namespace] = 0 /\ made[Namespace] = NoJob

\* Has the script, since it was started, begun job j?
Forked(j) ==
    \/ j = Namespace /\ pc \notin {"images", "namespace"}
    \/ \E u \in Users : j = Secret(u) /\
          (pc \in {"limits", "update", "cycle", "sleep"} \/ (pc = "secrets" /\ u \notin todo))
    \/ \E a \in Limits : j = Limit(a) /\
          (pc \in {"update", "cycle", "sleep"} \/ (pc = "limits" /\ a \notin todo))

\* What a job was to create and is not there has cost a failed call for each
\* try the job has used: no try is lost on a namespace that is not there yet,
\* or to a job that was begun and did not run.
TriesNotWasted ==
    \A j \in Jobs : Forked(j) /\ made[Object(j)] = NoJob =>
        NumTries - tries[j] <= MaxFaults - faults

\* The jobs of users whose names differ in their separators only race for one
\* secret (line 42): the one that loses fails until its tries are used up.  That
\* is the only way to go without: a user whose job was begun and is over, with
\* fewer failed calls than it has tries, has the own secret or shares its name
\* with the user who has it.
OnlySharedUnserved ==
    \A u \in Users :
        /\ Forked(Secret(u)) /\ tries[Secret(u)] = 0
        /\ MaxFaults - faults < NumTries
        /\ made[Object(Secret(u))] # Secret(u)
        => \E v \in Users \ {u} : /\ SafeUsername[v] = SafeUsername[u]
                                 /\ made[Object(Secret(u))] = Secret(v)

\* Whatever fails and however often it crashes, the manager gets to its loop
\* and goes through it again and again, or it gave up on the namespace.
KeepsUpdating == []<>(pc = "cycle") \/ <>[]GaveUp

\* All that the manager is to create gets created, unless calls failed as
\* often as a job tries.
EventuallyComplete ==
    \/ <>[](\A o \in Objects : made[o] # NoJob)
    \/ <>(MaxFaults - faults >= NumTries)
=============================================================================
