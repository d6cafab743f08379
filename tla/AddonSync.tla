----------------------------- MODULE AddonSync ------------------------------
(***************************************************************************)
(* What the reconciliation of one kind of add-on promises to whoever edits *)
(* the manifests: as long as nobody else interferes with a cycle, each of  *)
(* its steps brings the server nearer to the manifests and none takes it   *)
(* away.  How it finds out what to do, in which order and with how many    *)
(* attempts is left open.                                                  *)
(***************************************************************************)
EXTENDS Naturals

CONSTANTS
    Names,     \* names of objects
    MaxEdits   \* bound: changes by others in a behaviour

VARIABLES
    server,    \* the objects there are
    wanted,    \* the objects the manifests describe
    trusted,   \* what the cycle knows is still true
    edits      \* changes by others left

vars == <<server, wanted, trusted, edits>>

Init ==
    /\ server \subseteq Names
    /\ wanted \subseteq Names
    /\ trusted \in BOOLEAN
    /\ edits = MaxEdits

Delete(n) == n \in server /\ server' = server \ {n}
Create(n) == n \notin server /\ server' = server \cup {n}

\* A step of a cycle that knows what is true.
Approach ==
    /\ trusted
    /\ \/ \E n \in server \ wanted : Delete(n)
       \/ \E n \in wanted \ server : Create(n)
    /\ UNCHANGED <<wanted, trusted, edits>>

\* A step of a cycle that works from outdated knowledge still creates only
\* what a manifest describes, but it may delete anything.
Stray ==
    /\ ~trusted
    /\ \/ \E n \in server : Delete(n)
       \/ \E n \in wanted \ server : Create(n)
    /\ UNCHANGED <<wanted, trusted, edits>>

\* The next cycle starts from the present.
Refresh ==
    /\ ~trusted /\ trusted' = TRUE
    /\ UNCHANGED <<server, wanted, edits>>

\* Someone changes the manifests or an object.
Interfere ==
    /\ edits > 0 /\ edits' = edits - 1
    /\ \/ server' = server /\ wanted' \in SUBSET Names
       \/ wanted' = wanted /\ \E n \in Names : Delete(n) \/ Create(n)
    /\ trusted' \in BOOLEAN

Next == Approach \/ Stray \/ Refresh \/ Interfere

Spec == Init /\ [][Next]_vars
-----------------------------------------------------------------------------
\* While nobody interferes, a cycle that knows what is true takes the server
\* no further from the manifests, in either direction: what matches stays.
Nearer ==
    [][trusted /\ edits' = edits =>
        /\ server' \ wanted' \subseteq server \ wanted
        /\ wanted' \ server' \subseteq wanted \ server]_vars

\* Even a cycle with outdated knowledge creates nothing that is not wanted now.
OnlyWanted ==
    [][edits' = edits => server' \ server \subseteq wanted]_vars
=============================================================================
