---------------------------- MODULE ImageRelease ----------------------------
(***************************************************************************)
(* What imagebuilder promises about images, however many runs of it there  *)
(* are and whatever goes wrong: an image is registered once per name, its  *)
(* copies are made from an image that is available, only available images  *)
(* are made public, and nothing of this is ever taken back.                *)
(***************************************************************************)
CONSTANTS Regions, Home, Names

VARIABLES
    image,    \* region -> name -> state
    public    \* <<region, name>> of the images anyone may use

vars == <<image, public>>

States == {"none", "pending", "available", "failed"}

Init ==
    /\ image \in [Regions -> [Names -> States]]
    /\ \A r \in Regions \ {Home}, n \in Names : image[r][n] = "none"
    /\ public = {}

Become(r, n, old, new) ==
    /\ image[r][n] = old
    /\ image' = [image EXCEPT ![r][n] = new]
    /\ UNCHANGED public

Register(n) == Become(Home, n, "none", "pending")

Copy(r, n) == image[Home][n] = "available" /\ Become(r, n, "none", "pending")

Complete(r, n) == \E s \in {"available", "failed"} : Become(r, n, "pending", s)

Publish(r, n) ==
    /\ image[r][n] = "available"
    /\ public' = public \cup {<<r, n>>}
    /\ UNCHANGED image

Next ==
    \E n \in Names :
        \/ Register(n)
        \/ \E r \in Regions : Copy(r, n) \/ Complete(r, n) \/ Publish(r, n)

Spec == Init /\ [][Next]_vars
-----------------------------------------------------------------------------
\* What is public anyone can start a machine from.
PublicIsAvailable ==
    \A r \in Regions, n \in Names :
        <<r, n>> \in public => image[r][n] = "available"

\* What is anywhere else was made from a complete image.
CopiesAreOfImages ==
    \A r \in Regions \ {Home}, n \in Names :
        image[r][n] # "none" => image[Home][n] = "available"

\* What is complete stays, failed or not, and so does what is public.
NothingTakenBack ==
    [][/\ public \subseteq public'
       /\ \A r \in Regions, n \in Names :
             /\ image[r][n] \in {"available", "failed"} => image'[r][n] = image[r][n]
             /\ image[r][n] = "pending" => image'[r][n] # "none"]_vars
=============================================================================
