----------------------------- MODULE AddonNames -----------------------------
(***************************************************************************)
(* Names of add-ons as kube-addon-update.sh compares them.                 *)
(*                                                                         *)
(* The script handles an add-on by its nsname, the text                    *)
(* <namespace>/<name>.  Only the places of '-' and '/' in that text        *)
(* matter, so it is modelled by the sequence of its pieces between the     *)
(* dashes, and a piece by the sequence of its fields between the slashes:  *)
(* kube-system/dns-v9 is << <<"kube">>, <<"system", "dns">>, <<"v9">> >>.  *)
(* Two such sequences are equal exactly when the texts are, and appending  *)
(* a suffix that starts with a dash is concatenation.                      *)
(***************************************************************************)
EXTENDS Integers, SequencesExt

\* "-" for replication controllers, whose names carry a version; the empty
\* separator for every other kind.
Separators == {"-", ""}

\* get-suffix: what follows the last separator, nothing if there is none.
Suffix(n, sep) == IF sep = "" \/ Len(n) = 1 THEN << >> ELSE <<Last(n)>>

\* get-basename: the name with its suffix stripped.
Base(n, sep) == IF Suffix(n, sep) = << >> THEN n ELSE Front(n)

\* The comparison of match-objects: a file describes a (possibly different)
\* version of an object of the server when the object's base name with the
\* file's suffix is the file's name.
Matches(onServer, inFile, sep) ==
    Base(onServer, sep) \o Suffix(inFile, sep) = inFile

\* IFS='/' read namespace obj_name: the pieces up to the slash.
Namespace(n) ==
    LET slash == CHOOSE i \in 1 .. Len(n) : Len(n[i]) = 2
    IN  Append(SubSeq(n, 1, slash - 1), <<n[slash][1]>>)
=============================================================================
