-------------------------- MODULE AddonNamesProofs --------------------------
(* What the name comparisons of kube-addon-update.sh amount to.            *)
EXTENDS AddonNames, SequenceTheorems, TLAPS

\* get-basename and get-suffix split a name: put together again they are the
\* name.
LEMMA BaseAndSuffix ==
    ASSUME NEW S, NEW n \in Seq(S), n # << >>, NEW sep
    PROVE  /\ Base(n, sep) \in Seq(S)
           /\ Suffix(n, sep) \in Seq(S)
           /\ Base(n, sep) \o Suffix(n, sep) = n
<1>1. CASE Suffix(n, sep) = << >>
  BY <1>1 DEF Base
<1>2. CASE Suffix(n, sep) # << >>
  <2>1. Len(n) \in Nat /\ Len(n) > 1
    <3>1. Len(n) \in Nat /\ Len(n) # 0
      BY EmptySeq, LenProperties
    <3>2. Len(n) # 1
      BY <1>2 DEF Suffix
    <3>3. \A k \in Nat : k # 0 /\ k # 1 => k > 1
      OBVIOUS
    <3> QED
      BY <3>1, <3>2, <3>3, Zenon
  <2>2. Suffix(n, sep) = <<n[Len(n)]>>
    BY <1>2 DEF Suffix, Last
  <2>3. Base(n, sep) = SubSeq(n, 1, Len(n) - 1)
    BY <1>2 DEF Base, Front
  <2> QED
    BY <2>1, <2>2, <2>3
<1> QED
  BY <1>1, <1>2

\* The comparison of match-objects holds exactly between names with the same
\* base name.
THEOREM MatchIsSameBase ==
    ASSUME NEW S, NEW n \in Seq(S), NEW f \in Seq(S),
           n # << >>, f # << >>, NEW sep
    PROVE  Matches(n, f, sep) <=> Base(n, sep) = Base(f, sep)
<1> DEFINE b == Base(n, sep)
           c == Base(f, sep)
           x == Suffix(f, sep)
<1>1. b \in Seq(S) /\ c \in Seq(S) /\ x \in Seq(S) /\ c \o x = f
  BY BaseAndSuffix
<1>2. Matches(n, f, sep) <=> b \o x = c \o x
  BY <1>1 DEF Matches
<1> HIDE DEF b, c, x
<1>3. ASSUME b \o x = c \o x PROVE b = c
  <2>1. Len(b) = Len(c)
    BY <1>1, <1>3
  <2>2. \A i \in 1 .. Len(b) : b[i] = (b \o x)[i] /\ c[i] = (c \o x)[i]
    BY <1>1, <2>1
  <2> QED
    BY <1>1, <1>3, <2>1, <2>2, SeqEqual
<1> QED
  BY <1>2, <1>3 DEF b, c

\* A matching name with the same suffix is the same name: match-objects then
\* leaves the object alone.
THEOREM SameVersionIsSameName ==
    ASSUME NEW S, NEW n \in Seq(S), NEW f \in Seq(S),
           n # << >>, f # << >>, NEW sep, Matches(n, f, sep)
    PROVE  Suffix(n, sep) = Suffix(f, sep) <=> n = f
<1>1. Base(n, sep) = Base(f, sep)
  BY MatchIsSameBase
<1>2. Base(n, sep) \o Suffix(n, sep) = n /\ Base(f, sep) \o Suffix(f, sep) = f
  BY BaseAndSuffix
<1> QED
  BY <1>1, <1>2, Zenon
=============================================================================
