---------------------------- MODULE PathsProofs ----------------------------
(***************************************************************************)
(* Facts about paths and file names, for every set of segments.  They are  *)
(* what the proofs about LocalNode know of sequences: after this module    *)
(* IsPrefix, Front and Join are not expanded any more.                     *)
(***************************************************************************)
EXTENDS Paths, SequenceTheorems, TLAPS

(* A prefix agrees with the path on every position it has. *)
LEMMA PrefixPointwise ==
    ASSUME NEW s \in Path, NEW t \in Path
    PROVE  IsPrefix(s, t) <=>
               Len(s) <= Len(t) /\ \A i \in 1..Len(s) : s[i] = t[i]
<1>1. CASE ~(Len(s) <= Len(t))
    BY <1>1 DEF IsPrefix
<1>2. CASE Len(s) <= Len(t)
    <2>1. Len(s) \in Nat /\ Len(t) \in Nat
        BY LenProperties DEF Path
    <2>2. \A i \in 1..Len(s) : s[i] \in Segment /\ t[i] \in Segment
        BY <1>2, <2>1, ElementOfSeq, SMT DEF Path
    <2>3. /\ SubSeq(s, 1, Len(s)) = s
          /\ SubSeq(t, 1, Len(s)) \in Path
          /\ Len(SubSeq(t, 1, Len(s))) = Len(s)
          /\ \A i \in 1..Len(s) : SubSeq(t, 1, Len(s))[i] = t[i]
        BY <1>2, <2>1, <2>2, SMT DEF Path
    <2>4. (\A i \in 1..Len(s) : s[i] = t[i]) => s = SubSeq(t, 1, Len(s))
        <3> DEFINE u == SubSeq(t, 1, Len(s))
        <3>1. u \in Seq(Segment) /\ s \in Seq(Segment) /\ Len(s) = Len(u)
            BY <2>3 DEF Path
        <3>2. \A i \in 1..Len(s) : u[i] = t[i]
            BY <2>3
        <3> HIDE DEF u
        <3>3. (\A i \in 1..Len(s) : s[i] = t[i]) => s = u
            BY <3>1, <3>2, SeqEqual
        <3> QED BY <3>3 DEF u
    <2> QED BY <1>2, <2>3, <2>4 DEF IsPrefix
<1> QED BY <1>1, <1>2

LEMMA PrefixReflexive ==
    ASSUME NEW s \in Path
    PROVE  IsPrefix(s, s)
BY PrefixPointwise, LenProperties, SMT DEF Path

LEMMA PrefixTransitive ==
    ASSUME NEW s \in Path, NEW t \in Path, NEW u \in Path,
           IsPrefix(s, t), IsPrefix(t, u)
    PROVE  IsPrefix(s, u)
<1>1. Len(s) \in Nat /\ Len(t) \in Nat /\ Len(u) \in Nat
    BY LenProperties DEF Path
<1> QED BY <1>1, PrefixPointwise, SMT

LEMMA PrefixAntisymmetric ==
    ASSUME NEW s \in Path, NEW t \in Path, IsPrefix(s, t), IsPrefix(t, s)
    PROVE  s = t
<1>1. Len(s) \in Nat /\ Len(t) \in Nat
    BY LenProperties DEF Path
<1>2. Len(s) = Len(t) /\ \A i \in 1..Len(s) : s[i] = t[i]
    BY <1>1, PrefixPointwise, SMT
<1> QED BY <1>2, SeqEqual DEF Path

(* The prefixes of a directory's child are the child and the prefixes of   *)
(* the directory.                                                          *)
LEMMA PrefixOfChild ==
    ASSUME NEW s \in Path, NEW p \in Path, NEW c \in Segment
    PROVE  /\ Append(p, c) \in Path
           /\ IsPrefix(s, Append(p, c)) <=> s = Append(p, c) \/ IsPrefix(s, p)
           /\ Append(p, c) # p
<1> DEFINE q == Append(p, c)
<1>1. Len(s) \in Nat /\ Len(p) \in Nat
    BY LenProperties DEF Path
<1>2. /\ q \in Path /\ Len(q) = Len(p) + 1
      /\ \A i \in 1..Len(p) : q[i] = p[i]
      /\ q[Len(p) + 1] = c
    BY AppendProperties DEF Path
<1>3. q # p
    BY <1>1, <1>2, SMT
<1> HIDE DEF q
<1>4. IsPrefix(s, p) => IsPrefix(s, q)
    BY <1>1, <1>2, PrefixPointwise, SMT
<1>5. s = q => IsPrefix(s, q)
    BY <1>2, PrefixReflexive
<1>6. ASSUME IsPrefix(s, q), s # q PROVE IsPrefix(s, p)
    <2>1. Len(s) <= Len(q) /\ \A i \in 1..Len(s) : s[i] = q[i]
        BY <1>2, <1>6, PrefixPointwise
    <2>2. Len(s) # Len(q)
        BY <1>2, <1>6, <2>1, SeqEqual DEF Path
    <2> QED BY <1>1, <1>2, <2>1, <2>2, PrefixPointwise, SMT
<1> QED BY <1>2, <1>3, <1>4, <1>5, <1>6 DEF q

(* The parent of a child. *)
LEMMA FrontOfChild ==
    ASSUME NEW p \in Path, NEW c \in Segment
    PROVE  Append(p, c) # <<>> /\ Front(Append(p, c)) = p
<1> DEFINE q == Append(p, c)
<1>1. Len(p) \in Nat
    BY LenProperties DEF Path
<1>2. /\ q \in Path /\ Len(q) = Len(p) + 1
      /\ \A i \in 1..Len(p) : q[i] = p[i]
      /\ \A i \in 1..Len(p) : q[i] \in Segment
    BY AppendProperties, ElementOfSeq DEF Path
<1>3. q # <<>>
    BY <1>1, <1>2, SMT DEF Path
<1> HIDE DEF q
<1>4. /\ Front(q) \in Path /\ Len(Front(q)) = Len(p)
      /\ \A i \in 1..Len(p) : Front(q)[i] = p[i]
    BY <1>1, <1>2, SMT DEF Front, Path
<1>5. Front(q) = p
    BY <1>4, SeqEqual DEF Path
<1> QED BY <1>3, <1>5 DEF q

(* The parent of a path is a strict prefix of it. *)
LEMMA FrontIsStrictPrefix ==
    ASSUME NEW p \in Path, p # <<>>
    PROVE  Front(p) \in Path /\ IsStrictPrefix(Front(p), p)
<1>1. PICK n \in Nat : Len(p) = n + 1
    <2>1. Len(p) \in Nat \ {0}
        BY EmptySeq DEF Path
    <2>2. Len(p) - 1 \in Nat /\ Len(p) = (Len(p) - 1) + 1
        BY <2>1, SMT
    <2> QED BY <2>2
<1>2. \A i \in 1..n : p[i] \in Segment
    BY <1>1, ElementOfSeq, SMT DEF Path
<1>3. /\ Front(p) \in Path /\ Len(Front(p)) = n
      /\ \A i \in 1..n : Front(p)[i] = p[i]
    <2>1. Front(p) = SubSeq(p, 1, n)
        <3>1. Len(p) - 1 = n
            BY <1>1, SMT
        <3> QED BY <3>1 DEF Front
    <2> QED BY <1>1, <1>2, <2>1, SMT DEF Path
<1>4. Front(p) # p
    BY <1>1, <1>3, SMT
<1>5. IsPrefix(Front(p), p)
    BY <1>1, <1>3, PrefixPointwise, SMT
<1> QED BY <1>3, <1>4, <1>5 DEF IsStrictPrefix

(* A name that validFileName accepts leads to a child, never elsewhere. *)
LEMMA JoinValidName ==
    ASSUME NEW p \in Path, NEW name \in Name, validFileName(name)
    PROVE  name[1] \in Segment /\ Join(p, name) = Append(p, name[1])
<1>1. PICK c \in Component : name = <<c>>
    <2>1. CASE name \in {<<c>> : c \in Component}
        BY <2>1
    <2>2. CASE name \in {<<c, d>> : c, d \in Component}
        <3>1. PICK c \in Component, d \in Component : name = <<c, d>>
            BY <2>2
        <3>2. Len(<<c, d>>) = 2
            OBVIOUS
        <3> QED BY <3>1, <3>2 DEF validFileName
    <2> QED BY <2>1, <2>2 DEF Name
<1>2. c \in Segment
    BY <1>1 DEF validFileName, Component, Special
<1>3. Len(name) = 1 /\ name[1] = c
    BY <1>1
<1> QED BY <1>2, <1>3 DEF Join, Follow

(* Every ordinary file name is valid. *)
LEMMA SegmentsAreValid ==
    ASSUME NEW c \in Segment
    PROVE  validFileName(<<c>>)
<1>1. c \notin Special
    BY SegmentAssumption, Zenon
<1>2. c # "" /\ c # "." /\ c # ".."
    BY <1>1, Zenon DEF Special
<1>3. \A d : d # c => <<c>> # <<d>>
    <2> TAKE d
    <2>1. <<c>>[1] = c /\ <<d>>[1] = d
        OBVIOUS
    <2> QED BY <2>1, Zenon
<1>4. Len(<<c>>) = 1
    OBVIOUS
<1> QED BY <1>2, <1>3, <1>4, Zenon DEF validFileName
=============================================================================
