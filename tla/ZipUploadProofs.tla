-------------------------- MODULE ZipUploadProofs --------------------------
(***************************************************************************)
(* Proofs about ZipUpload: for every tree, every archive of any number of  *)
(* entries of any length, and any number of uploads.                       *)
(***************************************************************************)
EXTENDS ZipUpload, PathsProofs, WellFoundedInduction

(***************************************************************************)
(* Facts about sequences of sequences.                                     *)
(***************************************************************************)
(* Induction over numbers: a set of them has a least one. *)
LEMMA LeastNumber ==
    ASSUME NEW T \in SUBSET Nat, T # {}
    PROVE  \E m \in T : \A k \in T : m <= k
<1> DEFINE R == OpToRel(<, Nat)
<1>1. IsWellFoundedOn(R, Nat)
    BY NatLessThanWellFounded, Zenon
<1>2. PICK m \in T : \A k \in T : <<k, m>> \notin R
    <2> HIDE DEF R
    <2> QED BY <1>1, WFMin, Zenon
<1>3. \A k \in T : k < m => <<k, m>> \in R
    BY DEF OpToRel
<1> HIDE DEF R
<1>4. \A k \in T : m <= k
    <2> TAKE k \in T
    <2>1. ~(k < m)
        BY <1>2, <1>3
    <2> QED BY <2>1, SMT
<1> QED BY <1>4

(* f holds what the first k sequences of s are together, for k up to n. *)
IsFlat(f, s, n) == f = [k \in 1..n |-> IF k = 1 THEN s[k] ELSE f[k - 1] \o s[k]]

(* The recursion by which FlattenSeq is defined defines a function ... *)
LEMMA FlatExists ==
    ASSUME NEW s, NEW n \in Nat
    PROVE  \E f : IsFlat(f, s, n)
<1> DEFINE T == {k \in Nat : ~\E f : IsFlat(f, s, k)}
<1>1. SUFFICES ASSUME T # {} PROVE FALSE
    OBVIOUS
<1>2. PICK m \in T : \A k \in T : m <= k
    BY <1>1, LeastNumber, Zenon
<1>3. CASE m = 0
    <2>1. IsFlat(<<>>, s, 0)
        BY DEF IsFlat
    <2> QED BY <2>1, <1>3, <1>2
<1>4. CASE m # 0
    <2>1. m - 1 \in Nat /\ m - 1 \notin T
        BY <1>2, <1>4
    <2>2. PICK f : IsFlat(f, s, m - 1)
        BY <2>1
    <2> DEFINE e(k) == IF k = 1 THEN s[k] ELSE f[k - 1] \o s[k]
               g == [k \in 1..m |-> e(k)]
    <2>3. \A k \in 1..(m - 1) : g[k] = f[k]
        <3>1. f = [k \in 1..(m - 1) |-> e(k)]
            BY <2>2 DEF IsFlat
        <3>2. \A k \in 1..(m - 1) : f[k] = e(k) /\ g[k] = e(k)
            <4> HIDE DEF e
            <4>1. \A k \in 1..(m - 1) : k \in 1..m
                BY <2>1
            <4> QED BY <3>1, <4>1, Zenon
        <3> QED BY <3>2
    <2>4. \A k \in 1..m : k # 1 => g[k - 1] = f[k - 1]
        <3> HIDE DEF g
        <3> QED BY <2>3, <2>1
    <2>5. \A k \in 1..m : e(k) = IF k = 1 THEN s[k] ELSE g[k - 1] \o s[k]
        <3> HIDE DEF g
        <3> QED BY <2>4
    <2>6. IsFlat(g, s, m)
        <3> DEFINE h(k) == IF k = 1 THEN s[k] ELSE g[k - 1] \o s[k]
        <3>1. \A k \in 1..m : e(k) = h(k)
            BY <2>5
        <3>2. g = [k \in 1..m |-> h(k)]
            <4> HIDE DEF e, h
            <4> QED BY <3>1
        <3> QED BY <3>2 DEF IsFlat
    <2> QED BY <2>6, <1>2
<1> QED BY <1>3, <1>4

(* ... that depends only on the sequences it has come to ... *)
LEMMA FlatUnique ==
    ASSUME NEW s, NEW t, NEW f, NEW g, NEW m \in Nat, NEW n \in Nat,
           IsFlat(f, s, m), IsFlat(g, t, n), m <= n, \A k \in 1..m : s[k] = t[k]
    PROVE  \A k \in 1..m : f[k] = g[k]
<1> DEFINE T == {k \in 1..m : f[k] # g[k]}
<1>1. SUFFICES ASSUME T # {} PROVE FALSE
    OBVIOUS
<1>2. PICK k \in T : \A j \in T : k <= j
    <2>1. T \in SUBSET Nat
        OBVIOUS
    <2> HIDE DEF T
    <2> QED BY <1>1, <2>1, LeastNumber, Zenon
<1>3. CASE k = 1
    BY <1>3, <1>2 DEF IsFlat
<1>4. CASE k # 1
    <2>1. f[k - 1] = g[k - 1] /\ k \in 1..m /\ k \in 1..n /\ s[k] = t[k]
        BY <1>2, <1>4
    <2>2. f[k] = f[k - 1] \o s[k] /\ g[k] = g[k - 1] \o t[k]
        BY <2>1, <1>4 DEF IsFlat
    <2> QED BY <2>1, <2>2, <1>2
<1> QED BY <1>3, <1>4

(* ... and holds sequences of the same elements. *)
LEMMA FlatType ==
    ASSUME NEW S, NEW n \in Nat, NEW s, \A k \in 1..n : s[k] \in Seq(S), NEW f, IsFlat(f, s, n)
    PROVE  \A k \in 1..n : f[k] \in Seq(S)
<1> DEFINE T == {k \in 1..n : f[k] \notin Seq(S)}
<1>1. SUFFICES ASSUME T # {} PROVE FALSE
    OBVIOUS
<1>2. PICK k \in T : \A j \in T : k <= j
    <2>1. T \in SUBSET Nat
        OBVIOUS
    <2> HIDE DEF T
    <2> QED BY <1>1, <2>1, LeastNumber, Zenon
<1>3. CASE k = 1
    BY <1>3, <1>2 DEF IsFlat
<1>4. CASE k # 1
    <2>1. f[k - 1] \in Seq(S) /\ s[k] \in Seq(S)
        BY <1>2, <1>4
    <2>2. f[k] = f[k - 1] \o s[k]
        BY <1>2, <1>4 DEF IsFlat
    <2>3. f[k] \in Seq(S)
        BY <2>1, <2>2, ConcatProperties
    <2> QED BY <2>3, <1>2
<1> QED BY <1>3, <1>4

LEMMA FlattenIs ==
    ASSUME NEW s, NEW n \in Nat, Len(s) = n
    PROVE  \E f : IsFlat(f, s, n) /\ FlattenSeq(s) = IF n = 0 THEN s ELSE f[n]
<1> DEFINE F == CHOOSE f : IsFlat(f, s, n)
<1>1. IsFlat(F, s, n)
    BY FlatExists, Zenon
<1>2. FlattenSeq(s) = IF n = 0 THEN s ELSE F[n]
    BY DEF FlattenSeq, IsFlat
<1> QED BY <1>1, <1>2

(* One sequence more comes last. *)
LEMMA FlattenStep ==
    ASSUME NEW S, NEW n \in Nat
    PROVE  \A s, t \in Seq(Seq(S)) :
              Len(s) = n /\ Len(t) = n + 1 /\ (\A k \in 1..n : s[k] = t[k])
                 => /\ FlattenSeq(s) \in Seq(S)
                    /\ FlattenSeq(t) = FlattenSeq(s) \o t[n + 1]
<1> SUFFICES ASSUME NEW s, NEW t, s \in Seq(Seq(S)), t \in Seq(Seq(S)),
                    Len(s) = n, Len(t) = n + 1, \A k \in 1..n : s[k] = t[k]
             PROVE  /\ FlattenSeq(s) \in Seq(S)
                    /\ FlattenSeq(t) = FlattenSeq(s) \o t[n + 1]
    OBVIOUS
<1>1. PICK f : IsFlat(f, s, n) /\ FlattenSeq(s) = IF n = 0 THEN s ELSE f[n]
    BY FlattenIs, Zenon
<1>2. PICK g : IsFlat(g, t, n + 1) /\ FlattenSeq(t) = IF n + 1 = 0 THEN t ELSE g[n + 1]
    <2>1. n + 1 \in Nat
        OBVIOUS
    <2> QED BY <2>1, FlattenIs, Zenon
<1>3. \A k \in 1..n : s[k] \in Seq(S) /\ f[k] \in Seq(S)
    <2>1. \A k \in 1..n : s[k] \in Seq(S)
        BY ElementOfSeq
    <2> QED BY <2>1, <1>1, FlatType, Zenon
<1>4. FlattenSeq(t) = g[n + 1] /\ t[n + 1] \in Seq(S)
    BY <1>2, ElementOfSeq
<1>5. CASE n = 0
    <2>1. s = <<>> /\ FlattenSeq(s) = <<>>
        BY <1>5, <1>1, EmptySeq
    <2>2. g[n + 1] = t[n + 1]
        BY <1>5, <1>2 DEF IsFlat
    <2>3. <<>> \o t[n + 1] = t[n + 1]
        BY <1>4, ConcatEmptySeq, Zenon
    <2> QED BY <2>1, <2>2, <2>3, <1>4, EmptySeq
<1>6. CASE n # 0
    <2>1. f[n] = g[n]
        <3>1. PICK m \in Nat : m = n + 1
            OBVIOUS
        <3>2. IsFlat(g, t, m) /\ IsFlat(f, s, n) /\ \A k \in 1..n : s[k] = t[k]
            BY <1>1, <1>2, <3>1
        <3>3. n <= m /\ n \in 1..n
            BY <1>6, <3>1
        <3>4. \A k \in 1..n : f[k] = g[k]
            BY ONLY n \in Nat, <3>2, <3>3, FlatUnique, SMT
        <3> QED BY <3>3, <3>4
    <2>2. g[n + 1] = g[n] \o t[n + 1]
        <3>1. n + 1 \in 1..(n + 1) /\ n + 1 # 1 /\ (n + 1) - 1 = n
            BY <1>6
        <3> QED BY <3>1, <1>2 DEF IsFlat
    <2>3. FlattenSeq(s) = f[n] /\ n \in 1..n
        BY <1>1, <1>6
    <2> QED BY <2>1, <2>2, <2>3, <1>3, <1>4
<1> QED BY <1>5, <1>6
-----------------------------------------------------------------------------
(***************************************************************************)
(* The calls that are made for entry j before its contents, by number, and *)
(* where the first k components of its name lead.                          *)
(***************************************************************************)
Steps(j) == 2 * Len(archive[j].name) - 1

EntryCall(j, s) ==
    IF s < Steps(j) THEN ParentCalls(archive[j].name)[s] ELSE CreateCall(archive[j].name)

Way(j, k) == Root \o SubSeq(archive[j].name, 1, k)

(***************************************************************************)
(* Call q of the queue is the s-th of entry j, and those before it in the  *)
(* queue are those before it in the entry; if the entry's first calls have *)
(* been handled, they have led where its name says, or nowhere.            *)
(***************************************************************************)
IsCall(q, j, s) ==
    /\ j \in 1..Len(archive) /\ j <= i /\ ~archive[j].isDir
    /\ s \in 1..Steps(j)
    /\ \A r \in 1..q : s - (q - r) >= 1 => queue[r] = EntryCall(j, s - (q - r))
    /\ s >= q + 2 => dir \in {Broken, Way(j, (s - q) \div 2)}

IsWrite(q) ==
    /\ q = Len(queue) /\ pc = "wait" /\ reply = NoReply
    /\ queue[q] = [method |-> "write", chunk |-> <<i, sent>>]

QueueOK ==
    /\ \A q \in 1..Len(queue) : IsWrite(q) \/ \E j, s \in Nat : IsCall(q, j, s)
    /\ conn = "lost" => queue = <<>>

(***************************************************************************)
(* How the uploader's progress through an entry, the answers it has and    *)
(* the server's file go together.  Ahead counts the calls under way before *)
(* the write that the uploader waits for.                                  *)
(***************************************************************************)
Copying == pc \in {"copy", "wait"}

Ahead == IF pc = "wait" /\ reply = NoReply THEN Len(queue) - 1 ELSE Len(queue)

ProgressOK ==
    /\ pc # "idle" => status = "none"
    /\ status = "303" => i = Len(archive) + 1
    /\ Copying \/ status = "500" =>
          i <= Len(archive) /\ ~archive[i].isDir /\ sent <= archive[i].chunks
    /\ pc = "wait" => sent > 0
    /\ pc = "copy" /\ sent > 0 => reply = "ok"

FileOK ==
    Copying =>
        /\ sent > 0 /\ reply # NoReply => queue = <<>>
        /\ sent > 0 /\ reply = "ok" => file = Named(i)
        /\ conn = "up" =>
              /\ pc = "wait" /\ reply = NoReply => Len(queue) > 0 /\ IsWrite(Len(queue))
              /\ IF Ahead = 0 THEN file \in {Broken, Named(i)}
                 ELSE IsCall(Ahead, i, Steps(i))

(***************************************************************************)
(* What has been written of the current entry, and so the exact contents   *)
(* of every file.                                                          *)
(***************************************************************************)
Written ==
    IF ~(Copying \/ status = "500") \/ sent = 0 THEN 0
    ELSE IF reply = "ok" THEN sent ELSE sent - 1

Begun(p) == IF Written > 0 /\ Named(i) = p THEN [k \in 1..Written |-> <<i, k>>] ELSE <<>>

DataOK ==
    /\ \A p \in Path :
          IF p \in DOMAIN tree THEN tree[p].data = Contents(p, i - 1) \o Begun(p)
          ELSE Contents(p, i - 1) = <<>>
    /\ \A j \in 1..(i - 1) :
          ~archive[j].isDir /\ archive[j].chunks > 0 => Named(j) \in DOMAIN tree
    /\ Written > 0 => Named(i) \in DOMAIN tree

OldOK == DOMAIN old \subseteq Path /\ old \in [DOMAIN old -> Inode]

(***************************************************************************)
(* The server's nodes are in the claimed directory, and its file may be    *)
(* written to.                                                             *)
(***************************************************************************)
PlaceOK ==
    /\ dir # Broken => IsPrefix(Root, dir)
    /\ file # Broken => IsPrefix(Root, file) /\ WritableTo(file)

Inv ==
    /\ TypeOK /\ OldOK /\ PlaceOK /\ OnlyArchiveAdded
    /\ QueueOK /\ ProgressOK /\ FileOK /\ DataOK
-----------------------------------------------------------------------------
(***************************************************************************)
(* Facts about the archive and what is in it.                              *)
(***************************************************************************)
Data == Nat \X Nat

(* What is in an entry that an upload may have come to. *)
LEMMA EntryFacts ==
    ASSUME TypeOK, NEW j \in 1..Len(archive)
    PROVE  /\ archive[j] \in Entry
           /\ archive[j].name \in Seq(Component) /\ archive[j].name # <<>>
           /\ Len(archive[j].name) \in Nat \ {0}
           /\ Len(archive) \in Nat
           /\ archive \in Archives
<1>1. archive \in Archives
    <2>1. archive # <<>>
        <3>1. Len(<<>>) = 0
            BY EmptySeq
        <3> QED BY <3>1
    <2> QED BY <2>1 DEF TypeOK
<1>2. archive \in Seq(Entry) /\ \A k \in 1..Len(archive) : archive[k].name # <<>>
    BY <1>1, ArchiveAssumption
<1>3. archive[j] \in Entry /\ Len(archive) \in Nat
    BY <1>2, ElementOfSeq, LenProperties
<1>4. archive[j].name \in Seq(Component)
    BY <1>3 DEF Entry
<1> QED BY <1>1, <1>2, <1>3, <1>4, EmptySeq

(* The archive is a sequence, whether an upload has begun or not. *)
LEMMA ArchiveType ==
    ASSUME TypeOK
    PROVE  archive \in Seq(Entry) /\ Len(archive) \in Nat /\ i \in 1..(Len(archive) + 1)
<1>1. archive \in Seq(Entry)
    <2>1. CASE archive \in Archives
        BY <2>1, ArchiveAssumption
    <2>2. CASE archive = <<>>
        BY <2>2, EmptySeq
    <2> QED BY <2>1, <2>2 DEF TypeOK
<1> QED BY <1>1, LenProperties DEF TypeOK

(* What entry j puts into the file p, and what was in p before. *)
Piece(p, j) ==
    IF Named(j) = p /\ ~archive[j].isDir
    THEN [k \in 1..archive[j].chunks |-> <<j, k>>] ELSE <<>>

Before(p) == IF p \in DOMAIN old THEN old[p].data ELSE <<>>

LEMMA PieceType ==
    ASSUME TypeOK, NEW p, NEW j \in 1..Len(archive)
    PROVE  Piece(p, j) \in Seq(Data)
<1>1. archive[j].chunks \in Nat /\ j \in Nat
    BY EntryFacts DEF Entry
<1>2. \A k \in 1..archive[j].chunks : <<j, k>> \in Data
    BY <1>1 DEF Data
<1>3. [k \in 1..archive[j].chunks |-> <<j, k>>] \in Seq(Data)
    BY <1>1, <1>2, IsASeq
<1> QED BY <1>3, EmptySeq DEF Piece

LEMMA BeforeType ==
    ASSUME OldOK, NEW p
    PROVE  Before(p) \in Seq(Data)
BY EmptySeq DEF OldOK, Before, Inode, Data

(* The pieces of the first n entries. *)
Pieces(p, n) == [j \in 1..n |-> Piece(p, j)]

LEMMA PiecesType ==
    ASSUME TypeOK, NEW p, NEW n \in 0..Len(archive)
    PROVE  /\ Pieces(p, n) \in Seq(Seq(Data)) /\ Len(Pieces(p, n)) = n
           /\ \A j \in 1..n : Pieces(p, n)[j] = Piece(p, j)
           /\ Contents(p, n) = Before(p) \o FlattenSeq(Pieces(p, n))
<1>1. n \in Nat /\ \A j \in 1..n : j \in 1..Len(archive)
    BY ArchiveType
<1>2. \A j \in 1..n : Piece(p, j) \in Seq(Data)
    BY <1>1, PieceType
<1>3. Pieces(p, n) \in Seq(Seq(Data))
    <2> DEFINE e(j) == Piece(p, j)
    <2>1. \A j \in 1..n : e(j) \in Seq(Data)
        BY <1>2
    <2> HIDE DEF e
    <2>2. [j \in 1..n |-> e(j)] \in Seq(Seq(Data))
        BY <2>1, <1>1, IsASeq
    <2> QED BY <2>2 DEF Pieces, e
<1>4. Contents(p, n) = Before(p) \o FlattenSeq(Pieces(p, n))
    BY Zenon DEF Contents, Before, Pieces, Piece
<1>5. Len(Pieces(p, n)) = n
    BY <1>1, <1>3, LenProperties DEF Pieces
<1> QED BY <1>3, <1>4, <1>5 DEF Pieces

LEMMA ContentsNone ==
    ASSUME TypeOK, OldOK, NEW p
    PROVE  Contents(p, 0) = Before(p)
<1>1. 0 \in 0..Len(archive)
    BY ArchiveType
<1>2. Pieces(p, 0) = <<>>
    BY <1>1, PiecesType, EmptySeq
<1>3. FlattenSeq(<<>>) = <<>>
    BY EmptySeq DEF FlattenSeq
<1> QED BY <1>1, <1>2, <1>3, PiecesType, BeforeType, ConcatEmptySeq

(* One entry more puts its piece at the end. *)
LEMMA ContentsStep ==
    ASSUME TypeOK, OldOK, NEW p, NEW n \in 1..Len(archive)
    PROVE  /\ Contents(p, n - 1) \in Seq(Data) /\ Contents(p, n) \in Seq(Data)
           /\ Contents(p, n) = Contents(p, n - 1) \o Piece(p, n)
<1> DEFINE m == n - 1
           s == FlattenSeq(Pieces(p, m))
           t == FlattenSeq(Pieces(p, n))
<1>1. m \in Nat /\ m \in 0..Len(archive) /\ n \in 0..Len(archive) /\ n = m + 1
    BY ArchiveType
<1>2. \A k \in 1..m : Pieces(p, m)[k] = Pieces(p, n)[k]
    BY <1>1 DEF Pieces
<1>3. s \in Seq(Data) /\ t = s \o Piece(p, n)
    <2> HIDE DEF m
    <2>1. Pieces(p, n)[m + 1] = Piece(p, n)
        BY <1>1 DEF Pieces
    <2>2. /\ Pieces(p, m) \in Seq(Seq(Data)) /\ Len(Pieces(p, m)) = m
          /\ Pieces(p, n) \in Seq(Seq(Data)) /\ Len(Pieces(p, n)) = m + 1
        BY <1>1, PiecesType
    <2> DEFINE u == Pieces(p, m)
               v == Pieces(p, n)
    <2>3. FlattenSeq(u) \in Seq(Data) /\ FlattenSeq(v) = FlattenSeq(u) \o v[m + 1]
        <3> HIDE DEF u, v
        <3>1. /\ u \in Seq(Seq(Data)) /\ Len(u) = m
              /\ v \in Seq(Seq(Data)) /\ Len(v) = m + 1
              /\ \A k \in 1..m : u[k] = v[k]
            BY <2>2, <1>2 DEF u, v
        <3> QED BY ONLY <3>1, m \in Nat, FlattenStep
    <2> QED BY <2>1, <2>3
<1>4. Before(p) \in Seq(Data) /\ Piece(p, n) \in Seq(Data)
    BY BeforeType, PieceType
<1>5. Contents(p, m) = Before(p) \o s /\ Contents(p, n) = Before(p) \o t
    BY <1>1, PiecesType
<1>6. (Before(p) \o s) \o Piece(p, n) = Before(p) \o (s \o Piece(p, n))
    BY <1>3, <1>4, ConcatAssociative
<1>7. Before(p) \o s \in Seq(Data) /\ (Before(p) \o s) \o Piece(p, n) \in Seq(Data)
    BY <1>3, <1>4, ConcatProperties
<1> QED BY <1>3, <1>5, <1>6, <1>7

LEMMA ContentsType ==
    ASSUME TypeOK, OldOK, NEW p, NEW n \in 0..Len(archive)
    PROVE  Contents(p, n) \in Seq(Data)
<1>1. CASE n = 0
    BY <1>1, ContentsNone, BeforeType
<1>2. CASE n # 0
    <2>1. n \in 1..Len(archive)
        BY <1>2, ArchiveType
    <2> QED BY <2>1, ContentsStep
<1> QED BY <1>1, <1>2
-----------------------------------------------------------------------------
(***************************************************************************)
(* Facts about the calls for an entry and where they lead.                 *)
(***************************************************************************)
LEMMA WayFacts ==
    ASSUME TypeOK, NEW j \in 1..Len(archive), NEW k \in 0..(Len(archive[j].name) - 1)
    PROVE  /\ Way(j, 0) = Root
           /\ Way(j, k + 1) = Append(Way(j, k), archive[j].name[k + 1])
           /\ IsStrictPrefix(Way(j, k), Named(j))
<1> DEFINE name == archive[j].name
           a == SubSeq(name, 1, k)
           b == SubSeq(name, 1, k + 1)
<1>1. name \in Seq(Component) /\ Len(name) \in Nat /\ k \in Nat /\ k + 1 <= Len(name)
    BY EntryFacts
<1>2. Root \in Seq(Component) /\ Len(Root) \in Nat
    BY ServerAssumption, SeqMonotonic, LenProperties DEF Path, Component
<1> HIDE DEF name
<1>3. /\ a \in Seq(Component) /\ Len(a) = k /\ \A n \in 1..k : a[n] = name[n]
      /\ b \in Seq(Component) /\ Len(b) = k + 1 /\ \A n \in 1..(k + 1) : b[n] = name[n]
    <2>1. \A n \in 1..(k + 1) : name[n] \in Component
        BY <1>1, ElementOfSeq
    <2> QED BY <1>1, <2>1, SubSeqProperties
<1>4. Way(j, 0) = Root
    <2>1. SubSeq(name, 1, 0) = <<>>
        BY SubSeqEmpty
    <2> QED BY <2>1, <1>2, ConcatEmptySeq DEF Way, name
<1> DEFINE s == Root \o a
           t == Root \o b
           u == Root \o name
<1>5. /\ s \in Seq(Component) /\ Len(s) = Len(Root) + k
      /\ \A n \in 1..Len(s) : s[n] = IF n <= Len(Root) THEN Root[n] ELSE a[n - Len(Root)]
      /\ t \in Seq(Component) /\ Len(t) = Len(Root) + k + 1
      /\ \A n \in 1..Len(t) : t[n] = IF n <= Len(Root) THEN Root[n] ELSE b[n - Len(Root)]
      /\ u \in Seq(Component) /\ Len(u) = Len(Root) + Len(name)
      /\ \A n \in 1..Len(u) : u[n] = IF n <= Len(Root) THEN Root[n] ELSE name[n - Len(Root)]
    BY <1>1, <1>2, <1>3, ConcatProperties
<1>6. Way(j, k) = s /\ Way(j, k + 1) = t /\ Named(j) = u
    BY DEF Way, Named, name
<1> HIDE DEF a, b, s, t, u
<1> DEFINE l == Len(Root)
<1>7. \A n \in 1..Len(s) : s[n] = t[n] /\ s[n] = u[n]
    <2> TAKE n \in 1..Len(s)
    <2>1. l \in Nat /\ n \in 1..(l + k) /\ n \in 1..Len(t) /\ n \in 1..Len(u)
        BY <1>1, <1>2, <1>5
    <2>2. CASE n <= l
        BY <2>1, <2>2, <1>5
    <2>3. CASE ~(n <= l)
        <3>1. n - l \in 1..k /\ n - l \in 1..(k + 1)
            BY <2>1, <2>3, <1>1
        <3>2. s[n] = a[n - l] /\ t[n] = b[n - l] /\ u[n] = name[n - l]
            BY <2>1, <2>3, <1>5
        <3>3. a[n - l] = name[n - l] /\ b[n - l] = name[n - l]
            BY <3>1, <1>3
        <3> QED BY <3>2, <3>3
    <2> QED BY <2>2, <2>3
<1>8. t[Len(s) + 1] = name[k + 1]
    <2>1. l \in Nat /\ Len(s) + 1 \in 1..Len(t) /\ Len(s) + 1 = l + k + 1
        BY <1>1, <1>2, <1>5
    <2>2. t[Len(s) + 1] = b[(Len(s) + 1) - l]
        BY <2>1, <1>1, <1>5
    <2>3. (Len(s) + 1) - l = k + 1 /\ k + 1 \in 1..(k + 1)
        BY <2>1, <1>1
    <2>4. b[k + 1] = name[k + 1]
        BY <2>3, <1>3
    <2> QED BY <2>2, <2>3, <2>4
<1>9. t = Append(s, name[k + 1])
    <2> DEFINE v == Append(s, name[k + 1])
    <2>1. name[k + 1] \in Component
        BY <1>1, ElementOfSeq
    <2>2. /\ v \in Seq(Component) /\ Len(v) = Len(s) + 1
          /\ \A n \in 1..Len(s) : v[n] = s[n]
          /\ v[Len(s) + 1] = name[k + 1]
        BY <2>1, <1>5, AppendProperties
    <2> HIDE DEF v
    <2>3. Len(v) = Len(t) /\ \A n \in 1..Len(v) : v[n] = t[n]
        <3>1. Len(v) = Len(t) /\ Len(s) \in Nat /\ Len(v) = Len(s) + 1
            BY <2>2, <1>1, <1>2, <1>5
        <3>2. \A n \in 1..Len(v) : n \in 1..Len(s) \/ n = Len(s) + 1
            BY <3>1
        <3> QED BY <2>2, <3>1, <3>2, <1>7, <1>8
    <2>4. v = t
        BY <2>2, <2>3, <1>5, SeqEqual
    <2> QED BY <2>4 DEF v
<1>10. IsStrictPrefix(s, u)
    <2>1. Len(s) <= Len(u) /\ s # u
        BY <1>1, <1>2, <1>5
    <2>2. SubSeq(s, 1, Len(s)) = SubSeq(u, 1, Len(s))
        <3> DEFINE v == SubSeq(s, 1, Len(s))
                   w == SubSeq(u, 1, Len(s))
        <3>1. Len(s) \in Nat /\ \A n \in 1..Len(s) : s[n] \in Component /\ u[n] \in Component
            BY <2>1, <1>1, <1>2, <1>5, ElementOfSeq
        <3>2. /\ v \in Seq(Component) /\ Len(v) = Len(s) /\ \A n \in 1..Len(s) : v[n] = s[n]
              /\ w \in Seq(Component) /\ Len(w) = Len(s) /\ \A n \in 1..Len(s) : w[n] = u[n]
            BY <3>1, SubSeqProperties
        <3> HIDE DEF v, w
        <3>3. v = w
            BY <3>2, <1>7, SeqEqual
        <3> QED BY <3>3 DEF v, w
    <2> QED BY <2>1, <2>2 DEF IsStrictPrefix, IsPrefix
<1> QED BY <1>4, <1>6, <1>9, <1>10 DEF name
(* What the calls of an entry are. *)
LEMMA EntryCalls ==
    ASSUME TypeOK, NEW j \in 1..Len(archive), NEW s \in 1..Steps(j)
    PROVE  /\ Steps(j) \in Nat \ {0}
           /\ s = Steps(j) => EntryCall(j, s) = CreateCall(archive[j].name)
           /\ \A m \in Nat : m = (s - 1) \div 2 /\ s < Steps(j) =>
                 /\ m + 1 < Len(archive[j].name)
                 /\ EntryCall(j, s).method = IF s % 2 = 1 THEN "mkdir" ELSE "walk"
                 /\ EntryCall(j, s).on = IF s <= 2 THEN "root" ELSE "dir"
                 /\ EntryCall(j, s).name = <<archive[j].name[m + 1]>>
           /\ EntryCall(j, s) \in Call
<1> DEFINE name == archive[j].name
           L == Len(name)
<1>1. name \in Seq(Component) /\ L \in Nat \ {0}
    BY EntryFacts
<1> HIDE DEF name
<1>2. Steps(j) = 2 * L - 1 /\ Steps(j) \in Nat \ {0}
    BY <1>1 DEF Steps, name
<1> HIDE DEF L
<1>3. CASE s = Steps(j)
    <2>1. EntryCall(j, s) = CreateCall(name)
        BY <1>2, <1>3 DEF EntryCall, name
    <2>2. CreateCall(name) \in Call
        BY <1>1 DEF CreateCall, Call
    <2> QED BY <2>1, <2>2, <1>2, <1>3 DEF name
<1>4. CASE s < Steps(j)
    <2>1. s \in 1..(2 * (L - 1))
        BY <1>1, <1>2, <1>4
    <2> DEFINE c == EntryCall(j, s)
               m == (s - 1) \div 2
    <2>2. m \in Nat /\ m + 1 < L /\ (s + 1) \div 2 = m + 1
        BY <2>1, <1>1
    <2> HIDE DEF m
    <2>3. c = [method |-> IF s % 2 = 1 THEN "mkdir" ELSE "walk",
               on     |-> IF s <= 2 THEN "root" ELSE "dir",
               name   |-> <<name[(s + 1) \div 2]>>]
        BY <2>1, <1>4 DEF EntryCall, ParentCalls, name, L
    <2>4. c.name = <<name[m + 1]>>
        BY <2>2, <2>3
    <2>5. c.name \in Seq(Component)
        <3>1. name[m + 1] \in Component
            BY <1>1, <2>2, ElementOfSeq DEF L
        <3> QED BY <3>1, <2>4
    <2>6. c \in Call
        <3>1. c.method \in {"mkdir", "walk"} /\ c.on \in {"root", "dir"}
            BY <2>3
        <3>2. c = [method |-> c.method, on |-> c.on, name |-> c.name]
            BY <2>3
        <3> HIDE DEF c
        <3> QED BY <3>1, <3>2, <2>5 DEF Call
    <2> QED BY <2>2, <2>3, <2>4, <2>6, <1>2, <1>4 DEF name, L, m
<1> QED BY <1>2, <1>3, <1>4

(* A call that the server accepts is about a child of the node it is on. *)
LEMMA ChildOfBase ==
    ASSUME TypeOK, NEW call, call.name \in Seq(Component), IsDir(call)
    PROVE  /\ Len(call.name) = 1 /\ call.name[1] \in Segment
           /\ Base(call) \in Path
           /\ Target(call) = Append(Base(call), call.name[1]) /\ Target(call) \in Path
<1>1. validFileName(call.name) /\ Base(call) # Broken
    BY Zenon DEF IsDir
<1>2. Len(call.name) = 1
    BY <1>1, Zenon DEF validFileName
<1>3. call.name \in Name
    <2>1. call.name = <<call.name[1]>> /\ call.name[1] \in Component
        BY <1>2, ElementOfSeq
    <2>2. call.name \in {<<c>> : c \in Component}
        BY <2>1
    <2> QED BY <2>2, SMT DEF Name
<1>4. Base(call) \in Path
    BY <1>1, ServerAssumption DEF Base, TypeOK
<1>5. call.name[1] \in Segment /\ Target(call) = Append(Base(call), call.name[1])
    BY <1>1, <1>3, <1>4, JoinValidName DEF Target
<1> QED BY <1>2, <1>4, <1>5, PrefixOfChild
(***************************************************************************)
(* The call that comes first in the queue, if it is the s-th of entry j,   *)
(* is made where the calls before it have led.                             *)
(***************************************************************************)
HeadIs(call, j, s) ==
    /\ j \in 1..Len(archive) /\ j <= i /\ ~archive[j].isDir /\ s \in 1..Steps(j)
    /\ call = EntryCall(j, s)
    /\ s >= 3 => dir \in {Broken, Way(j, (s - 1) \div 2)}

LEMMA WhereParentCallsLead ==
    ASSUME TypeOK, NEW call, NEW j, NEW s, HeadIs(call, j, s), s < Steps(j), IsDir(call)
    PROVE  /\ Target(call) = Way(j, (s + 1) \div 2) /\ Target(call) \in Path
           /\ IsStrictPrefix(Target(call), Named(j))
<1> DEFINE m == (s - 1) \div 2
<1>1. /\ j \in 1..Len(archive) /\ s \in 1..Steps(j) /\ s < Steps(j)
      /\ Len(archive[j].name) \in Nat
      /\ call \in Call /\ call = EntryCall(j, s)
    BY EntryCalls, EntryFacts DEF HeadIs
<1>2. m \in Nat /\ (s >= 3 <=> m # 0) /\ (s + 1) \div 2 = m + 1
    BY <1>1
<1>3. /\ m + 1 < Len(archive[j].name)
      /\ call.on = IF s <= 2 THEN "root" ELSE "dir"
      /\ call.name = <<archive[j].name[m + 1]>>
    BY <1>1, <1>2, EntryCalls
<1>4. call.name \in Seq(Component)
    <2>1. archive[j].name[m + 1] \in Component
        BY <1>1, <1>2, <1>3, EntryFacts, ElementOfSeq
    <2> QED BY <2>1, <1>3
<1>5. m \in 0..(Len(archive[j].name) - 1) /\ m + 1 \in 0..(Len(archive[j].name) - 1)
    BY <1>1, <1>2, <1>3
<1>6. Base(call) = Way(j, m)
    <2>1. CASE s <= 2
        BY <2>1, <1>1, <1>2, <1>3, <1>5, WayFacts DEF Base
    <2>2. CASE s >= 3
        <3>1. call.on = "dir"
            BY <2>2, <1>1, <1>3
        <3>2. Base(call) = dir /\ dir # Broken
            BY <3>1, Zenon DEF Base, IsDir
        <3> QED BY <3>2, <2>2, Zenon DEF HeadIs
    <2> QED BY <2>1, <2>2, <1>1
<1>7. Target(call) = Append(Base(call), call.name[1]) /\ Target(call) \in Path
    BY <1>4, ChildOfBase
<1>8. call.name[1] = archive[j].name[m + 1]
    BY <1>3
<1> HIDE DEF m
<1>9. Target(call) = Way(j, m + 1)
    BY <1>1, <1>5, <1>6, <1>7, <1>8, WayFacts
<1>10. IsStrictPrefix(Way(j, m + 1), Named(j))
    BY <1>1, <1>5, WayFacts
<1> QED BY <1>2, <1>7, <1>9, <1>10

LEMMA WhereCreateLeads ==
    ASSUME TypeOK, NEW call, NEW j, NEW s, HeadIs(call, j, s), s = Steps(j), IsDir(call)
    PROVE  Target(call) = Named(j) /\ Target(call) \in Path
<1>1. /\ j \in 1..Len(archive) /\ s \in 1..Steps(j)
      /\ call = EntryCall(j, s)
    BY DEF HeadIs
<1>2. call = CreateCall(archive[j].name)
    BY <1>1, EntryCalls
<1>3. /\ call.name = archive[j].name
      /\ call.on = IF Len(archive[j].name) > 1 THEN "dir" ELSE "root"
    BY <1>2 DEF CreateCall
<1>4. /\ Len(call.name) = 1 /\ Target(call) = Append(Base(call), call.name[1])
      /\ Target(call) \in Path
    BY <1>1, <1>3, EntryFacts, ChildOfBase
<1>5. Base(call) = Root
    BY <1>3, <1>4 DEF Base
<1>6. Append(Root, call.name[1]) = Named(j)
    <2>1. call.name = <<call.name[1]>> /\ call.name[1] \in Component
        BY <1>1, <1>3, <1>4, EntryFacts, ElementOfSeq
    <2>2. Root \in Seq(Component)
        BY ServerAssumption, SeqMonotonic DEF Path, Component
    <2>3. Append(Root, call.name[1]) = Root \o <<call.name[1]>>
        BY <2>1, <2>2, AppendIsConcat
    <2> QED BY <2>1, <2>3, <1>3 DEF Named
<1> QED BY <1>4, <1>5, <1>6
-----------------------------------------------------------------------------
(***************************************************************************)
(* A prefix is what something was appended to.                             *)
(***************************************************************************)
LEMMA PrefixOfConcat ==
    ASSUME NEW S, NEW s \in Seq(S), NEW t \in Seq(S)
    PROVE  IsPrefix(s, s \o t)
<1> DEFINE u == s \o t
           v == SubSeq(s, 1, Len(s))
           w == SubSeq(u, 1, Len(s))
<1>1. /\ Len(s) \in Nat /\ Len(t) \in Nat
      /\ u \in Seq(S) /\ Len(u) = Len(s) + Len(t)
      /\ \A n \in 1..Len(s) : u[n] = s[n]
    BY ConcatProperties, LenProperties
<1>2. \A n \in 1..Len(s) : s[n] \in S /\ u[n] \in S
    BY <1>1, ElementOfSeq
<1> HIDE DEF u
<1>3. /\ v \in Seq(S) /\ Len(v) = Len(s) /\ \A n \in 1..Len(s) : v[n] = s[n]
      /\ w \in Seq(S) /\ Len(w) = Len(s) /\ \A n \in 1..Len(s) : w[n] = u[n]
    BY <1>1, <1>2, SubSeqProperties
<1> HIDE DEF v, w
<1>4. v = w
    BY <1>1, <1>3, SeqEqual
<1> QED BY <1>1, <1>4 DEF IsPrefix, u, v, w

LEMMA PrefixIsConcat ==
    ASSUME NEW S, NEW s \in Seq(S), NEW t \in Seq(S), IsPrefix(s, t)
    PROVE  \E u \in Seq(S) : t = s \o u
<1> DEFINE u == SubSeq(t, Len(s) + 1, Len(t))
<1>1. Len(s) \in Nat /\ Len(t) \in Nat /\ Len(s) <= Len(t)
    BY LenProperties DEF IsPrefix
<1>2. SubSeq(t, 1, Len(s)) = s
    BY SubSeqFull DEF IsPrefix
<1>3. u \in Seq(S)
    <2>1. \A n \in (Len(s) + 1)..Len(t) : t[n] \in S
        BY <1>1, ElementOfSeq
    <2> QED BY <2>1, <1>1, SubSeqProperties
<1>4. SubSeq(t, 1, Len(s)) \o SubSeq(t, Len(s) + 1, Len(t)) = SubSeq(t, 1, Len(t))
    <2> DEFINE k == Len(s)
               n == Len(t)
    <2>1. 1 \in 1..(Len(t) + 1) /\ k \in (1 - 1)..Len(t) /\ n \in k..Len(t)
        BY <1>1
    <2> HIDE DEF k, n, u
    <2>2. SubSeq(t, 1, k) \o SubSeq(t, k + 1, n) = SubSeq(t, 1, n)
        BY ONLY t \in Seq(S), <2>1, ConcatAdjacentSubSeq
    <2> QED BY <2>2 DEF k, n
<1>5. SubSeq(t, 1, Len(t)) = t
    BY SubSeqFull
<1> QED BY <1>2, <1>3, <1>4, <1>5

LEMMA DataPrefixTransitive ==
    ASSUME NEW S, NEW s \in Seq(S), NEW t \in Seq(S), NEW u \in Seq(S),
           IsPrefix(s, t), IsPrefix(t, u)
    PROVE  IsPrefix(s, u)
<1>1. PICK v \in Seq(S) : t = s \o v
    BY PrefixIsConcat
<1>2. PICK w \in Seq(S) : u = t \o w
    BY PrefixIsConcat
<1>3. u = s \o (v \o w) /\ v \o w \in Seq(S)
    BY <1>1, <1>2, ConcatAssociative, ConcatProperties
<1> QED BY <1>3, PrefixOfConcat

LEMMA DataPrefixReflexive ==
    ASSUME NEW S, NEW s \in Seq(S)
    PROVE  IsPrefix(s, s)
BY LenProperties DEF IsPrefix

(* What the first entries put into a file stays its beginning. *)
LEMMA ContentsGrow ==
    ASSUME TypeOK, OldOK, NEW p,
           NEW m \in 0..Len(archive), NEW n \in 0..Len(archive), m <= n
    PROVE  IsPrefix(Contents(p, m), Contents(p, n))
<1> DEFINE T == {k \in m..Len(archive) : ~IsPrefix(Contents(p, m), Contents(p, k))}
<1>1. SUFFICES ASSUME T # {} PROVE FALSE
    BY ArchiveType
<1>2. PICK k \in T : \A j \in T : k <= j
    <2>1. T \in SUBSET Nat
        OBVIOUS
    <2> HIDE DEF T
    <2> QED BY <1>1, <2>1, LeastNumber, Zenon
<1>3. k # m
    <2>1. IsPrefix(Contents(p, m), Contents(p, m))
        BY ContentsType, DataPrefixReflexive
    <2> QED BY <2>1, <1>2
<1>4. k - 1 \in m..Len(archive) /\ k \in 1..Len(archive) /\ k - 1 \in 0..Len(archive)
      /\ k \in 0..Len(archive)
    BY <1>2, <1>3, ArchiveType
<1>5. IsPrefix(Contents(p, m), Contents(p, k - 1))
    BY <1>2, <1>4
<1>6. IsPrefix(Contents(p, k - 1), Contents(p, k))
    BY <1>4, ContentsStep, PieceType, PrefixOfConcat
<1>7. IsPrefix(Contents(p, m), Contents(p, k))
    BY <1>4, <1>5, <1>6, ContentsType, DataPrefixTransitive
<1> QED BY <1>2, <1>7
-----------------------------------------------------------------------------
(***************************************************************************)
(* What the server does with the call that comes first.                    *)
(***************************************************************************)
LEMMA FirstCall ==
    ASSUME NEW j, NEW s \in Nat, IsCall(1, j, s)
    PROVE  HeadIs(queue[1], j, s)
<1>1. s - (1 - 1) = s /\ s >= 1 /\ 1 \in 1..1
    BY DEF IsCall
<1>2. queue[1] = EntryCall(j, s)
    BY <1>1 DEF IsCall
<1> QED BY <1>2 DEF IsCall, HeadIs

LEMMA HeadOfQueue ==
    ASSUME TypeOK, QueueOK, queue # <<>>
    PROVE  /\ Len(queue) \in Nat \ {0} /\ Head(queue) = queue[1]
           /\ IsWrite(1) \/ \E j, s \in Nat : IsCall(1, j, s) /\ HeadIs(queue[1], j, s)
<1>1. Len(queue) \in Nat \ {0} /\ Head(queue) = queue[1]
    BY EmptySeq DEF TypeOK
<1>2. IsWrite(1) \/ \E j, s \in Nat : IsCall(1, j, s)
    BY <1>1 DEF QueueOK
<1> QED BY <1>1, <1>2, FirstCall

LEMMA MethodOfHead ==
    ASSUME TypeOK, NEW call, NEW j, NEW s, HeadIs(call, j, s)
    PROVE  /\ s \in Nat /\ j \in Nat /\ Steps(j) \in Nat
           /\ call.method = IF s = Steps(j) THEN "create"
                            ELSE IF s % 2 = 1 THEN "mkdir" ELSE "walk"
           /\ call.name \in Seq(Component)
<1>1. /\ j \in 1..Len(archive) /\ s \in 1..Steps(j) /\ call = EntryCall(j, s)
      /\ Steps(j) \in Nat \ {0}
    BY EntryCalls DEF HeadIs
<1>2. CASE s = Steps(j)
    <2>1. call = CreateCall(archive[j].name)
        BY <1>1, <1>2, EntryCalls
    <2> QED BY <2>1, <1>1, <1>2, EntryFacts DEF CreateCall
<1>3. CASE s # Steps(j)
    <2>1. s < Steps(j) /\ (s - 1) \div 2 \in Nat
        BY <1>1, <1>3
    <2> DEFINE m == (s - 1) \div 2
    <2> HIDE DEF m
    <2>2. /\ m + 1 < Len(archive[j].name) /\ m \in Nat
          /\ call.method = IF s % 2 = 1 THEN "mkdir" ELSE "walk"
          /\ call.name = <<archive[j].name[m + 1]>>
        BY <2>1, <1>1, EntryCalls DEF m
    <2>3. archive[j].name[m + 1] \in Component
        BY <1>1, <2>2, EntryFacts, ElementOfSeq
    <2> QED BY <1>1, <1>3, <2>2, <2>3
<1> QED BY <1>2, <1>3

(* A new node, where an entry that the upload has come to leads. *)
Adds(p, d) ==
    /\ p \in Path \ DOMAIN tree
    /\ tree' = WithNode(p, [dir |-> d, w |-> TRUE, data |-> <<>>])
    /\ \E j \in 1..Len(archive) :
          /\ j <= i /\ ~archive[j].isDir
          /\ IF d THEN IsStrictPrefix(p, Named(j)) ELSE p = Named(j)

LEMMA MkdirAdds ==
    ASSUME TypeOK, QueueOK, queue # <<>>, Mkdir(Head(queue))
    PROVE  /\ tree' = tree \/ \E p : Adds(p, TRUE)
           /\ \E j, s \in Nat : IsCall(1, j, s) /\ s % 2 = 1 /\ s < Steps(j)
<1> DEFINE call == Head(queue)
<1>1. call.method = "mkdir" /\ call = queue[1]
    BY HeadOfQueue DEF Mkdir
<1>2. PICK j \in Nat, s \in Nat : IsCall(1, j, s) /\ HeadIs(call, j, s)
    <2>1. ~IsWrite(1)
        BY <1>1 DEF IsWrite
    <2> QED BY <2>1, <1>1, HeadOfQueue
<1>3. s % 2 = 1 /\ s < Steps(j)
    <2>1. s # Steps(j) /\ s % 2 = 1
        BY <1>1, <1>2, MethodOfHead
    <2>2. s \in 1..Steps(j) /\ Steps(j) \in Nat
        BY <1>2, MethodOfHead DEF HeadIs
    <2> QED BY <2>1, <2>2
<1>4. CASE MayAdd(call)
    <2>1. IsDir(call) /\ Target(call) \notin DOMAIN tree
        BY <1>4 DEF MayAdd
    <2>2. Target(call) \in Path /\ IsStrictPrefix(Target(call), Named(j))
        BY <2>1, <1>2, <1>3, WhereParentCallsLead
    <2>3. tree' = WithNode(Target(call), [dir |-> TRUE, w |-> TRUE, data |-> <<>>])
        BY <1>4 DEF Mkdir
    <2>4. Adds(Target(call), TRUE)
        BY <2>1, <2>2, <2>3, <1>2 DEF Adds, HeadIs
    <2> QED BY <2>4, <1>2, <1>3
<1>5. CASE ~MayAdd(call)
    BY <1>5, <1>2, <1>3 DEF Mkdir
<1> QED BY <1>4, <1>5

LEMMA CreateAdds ==
    ASSUME TypeOK, QueueOK, queue # <<>>, Create(Head(queue))
    PROVE  /\ tree' = tree \/ \E p : Adds(p, FALSE)
           /\ file' # Broken => file' \in DOMAIN tree' /\ ~tree'[file'].dir
           /\ \A j \in Nat : IsCall(1, j, Steps(j)) => file' \in {Broken, Named(j)}
<1> DEFINE call == Head(queue)
<1>1. call.method = "create" /\ call = queue[1]
    BY HeadOfQueue DEF Create
<1>2. PICK j \in Nat, s \in Nat : IsCall(1, j, s) /\ HeadIs(call, j, s)
    <2>1. ~IsWrite(1)
        BY <1>1 DEF IsWrite
    <2> QED BY <2>1, <1>1, HeadOfQueue
<1>3. s = Steps(j)
    BY <1>1, <1>2, MethodOfHead
<1>4. ASSUME IsDir(call)
      PROVE  Target(call) = Named(j) /\ Target(call) \in Path
    BY <1>2, <1>3, <1>4, WhereCreateLeads
<1> DEFINE Leads == \A k \in Nat : IsCall(1, k, Steps(k)) => file' \in {Broken, Named(k)}
<1> HIDE DEF Leads
<1>5. ASSUME file' = Target(call), IsDir(call)
      PROVE  Leads
    <2>1. ASSUME NEW k \in Nat, IsCall(1, k, Steps(k))
          PROVE  file' = Named(k)
        <3>1. Steps(k) \in Nat
            BY <2>1, EntryFacts DEF IsCall, Steps
        <3>2. HeadIs(call, k, Steps(k))
            BY <2>1, <3>1, <1>1, FirstCall
        <3> QED BY <3>2, <1>5, WhereCreateLeads
    <2> QED BY <2>1 DEF Leads
<1>6. file' = Broken => Leads
    BY DEF Leads
<1>7. CASE MayAdd(call)
    <2>1. IsDir(call) /\ Target(call) \notin DOMAIN tree
        BY <1>7 DEF MayAdd
    <2>2. /\ tree' = WithNode(Target(call), [dir |-> FALSE, w |-> TRUE, data |-> <<>>])
          /\ file' = Target(call)
        BY <1>7 DEF Create
    <2>3. Adds(Target(call), FALSE)
        BY <2>1, <2>2, <1>4, <1>2 DEF Adds, HeadIs
    <2>4. file' \in DOMAIN tree' /\ tree'[file'].dir = FALSE
        BY <2>2 DEF WithNode
    <2> QED BY <2>1, <2>2, <2>3, <2>4, <1>5 DEF Leads
<1>8. CASE ~MayAdd(call) /\ OpenOld(call)
    <2>1. tree' = tree /\ file' = Target(call) /\ IsDir(call)
          /\ Target(call) \in DOMAIN tree /\ ~tree[Target(call)].dir
        BY <1>8 DEF Create, OpenOld
    <2> QED BY <2>1, <1>5 DEF Leads
<1>9. CASE ~MayAdd(call) /\ ~OpenOld(call)
    BY <1>9, <1>6 DEF Create, Leads
<1> QED BY <1>7, <1>8, <1>9

LEMMA WalkLeads ==
    ASSUME TypeOK, QueueOK, queue # <<>>, Walk(Head(queue))
    PROVE  /\ dir' \in DOMAIN tree \cup {Broken}
           /\ \E j, s \in Nat : /\ IsCall(1, j, s) /\ s % 2 = 0 /\ s < Steps(j)
                                /\ dir' \in {Broken, Way(j, s \div 2)}
<1> DEFINE call == Head(queue)
<1>1. call.method = "walk" /\ call = queue[1]
    BY HeadOfQueue DEF Walk
<1>2. PICK j \in Nat, s \in Nat : IsCall(1, j, s) /\ HeadIs(call, j, s)
    <2>1. ~IsWrite(1)
        BY <1>1 DEF IsWrite
    <2> QED BY <2>1, <1>1, HeadOfQueue
<1>3. s % 2 = 0 /\ s < Steps(j) /\ (s + 1) \div 2 = s \div 2
    <2>1. s # Steps(j) /\ s % 2 # 1
        BY <1>1, <1>2, MethodOfHead
    <2>2. s \in 1..Steps(j) /\ Steps(j) \in Nat
        BY <1>2, MethodOfHead DEF HeadIs
    <2> QED BY <2>1, <2>2
<1>4. CASE IsDir(call) /\ Target(call) \in DOMAIN tree
    <2>1. Target(call) = Way(j, (s + 1) \div 2)
        BY <1>2, <1>3, <1>4, WhereParentCallsLead
    <2> QED BY <2>1, <1>2, <1>3, <1>4 DEF Walk
<1>5. CASE ~(IsDir(call) /\ Target(call) \in DOMAIN tree)
    BY <1>5, <1>2, <1>3 DEF Walk
<1> QED BY <1>4, <1>5

LEMMA WriteAppends ==
    ASSUME TypeOK, QueueOK, queue # <<>>, Write(Head(queue))
    PROVE  /\ IsWrite(1) /\ Tail(queue) = <<>>
           /\ UNCHANGED <<dir, file>>
           /\ \/ tree' = tree /\ reply' = "error" /\ file = Broken
              \/ /\ file \in DOMAIN tree /\ reply' = "ok"
                 /\ tree' = [tree EXCEPT ![file].data = Append(@, <<i, sent>>)]
<1> DEFINE call == Head(queue)
<1>1. call.method = "write" /\ call = queue[1]
    BY HeadOfQueue DEF Write
<1>2. IsWrite(1)
    <2>1. SUFFICES ASSUME NEW j \in Nat, NEW s \in Nat, HeadIs(call, j, s)
                   PROVE  FALSE
        BY <1>1, HeadOfQueue
    <2> QED BY <2>1, <1>1, MethodOfHead
<1>3. Tail(queue) = <<>>
    <2>1. Len(queue) = 1 /\ queue \in Seq(Call)
        BY <1>2 DEF IsWrite, TypeOK
    <2>2. Tail(queue) \in Seq(Call) /\ Len(Tail(queue)) = 0
        BY <2>1, EmptySeq, HeadTailProperties
    <2> QED BY <2>2, EmptySeq
<1>4. call.chunk = <<i, sent>>
    BY <1>1, <1>2 DEF IsWrite
<1>5. CASE file = Broken
    BY <1>2, <1>3, <1>5 DEF Write
<1>6. CASE file # Broken
    <2>1. file \in DOMAIN tree
        BY <1>6 DEF TypeOK
    <2> QED BY <1>2, <1>3, <1>4, <1>6, <2>1 DEF Write
<1> QED BY <1>5, <1>6
-----------------------------------------------------------------------------
(***************************************************************************)
(* What the uploader sends for an entry.                                   *)
(***************************************************************************)
LEMMA SentCalls ==
    ASSUME TypeOK, NEW j \in 1..Len(archive)
    PROVE  LET parents == ParentCalls(archive[j].name)
               all     == Append(parents, CreateCall(archive[j].name))
           IN  /\ parents \in Seq(Call) /\ Len(parents) = Steps(j) - 1
               /\ \A s \in 1..Len(parents) : parents[s] = EntryCall(j, s)
               /\ all \in Seq(Call) /\ Len(all) = Steps(j)
               /\ \A s \in 1..Len(all) : all[s] = EntryCall(j, s)
<1> DEFINE parents == ParentCalls(archive[j].name)
           create  == CreateCall(archive[j].name)
           all     == Append(parents, create)
           L       == Len(archive[j].name)
           n       == 2 * (L - 1)
<1>1. L \in Nat \ {0} /\ n \in Nat /\ Steps(j) = n + 1
    BY EntryFacts DEF Steps
<1>2. \A s \in 1..n : s \in 1..Steps(j) /\ parents[s] = EntryCall(j, s)
    BY <1>1 DEF ParentCalls, EntryCall
<1>3. \A s \in 1..n : EntryCall(j, s) \in Call
    BY <1>2, EntryCalls
<1>4. parents \in Seq(Call) /\ Len(parents) = n
    <2> DEFINE e(s) == parents[s]
    <2>1. \A s \in 1..n : e(s) \in Call
        BY <1>2, <1>3
    <2>2. parents = [s \in 1..n |-> e(s)]
        BY DEF ParentCalls
    <2> HIDE DEF e, n
    <2>3. [s \in 1..n |-> e(s)] \in Seq(Call) /\ Len([s \in 1..n |-> e(s)]) = n
        BY <1>1, <2>1, IsASeq
    <2> QED BY <2>2, <2>3
<1>5. create \in Call /\ create = EntryCall(j, n + 1)
    <2>1. n + 1 \in 1..Steps(j) /\ ~(n + 1 < Steps(j))
        BY <1>1
    <2>2. create = EntryCall(j, n + 1)
        BY <2>1 DEF EntryCall
    <2> QED BY <2>1, <2>2, EntryCalls
<1> HIDE DEF parents, create, n
<1>6. /\ all \in Seq(Call) /\ Len(all) = n + 1
      /\ \A s \in 1..n : all[s] = parents[s]
      /\ all[n + 1] = create
    BY <1>4, <1>5, AppendProperties
<1> HIDE DEF all
<1>7. \A s \in 1..Len(all) : all[s] = EntryCall(j, s)
    <2>1. \A s \in 1..Len(all) : s \in 1..n \/ s = n + 1
        BY <1>1, <1>6
    <2> QED BY <2>1, <1>2, <1>5, <1>6
<1>8. /\ parents \in Seq(Call) /\ Len(parents) = Steps(j) - 1
      /\ \A s \in 1..Len(parents) : parents[s] = EntryCall(j, s)
      /\ all \in Seq(Call) /\ Len(all) = Steps(j)
      /\ \A s \in 1..Len(all) : all[s] = EntryCall(j, s)
    BY <1>1, <1>2, <1>4, <1>6, <1>7
<1> QED BY <1>8 DEF parents, all, create

LEMMA SendFacts ==
    ASSUME TypeOK, NEW calls \in Seq(Call), Send(calls)
    PROVE  /\ queue' \in Seq(Call)
           /\ conn # "up" => queue' = queue
           /\ conn = "up" =>
                 /\ Len(queue) \in Nat /\ Len(queue') = Len(queue) + Len(calls)
                 /\ \A q \in 1..Len(queue) : queue'[q] = queue[q]
                 /\ \A k \in 1..Len(calls) : queue'[Len(queue) + k] = calls[k]
<1>1. queue \in Seq(Call)
    BY DEF TypeOK
<1>2. CASE conn = "up"
    <2>1. queue' = queue \o calls
        BY <1>2 DEF Send
    <2>2. Len(queue) \in Nat /\ Len(calls) \in Nat
        BY <1>1, LenProperties
    <2>3. /\ queue' \in Seq(Call) /\ Len(queue') = Len(queue) + Len(calls)
          /\ \A q \in 1..(Len(queue) + Len(calls)) :
                queue'[q] = IF q <= Len(queue) THEN queue[q] ELSE calls[q - Len(queue)]
        BY <2>1, <1>1, ConcatProperties
    <2>4. \A k \in 1..Len(calls) : queue'[Len(queue) + k] = calls[k]
        <3> TAKE k \in 1..Len(calls)
        <3>1. /\ Len(queue) + k \in 1..(Len(queue) + Len(calls))
              /\ ~(Len(queue) + k <= Len(queue)) /\ (Len(queue) + k) - Len(queue) = k
            BY <2>2
        <3> QED BY <2>3, <3>1
    <2>5. \A q \in 1..Len(queue) : queue'[q] = queue[q]
        BY <2>2, <2>3
    <2> QED BY <1>2, <2>2, <2>3, <2>4, <2>5
<1>3. CASE conn # "up"
    BY <1>1, <1>3 DEF Send
<1> QED BY <1>2, <1>3

LEMMA AddsFacts ==
    ASSUME TypeOK, NEW p, NEW d \in BOOLEAN, Adds(p, d)
    PROVE  /\ DOMAIN tree' = DOMAIN tree \cup {p} /\ p \in Path \ DOMAIN tree
           /\ tree'[p] = [dir |-> d, w |-> TRUE, data |-> <<>>]
           /\ \A q \in DOMAIN tree : tree'[q] = tree[q]
           /\ DOMAIN tree' \subseteq Path /\ tree' \in [DOMAIN tree' -> Inode]
<1> DEFINE node == [dir |-> d, w |-> TRUE, data |-> <<>>]
<1>1. node \in Inode
    BY EmptySeq DEF Inode
<1> HIDE DEF node
<1>2. p \in Path \ DOMAIN tree /\ tree' = WithNode(p, node)
    BY DEF Adds, node
<1>3. DOMAIN tree \subseteq Path /\ \A q \in DOMAIN tree : tree[q] \in Inode
    BY DEF TypeOK
<1>4. /\ DOMAIN tree' = DOMAIN tree \cup {p} /\ tree'[p] = node
      /\ \A q \in DOMAIN tree : tree'[q] = tree[q]
    BY <1>2 DEF WithNode
<1>5. tree' = [q \in DOMAIN tree' |-> tree'[q]]
    BY <1>2 DEF WithNode
<1>6. tree' \in [DOMAIN tree' -> Inode]
    BY <1>1, <1>3, <1>4, <1>5
<1> QED BY <1>2, <1>3, <1>4, <1>6 DEF node

(* What handling a call leaves alone. *)
LEMMA HandleFrame ==
    ASSUME Handle
    PROVE  /\ queue # <<>> /\ queue' = Tail(queue)
           /\ UNCHANGED <<conn, archive, i, sent, pc, status, old, uploads>>
BY DEF Handle, client
-----------------------------------------------------------------------------
(***************************************************************************)
(* Types.                                                                  *)
(***************************************************************************)
LEMMA TypeInit == Init => TypeOK /\ OldOK
<1> SUFFICES ASSUME Init PROVE TypeOK /\ OldOK
    OBVIOUS
<1>1. DOMAIN tree \subseteq Path /\ tree \in [DOMAIN tree -> Inode] /\ old = tree
    BY ServerAssumption DEF Init
<1>2. Len(<<>>) = 0 /\ queue \in Seq(Call)
    BY EmptySeq DEF Init
<1> QED BY <1>1, <1>2, ResultAssumption DEF Init, TypeOK, OldOK

LEMMA TypeOfHandle ==
    ASSUME TypeOK, QueueOK, Handle
    PROVE  TypeOK'
<1>1. queue' \in Seq(Call)
    BY HandleFrame, HeadTailProperties DEF TypeOK
<1> DEFINE ServerType ==
               /\ DOMAIN tree \subseteq Path /\ tree \in [DOMAIN tree -> Inode]
               /\ dir \in DOMAIN tree \cup {Broken}
               /\ file \in {p \in DOMAIN tree : ~tree[p].dir} \cup {Broken}
               /\ reply \in {NoReply, "ok", "error"}
<1> SUFFICES ServerType'
    BY <1>1, HandleFrame DEF TypeOK
<1>2. ServerType
    BY DEF TypeOK
<1>3. ASSUME NEW p, NEW d \in BOOLEAN, Adds(p, d)
      PROVE  /\ DOMAIN tree' \subseteq Path /\ tree' \in [DOMAIN tree' -> Inode]
             /\ dir \in DOMAIN tree' \cup {Broken}
             /\ file \in {q \in DOMAIN tree' : ~tree'[q].dir} \cup {Broken}
    BY <1>3, <1>2, AddsFacts
<1>4. CASE Mkdir(Head(queue))
    <2>1. UNCHANGED <<dir, file, reply>>
        BY <1>4 DEF Mkdir
    <2>2. CASE tree' = tree
        BY <1>2, <2>1, <2>2
    <2>3. CASE \E p : Adds(p, TRUE)
        BY <1>2, <1>3, <2>1, <2>3
    <2> QED BY <1>4, <2>2, <2>3, HandleFrame, MkdirAdds
<1>5. CASE Walk(Head(queue))
    <2>1. UNCHANGED <<tree, file, reply>>
        BY <1>5 DEF Walk
    <2> QED BY <1>2, <1>5, <2>1, HandleFrame, WalkLeads
<1>6. CASE Create(Head(queue))
    <2>1. UNCHANGED <<dir, reply>>
        BY <1>6 DEF Create
    <2>2. file' \in {q \in DOMAIN tree' : ~tree'[q].dir} \cup {Broken}
        BY <1>6, HandleFrame, CreateAdds
    <2>3. CASE tree' = tree
        BY <1>2, <2>1, <2>2, <2>3
    <2>4. CASE \E p : Adds(p, FALSE)
        BY <1>2, <1>3, <2>1, <2>2, <2>4
    <2> QED BY <1>6, <2>3, <2>4, HandleFrame, CreateAdds
<1>7. CASE Write(Head(queue))
    <2>1. UNCHANGED <<dir, file>>
        BY <1>7, HandleFrame, WriteAppends
    <2>2. CASE tree' = tree /\ reply' = "error"
        BY <1>2, <2>1, <2>2
    <2>3. CASE /\ file \in DOMAIN tree /\ reply' = "ok"
               /\ tree' = [tree EXCEPT ![file].data = Append(@, <<i, sent>>)]
        <3>1. <<i, sent>> \in Nat \X Nat
            BY ArchiveType DEF TypeOK
        <3>2. Append(tree[file].data, <<i, sent>>) \in Seq(Nat \X Nat)
            BY <1>2, <2>3, <3>1, AppendProperties DEF Inode
        <3>3. /\ DOMAIN tree' = DOMAIN tree
              /\ tree'[file] = [tree[file] EXCEPT !.data = Append(@, <<i, sent>>)]
              /\ \A q \in DOMAIN tree : q # file => tree'[q] = tree[q]
              /\ tree' = [q \in DOMAIN tree |-> tree'[q]]
            BY <2>3
        <3>4. tree'[file] \in Inode /\ tree'[file].dir = tree[file].dir
            <4> DEFINE n == tree[file]
                       x == Append(n.data, <<i, sent>>)
            <4>1. n \in Inode /\ x \in Seq(Nat \X Nat) /\ tree'[file] = [n EXCEPT !.data = x]
                BY <1>2, <2>3, <3>2, <3>3
            <4> HIDE DEF n, x
            <4>2. tree'[file] \in Inode /\ tree'[file].dir = n.dir
                BY <4>1 DEF Inode
            <4> QED BY <4>2 DEF n
        <3>5. tree' \in [DOMAIN tree' -> Inode]
            BY <1>2, <3>3, <3>4
        <3>6. ~tree'[file].dir
            BY <1>2, <2>3, <3>4, ServerAssumption, ResultAssumption
        <3> QED BY <1>2, <2>1, <2>3, <3>3, <3>5, <3>6
    <2> QED BY <1>7, <2>2, <2>3, HandleFrame, WriteAppends
<1> QED BY <1>4, <1>5, <1>6, <1>7 DEF Handle
LEMMA TypeOfUploader ==
    ASSUME TypeOK, uploader
    PROVE  TypeOK'
<1> DEFINE ServerType ==
               /\ DOMAIN tree \subseteq Path /\ tree \in [DOMAIN tree -> Inode]
               /\ dir \in DOMAIN tree \cup {Broken}
               /\ file \in {p \in DOMAIN tree : ~tree[p].dir} \cup {Broken}
           ClientType ==
               /\ archive \in Archives \cup {<<>>}
               /\ i \in 1..(Len(archive) + 1) /\ sent \in Nat
               /\ pc \in {"idle", "entry", "copy", "wait"}
               /\ pc \in {"copy", "wait"} => i <= Len(archive) /\ sent <= archive[i].chunks
               /\ status \in {"none", "303", "400", "500"} /\ uploads \in 0..MaxUploads
           LinkType ==
               queue \in Seq(Call) /\ reply \in {NoReply, "ok", "error"} /\ conn \in {"up", "lost"}
<1>1. ServerType /\ ClientType /\ LinkType
    BY DEF TypeOK
<1>2. archive \in Seq(Entry) /\ Len(archive) \in Nat
    BY ArchiveType
<1>3. UNCHANGED <<tree, dir, file, conn, archive, uploads>>
    BY DEF uploader, SkipDir, StartEntry, OpenFails, CopyChunk, CopyGoesOn, CopyFails, EntryDone,
           Finish, Answer, server
<1>4. i <= Len(archive) => i \in 1..Len(archive) /\ archive[i].chunks \in Nat
    BY <1>1, <1>2, EntryFacts DEF Entry
<1>5. ClientType'
    <2>1. CASE SkipDir
        BY <2>1, <1>1, <1>2, <1>3 DEF SkipDir
    <2>2. CASE StartEntry
        BY <2>2, <1>1, <1>3, <1>4 DEF StartEntry
    <2>3. CASE OpenFails
        BY <2>3, <1>1, <1>3 DEF OpenFails, Answer
    <2>4. CASE CopyChunk
        BY <2>4, <1>1, <1>3, <1>4 DEF CopyChunk
    <2>5. CASE CopyGoesOn
        BY <2>5, <1>1, <1>3 DEF CopyGoesOn
    <2>6. CASE CopyFails
        BY <2>6, <1>1, <1>3 DEF CopyFails, Answer
    <2>7. CASE EntryDone
        BY <2>7, <1>1, <1>2, <1>3 DEF EntryDone
    <2>8. CASE Finish
        BY <2>8, <1>1, <1>3 DEF Finish, Answer
    <2> QED BY <2>1, <2>2, <2>3, <2>4, <2>5, <2>6, <2>7, <2>8 DEF uploader
<1>6. LinkType'
    <2>1. CASE StartEntry
        BY <2>1, <1>1, <1>4, SentCalls, SendFacts DEF StartEntry
    <2>2. CASE OpenFails
        BY <2>2, <1>1, <1>4, SentCalls, SendFacts DEF OpenFails
    <2>3. CASE CopyChunk
        <3> DEFINE calls == <<[method |-> "write", chunk |-> <<i, sent + 1>>]>>
        <3>1. [method |-> "write", chunk |-> <<i, sent + 1>>] \in Call
            BY <1>1, <1>2 DEF Call
        <3>2. calls \in Seq(Call) /\ Send(calls)
            BY <2>3, <3>1 DEF CopyChunk
        <3> HIDE DEF calls
        <3>3. queue' \in Seq(Call)
            BY <3>2, SendFacts
        <3> QED BY <2>3, <1>1, <1>3, <3>3 DEF CopyChunk
    <2>4. CASE UNCHANGED <<queue, reply>>
        BY <2>4, <1>1, <1>3
    <2> QED BY <2>1, <2>2, <2>3, <2>4
            DEF uploader, SkipDir, CopyGoesOn, CopyFails, EntryDone, Finish
<1> QED BY <1>1, <1>3, <1>5, <1>6 DEF TypeOK

LEMMA TypeOfUpload ==
    ASSUME TypeOK, Upload \/ Lose
    PROVE  TypeOK'
<1>1. CASE Upload
    <2>1. archive' \in Archives /\ archive' \in Seq(Entry)
        BY <1>1, ArchiveAssumption DEF Upload
    <2>2. i' \in 1..(Len(archive') + 1)
        BY <1>1, <2>1, LenProperties DEF Upload
    <2>3. uploads' \in 0..MaxUploads
        BY <1>1, ResultAssumption DEF Upload, TypeOK
    <2> QED BY <1>1, <2>1, <2>2, <2>3 DEF Upload, TypeOK, server
<1>2. CASE Lose
    BY <1>2, EmptySeq DEF Lose, TypeOK, server, client
<1> QED BY <1>1, <1>2

(* Nothing but the beginning of an upload changes the history. *)
LEMMA OldStep ==
    ASSUME TypeOK, OldOK, [Next]_vars
    PROVE  /\ OldOK'
           /\ UNCHANGED old \/ Upload
<1>1. UNCHANGED old \/ Upload
    BY DEF Next, uploader, Handle, Lose, vars, client, SkipDir, StartEntry, OpenFails, CopyChunk,
           CopyGoesOn, CopyFails, EntryDone, Finish
<1>2. CASE UNCHANGED old
    BY <1>1, <1>2 DEF OldOK
<1>3. CASE Upload
    BY <1>3 DEF Upload, OldOK, TypeOK
<1> QED BY <1>1, <1>2, <1>3

LEMMA ProgressStep ==
    ASSUME TypeOK, ProgressOK, FileOK, [Next]_vars
    PROVE  ProgressOK'
<1> USE DEF ProgressOK, Copying
<1>1. i \in Nat /\ sent \in Nat /\ Len(archive) \in Nat
    BY ArchiveType DEF TypeOK
<1>2. CASE Upload
    BY <1>2 DEF Upload
<1>3. CASE SkipDir
    BY <1>3, <1>1 DEF SkipDir, TypeOK
<1>4. CASE StartEntry
    <2>1. archive[i].chunks \in Nat
        BY <1>4, <1>1, EntryFacts DEF StartEntry, Entry, TypeOK
    <2> QED BY <1>4, <2>1 DEF StartEntry
<1>5. CASE OpenFails
    BY <1>5 DEF OpenFails, Answer
<1>6. CASE CopyChunk
    <2>1. archive[i].chunks \in Nat
        BY <1>6, <1>1, EntryFacts DEF CopyChunk, Entry, TypeOK
    <2> QED BY <1>6, <1>1, <2>1 DEF CopyChunk
<1>7. CASE CopyGoesOn
    BY <1>7 DEF CopyGoesOn
<1>8. CASE CopyFails
    BY <1>8 DEF CopyFails, Answer
<1>9. CASE EntryDone
    BY <1>9, <1>1 DEF EntryDone
<1>10. CASE Finish
    <2>1. i = Len(archive) + 1
        BY <1>10, <1>1, ArchiveType DEF Finish
    <2> QED BY <1>10, <2>1 DEF Finish, Answer
<1>11. CASE Handle
    <2>1. UNCHANGED <<archive, i, sent, pc, status>>
        BY <1>11, HandleFrame
    <2>2. pc = "copy" /\ sent > 0 => reply' = "ok"
        <3>1. ASSUME pc = "copy", sent > 0 PROVE FALSE
            BY <3>1, <1>1, <1>11, ResultAssumption, HandleFrame DEF FileOK
        <3> QED BY <3>1
    <2> QED BY <2>1, <2>2
<1>12. CASE Lose
    BY <1>12 DEF Lose, client
<1>13. CASE UNCHANGED vars
    BY <1>13 DEF vars, client
<1> QED BY <1>2, <1>3, <1>4, <1>5, <1>6, <1>7, <1>8, <1>9, <1>10, <1>11, <1>12, <1>13
        DEF Next, uploader
-----------------------------------------------------------------------------
(***************************************************************************)
(* The queue.                                                              *)
(***************************************************************************)
LEMMA SameArchive ==
    ASSUME archive' = archive
    PROVE  /\ \A j : Steps(j)' = Steps(j) /\ Named(j)' = Named(j)
           /\ \A j, s : EntryCall(j, s)' = EntryCall(j, s)
           /\ \A j, k : Way(j, k)' = Way(j, k)
BY DEF Steps, Named, EntryCall, Way

(* A call that stays in the queue stays what it is. *)
LEMMA CallStays ==
    ASSUME TypeOK, NEW q \in 1..Len(queue), NEW j, NEW s, IsCall(q, j, s),
           \A r \in 1..Len(queue) : queue'[r] = queue[r],
           archive' = archive, dir' = dir, i' \in Nat, i <= i'
    PROVE  IsCall(q, j, s)'
<1>1. j <= i'
    <2>1. j \in Nat /\ i \in Nat /\ j <= i
        BY ArchiveType DEF IsCall
    <2> QED BY <2>1
<1>2. \A r \in 1..q : queue'[r] = queue[r]
    <2>1. Len(queue) \in Nat
        BY LenProperties DEF TypeOK
    <2> QED BY <2>1
<1>3. \A r \in 1..q : s - (q - r) >= 1 => queue'[r] = EntryCall(j, s - (q - r))'
    BY <1>2, SameArchive DEF IsCall
<1>4. s >= q + 2 => dir' \in {Broken, Way(j, (s - q) \div 2)'}
    BY SameArchive DEF IsCall
<1>5. s \in 1..Steps(j)'
    BY SameArchive DEF IsCall
<1> QED BY <1>1, <1>3, <1>4, <1>5 DEF IsCall

(* When the call before it is handled, it is one place further on. *)
LEMMA CallMovesUp ==
    ASSUME TypeOK, QueueOK, Handle, NEW q \in 2..Len(queue), NEW j, NEW s, IsCall(q, j, s)
    PROVE  IsCall(q - 1, j, s)'
<1> DEFINE h == s - (q - 1)
           call == Head(queue)
<1>1. /\ queue # <<>> /\ queue' = Tail(queue) /\ UNCHANGED <<archive, i>>
      /\ queue \in Seq(Call) /\ Len(queue) \in Nat /\ call = queue[1]
    BY HandleFrame, HeadOfQueue DEF TypeOK
<1>2. \A r \in 1..(q - 1) : queue'[r] = queue[r + 1]
    BY <1>1, HeadTailProperties
<1>3. j \in 1..Len(archive) /\ j <= i /\ ~archive[j].isDir /\ s \in 1..Steps(j)
      /\ Steps(j) \in Nat
    BY EntryCalls DEF IsCall
<1>4. \A r \in 1..(q - 1) :
         s - ((q - 1) - r) >= 1 => queue'[r] = EntryCall(j, s - ((q - 1) - r))'
    <2> TAKE r \in 1..(q - 1)
    <2> HAVE s - ((q - 1) - r) >= 1
    <2>1. r + 1 \in 1..q /\ s - (q - (r + 1)) = s - ((q - 1) - r)
        BY <1>3
    <2>2. queue[r + 1] = EntryCall(j, s - ((q - 1) - r))
        BY <2>1 DEF IsCall
    <2> QED BY <2>2, <1>1, <1>2, SameArchive
<1>5. ASSUME s >= (q - 1) + 2
      PROVE  dir' \in {Broken, Way(j, (s - (q - 1)) \div 2)}
    <2>1. h \in 1..Steps(j) /\ h < Steps(j) /\ h >= 2
        BY <1>3, <1>5
    <2>2. call = EntryCall(j, h)
        <3>1. 1 \in 1..q /\ s - (q - 1) >= 1
            BY <1>5, <1>3
        <3> QED BY <3>1, <1>1 DEF IsCall
    <2>3. h >= 3 => dir \in {Broken, Way(j, (h - 1) \div 2)}
        <3>1. h >= 3 => s >= q + 2 /\ h - 1 = s - q
            BY <1>3
        <3> QED BY <3>1 DEF IsCall
    <2> HIDE DEF h
    <2>4. HeadIs(call, j, h)
        BY <1>3, <2>1, <2>2, <2>3 DEF HeadIs
    <2>5. CASE h % 2 = 1
        <3>1. call.method = "mkdir"
            BY <2>1, <2>4, <2>5, MethodOfHead
        <3>2. dir' = dir
            BY <3>1 DEF Handle, Mkdir, Walk, Create, Write
        <3>3. h >= 3 /\ (h - 1) \div 2 = h \div 2
            BY <2>1, <2>5
        <3> QED BY <2>3, <3>2, <3>3 DEF h
    <2>6. CASE h % 2 # 1
        <3>1. call.method = "walk"
            BY <2>1, <2>4, <2>6, MethodOfHead
        <3>2. Walk(call)
            BY <3>1 DEF Handle, Mkdir, Create, Write
        <3>3. (h + 1) \div 2 = h \div 2
            BY <2>1, <2>6
        <3>4. dir' \in {Broken, Way(j, h \div 2)}
            BY <3>2, <3>3, <2>1, <2>4, WhereParentCallsLead DEF Walk
        <3> QED BY <3>4 DEF h
    <2> QED BY <2>5, <2>6
<1>6. s >= (q - 1) + 2 => dir' \in {Broken, Way(j, (s - (q - 1)) \div 2)'}
    BY <1>1, <1>5, SameArchive
<1>7. j \in 1..Len(archive') /\ j <= i' /\ ~archive'[j].isDir /\ s \in 1..Steps(j)'
    BY <1>1, <1>3, SameArchive
<1> QED BY <1>4, <1>6, <1>7 DEF IsCall

LEMMA WriteMovesUp ==
    ASSUME TypeOK, QueueOK, Handle, NEW q \in 2..Len(queue), IsWrite(q)
    PROVE  IsWrite(q - 1)'
<1>1. /\ queue # <<>> /\ queue' = Tail(queue) /\ UNCHANGED <<i, sent, pc>>
      /\ queue \in Seq(Call) /\ Len(queue) \in Nat
    BY HandleFrame, HeadOfQueue DEF TypeOK
<1>2. Len(queue') = Len(queue) - 1 /\ \A r \in 1..Len(queue') : queue'[r] = queue[r + 1]
    BY <1>1, HeadTailProperties
<1>3. Head(queue).method # "write"
    <2>1. ~IsWrite(1)
        BY DEF IsWrite
    <2>2. PICK j, s : HeadIs(Head(queue), j, s)
        BY <2>1, <1>1, HeadOfQueue
    <2> QED BY <2>2, MethodOfHead
<1>4. reply' = reply
    BY <1>3 DEF Handle, Mkdir, Walk, Create, Write
<1>5. q - 1 = Len(queue') /\ queue'[q - 1] = queue[q]
    <2>1. q - 1 \in 1..Len(queue') /\ (q - 1) + 1 = q /\ q = Len(queue)
        BY <1>1, <1>2 DEF IsWrite
    <2> QED BY <2>1, <1>2
<1> QED BY <1>1, <1>4, <1>5 DEF IsWrite

(* The calls that are sent for an entry are that entry's. *)
LEMMA NewCalls ==
    ASSUME TypeOK, NEW j \in 1..Len(archive), j = i, ~archive[j].isDir,
           UNCHANGED <<archive, i, dir>>, NEW n \in 0..Steps(j), NEW l \in Nat,
           \A k \in 1..n : queue'[l + k] = EntryCall(j, k)
    PROVE  \A k \in 1..n : IsCall(l + k, j, k)'
<1> TAKE k \in 1..n
<1>1. j \in Nat /\ Steps(j) \in Nat
    BY ArchiveType, EntryFacts DEF Steps
<1>2. \A r \in 1..(l + k) : k - ((l + k) - r) >= 1 => queue'[r] = EntryCall(j, k - ((l + k) - r))'
    <2> TAKE r \in 1..(l + k)
    <2> HAVE k - ((l + k) - r) >= 1
    <2>1. r - l \in 1..n /\ l + (r - l) = r /\ k - ((l + k) - r) = r - l
        BY <1>1
    <2>2. queue'[l + (r - l)] = EntryCall(j, r - l)
        BY <2>1
    <2> QED BY <2>1, <2>2, SameArchive
<1>3. ~(k >= (l + k) + 2)
    BY <1>1
<1>4. j \in 1..Len(archive') /\ j <= i' /\ ~archive'[j].isDir /\ k \in 1..Steps(j)'
    BY <1>1, SameArchive
<1> QED BY <1>2, <1>3, <1>4 DEF IsCall

(* After Send, the queue holds what it held and then the calls for the entry. *)
LEMMA QueueAfterSend ==
    ASSUME TypeOK, QueueOK, pc # "wait",
           NEW j \in 1..Len(archive), j = i, ~archive[j].isDir,
           UNCHANGED <<archive, i, dir, conn>>,
           NEW calls \in Seq(Call), Send(calls), Len(calls) <= Steps(j),
           \A k \in 1..Len(calls) : calls[k] = EntryCall(j, k)
    PROVE  /\ QueueOK'
           /\ conn = "up" =>
                 /\ Len(queue') = Len(queue) + Len(calls)
                 /\ \A m \in Nat : m = Len(queue') /\ Len(calls) > 0 => IsCall(m, j, Len(calls))'
<1>1. Len(queue) \in Nat /\ Len(calls) \in Nat /\ j \in Nat /\ Steps(j) \in Nat /\ i' \in Nat
    BY ArchiveType, EntryFacts, LenProperties DEF TypeOK, Steps
<1>2. \A q \in 1..Len(queue) : \E k, s \in Nat : IsCall(q, k, s)
    BY DEF QueueOK, IsWrite
<1>3. CASE conn # "up"
    <2>1. queue' = queue /\ queue = <<>> /\ Len(<<>>) = 0
        BY <1>3, EmptySeq, SendFacts DEF QueueOK, TypeOK
    <2> QED BY <1>3, <2>1 DEF QueueOK
<1>4. CASE conn = "up"
    <2> DEFINE n == Len(calls)
    <2>0. PICK l \in Nat : l = Len(queue)
        BY <1>1
    <2>1. /\ Len(queue') = l + n
          /\ \A q \in 1..l : queue'[q] = queue[q]
          /\ \A k \in 1..n : queue'[l + k] = calls[k]
        BY <1>4, <2>0, SendFacts
    <2>2. \A q \in 1..l, k, s \in Nat : IsCall(q, k, s) => IsCall(q, k, s)'
        BY <1>1, <2>0, <2>1, CallStays
    <2>3. \A k \in 1..n : IsCall(l + k, j, k)'
        <3>1. \A k \in 1..n : queue'[l + k] = EntryCall(j, k)
            BY <2>1
        <3>2. n \in 0..Steps(j) /\ l \in Nat
            BY <1>1
        <3> HIDE DEF n
        <3> QED BY <3>1, <3>2, NewCalls
    <2> HIDE DEF n
    <2>4. \A q \in 1..(l + n) : \E k, s \in Nat : IsCall(q, k, s)'
        <3> TAKE q \in 1..(l + n)
        <3>1. CASE q <= l
            BY <3>1, <1>1, <1>2, <2>0, <2>2
        <3>2. CASE ~(q <= l)
            <4>1. q - l \in 1..n /\ q = l + (q - l)
                BY <3>2, <1>1, <2>0 DEF n
            <4>2. IsCall(q, j, q - l)'
                BY <4>1, <2>3
            <4> QED BY <4>1, <4>2, <1>1 DEF n
        <3> QED BY <3>1, <3>2
    <2>5. QueueOK'
        BY <2>1, <2>4, <1>4 DEF QueueOK
    <2>6. \A m \in Nat : m = Len(queue') /\ n > 0 => IsCall(m, j, n)'
        <3>1. n > 0 => IsCall(l + n, j, n)'
            BY <1>1, <2>3 DEF n
        <3> QED BY <2>1, <3>1
    <2> QED BY <1>4, <2>0, <2>1, <2>5, <2>6 DEF n
<1> QED BY <1>3, <1>4

LEMMA QueueStep ==
    ASSUME TypeOK, QueueOK, ProgressOK, FileOK, [Next]_vars
    PROVE  QueueOK'
<1>1. queue \in Seq(Call) /\ Len(queue) \in Nat /\ Len(<<>>) = 0 /\ i \in Nat /\ sent \in Nat
    BY ArchiveType, EmptySeq, LenProperties DEF TypeOK
<1>2. CASE queue' = <<>>
    BY <1>1, <1>2 DEF QueueOK
<1>3. ASSUME pc # "wait", UNCHANGED <<queue, archive, dir, conn>>, i' \in Nat, i <= i'
      PROVE  QueueOK'
    <2>1. \A q \in 1..Len(queue) : \E j, s \in Nat : IsCall(q, j, s)
        BY <1>3 DEF QueueOK, IsWrite
    <2>2. \A q \in 1..Len(queue), j, s \in Nat : IsCall(q, j, s) => IsCall(q, j, s)'
        BY <1>3, CallStays
    <2>3. \A q \in 1..Len(queue') : \E j, s \in Nat : IsCall(q, j, s)'
        BY <1>3, <2>1, <2>2
    <2> QED BY <1>3, <2>3 DEF QueueOK
<1>4. CASE Upload \/ Lose
    BY <1>2, <1>4 DEF Upload, Lose
<1>5. CASE SkipDir \/ EntryDone \/ Finish
    BY <1>5, <1>1, <1>3 DEF SkipDir, EntryDone, Finish, server
<1>6. CASE StartEntry \/ OpenFails
    <2>1. i \in 1..Len(archive)
        BY <1>6, ArchiveType DEF StartEntry, OpenFails
    <2>2. PICK j \in 1..Len(archive) : j = i
        BY <2>1
    <2> DEFINE name == archive[j].name
    <2>3. PICK calls : /\ calls = ParentCalls(name) \/ calls = Append(ParentCalls(name), CreateCall(name))
                       /\ Send(calls)
        BY <1>6, <2>2 DEF StartEntry, OpenFails
    <2>4. calls \in Seq(Call) /\ Len(calls) <= Steps(j) /\ \A k \in 1..Len(calls) : calls[k] = EntryCall(j, k)
        <3>1. Steps(j) \in Nat
            BY EntryFacts DEF Steps
        <3>2. CASE calls = ParentCalls(name)
            BY <3>1, <3>2, SentCalls
        <3>3. CASE calls = Append(ParentCalls(name), CreateCall(name))
            BY <3>1, <3>3, SentCalls
        <3> QED BY <2>3, <3>2, <3>3
    <2>5. pc # "wait" /\ ~archive[j].isDir /\ UNCHANGED <<archive, i, dir, conn>>
        BY <1>6, <2>2 DEF StartEntry, OpenFails, server
    <2> QED BY <2>2, <2>3, <2>4, <2>5, QueueAfterSend
<1>7. CASE CopyChunk
    <2> DEFINE call == [method |-> "write", chunk |-> <<i, sent + 1>>]
    <2>0. PICK l \in Nat : l = Len(queue)
        BY <1>1
    <2>1. CASE conn # "up"
        BY <1>2, <1>7, <2>1 DEF CopyChunk, Send, QueueOK, TypeOK
    <2>2. CASE conn = "up"
        <3>1. call \in Call
            BY <1>1 DEF Call
        <3>2. queue' = Append(queue, call)
            BY <1>1, <1>7, <2>2, <3>1, AppendIsConcat DEF CopyChunk, Send
        <3>3. /\ Len(queue') = l + 1 /\ queue'[l + 1] = call
              /\ \A q \in 1..l : queue'[q] = queue[q]
            BY <1>1, <2>0, <3>1, <3>2, AppendProperties
        <3>4. IsWrite(l + 1)'
            BY <1>7, <3>3, SMT DEF CopyChunk, server, IsWrite
        <3>5. \A q \in 1..l : \E j, s \in Nat : IsCall(q, j, s)
            BY <1>7, <2>0 DEF QueueOK, IsWrite, CopyChunk
        <3>6. \A q \in 1..l, j, s \in Nat : IsCall(q, j, s) => IsCall(q, j, s)'
            <4>1. archive' = archive /\ dir' = dir /\ i' = i
                BY <1>7 DEF CopyChunk, server
            <4> QED BY <4>1, <1>1, <2>0, <3>3, CallStays
        <3>7. \A q \in 1..Len(queue') : IsWrite(q)' \/ \E j, s \in Nat : IsCall(q, j, s)'
            <4>1. \A q \in 1..Len(queue') : q \in 1..l \/ q = l + 1
                BY <3>3
            <4>2. \A q \in 1..l : \E j, s \in Nat : IsCall(q, j, s)'
                BY <3>5, <3>6
            <4> QED BY <4>1, <4>2, <3>4
        <3> QED BY <1>7, <2>2, <3>7 DEF QueueOK, CopyChunk
    <2> QED BY <2>1, <2>2
<1>8. CASE CopyGoesOn
    <2>1. queue' = <<>>
        BY <1>8, <1>1, ResultAssumption DEF CopyGoesOn, FileOK, Copying, ProgressOK
    <2> QED BY <2>1, <1>2
<1>9. CASE CopyFails
    <2>1. CASE pc = "wait"
        <3>1. queue' = <<>>
            BY <1>9, <2>1, <1>1, ResultAssumption DEF CopyFails, FileOK, Copying, ProgressOK, QueueOK
        <3> QED BY <3>1, <1>2
    <2>2. CASE pc # "wait"
        BY <1>9, <2>2, <1>1, <1>3 DEF CopyFails, server
    <2> QED BY <2>1, <2>2
<1>10. CASE Handle
    <2>1. /\ queue # <<>> /\ queue' = Tail(queue)
          /\ UNCHANGED <<conn, archive, i, sent, pc, status, old, uploads>>
        BY <1>10, HandleFrame
    <2>2. Len(queue') = Len(queue) - 1 /\ \A q \in 1..Len(queue') : queue'[q] = queue[q + 1]
        BY <1>1, <2>1, HeadTailProperties
    <2>3. \A q \in 2..Len(queue) : IsWrite(q) => IsWrite(q - 1)'
        BY <1>10, WriteMovesUp
    <2>4. \A q \in 2..Len(queue), j, s \in Nat : IsCall(q, j, s) => IsCall(q - 1, j, s)'
        BY <1>10, CallMovesUp
    <2>5. \A q \in 1..Len(queue') : IsWrite(q)' \/ \E j, s \in Nat : IsCall(q, j, s)'
        <3> TAKE q \in 1..Len(queue')
        <3>1. q + 1 \in 2..Len(queue) /\ q + 1 \in 1..Len(queue) /\ (q + 1) - 1 = q
            BY <1>1, <2>2
        <3>2. IsWrite(q + 1) \/ \E j, s \in Nat : IsCall(q + 1, j, s)
            BY <3>1 DEF QueueOK
        <3> DEFINE k == q + 1
        <3>3. IsWrite(k - 1)' \/ \E j, s \in Nat : IsCall(k - 1, j, s)'
            <4> HIDE DEF k
            <4>1. k \in 2..Len(queue) /\ (IsWrite(k) \/ \E j, s \in Nat : IsCall(k, j, s))
                BY <3>1, <3>2 DEF k
            <4> QED BY <4>1, <2>3, <2>4
        <3> QED BY <3>1, <3>3
    <2>6. conn' = "lost" => queue' = <<>>
        BY <2>1 DEF QueueOK
    <2> QED BY <2>5, <2>6 DEF QueueOK
<1>11. CASE UNCHANGED vars
    <2>1. UNCHANGED <<queue, archive, dir, conn, i, pc, reply, sent>>
        BY <1>11 DEF vars, server, client
    <2>2. \A q : IsWrite(q)' <=> IsWrite(q)
        BY <2>1 DEF IsWrite
    <2>3. \A q, j, s : IsCall(q, j, s)' <=> IsCall(q, j, s)
        BY <2>1, SameArchive DEF IsCall
    <2> QED BY <2>1, <2>2, <2>3 DEF QueueOK
<1> QED BY <1>4, <1>5, <1>6, <1>7, <1>8, <1>9, <1>10, <1>11 DEF Next, uploader
-----------------------------------------------------------------------------
(***************************************************************************)
(* The file that is being written.                                         *)
(***************************************************************************)
FileAt(n, j) ==
    IF n = 0 THEN file \in {Broken, Named(j)} ELSE IsCall(n, j, Steps(j))

LEMMA FileOfHandle ==
    ASSUME TypeOK, QueueOK, ProgressOK, FileOK, Copying, Handle
    PROVE  FileOK'
<1>1. /\ queue # <<>> /\ queue' = Tail(queue)
      /\ UNCHANGED <<conn, archive, i, sent, pc, status>>
      /\ queue \in Seq(Call) /\ Head(queue) = queue[1]
      /\ i \in 1..Len(archive) /\ sent \in Nat /\ conn = "up"
    <2>1. queue # <<>> /\ queue \in Seq(Call)
        BY HandleFrame DEF TypeOK
    <2>2. conn = "up"
        BY <2>1 DEF QueueOK, TypeOK
    <2>3. i \in 1..Len(archive)
        BY ArchiveType DEF ProgressOK
    <2> QED BY <2>1, <2>2, <2>3, HandleFrame, HeadOfQueue DEF TypeOK
<1>2. /\ Len(queue) \in Nat \ {0} /\ Len(queue') = Len(queue) - 1
    BY <1>1, HeadOfQueue, HeadTailProperties
<1>3. PICK j \in Nat : j = i
    BY <1>1
<1>4. Steps(j) \in Nat \ {0} /\ Steps(j)' = Steps(j) /\ Named(j)' = Named(j)
    <2>1. Steps(j) \in Nat \ {0}
        BY <1>1, <1>3, EntryFacts DEF Steps
    <2> QED BY <2>1, <1>1, SameArchive
<1>5. CASE Write(queue[1])
    <2>1. IsWrite(1) /\ queue' = <<>> /\ file' = file /\ Len(queue) = 1
        BY <1>1, <1>5, WriteAppends DEF IsWrite
    <2>2. pc = "wait" /\ reply = NoReply /\ Ahead = 0 /\ sent > 0
        BY <2>1 DEF IsWrite, Ahead, ProgressOK
    <2>3. file \in {Broken, Named(j)}
        BY <1>1, <1>3, <2>2 DEF FileOK
    <2>4. reply' \in {"ok", "error"} /\ (reply' = "ok" => file = Named(j))
        <3>1. reply' = "ok" => file \in DOMAIN tree
            BY <1>1, <1>5, WriteAppends
        <3>2. Broken \notin DOMAIN tree
            BY ResultAssumption DEF TypeOK
        <3>3. reply' \in {"ok", "error"}
            BY <1>1, <1>5, WriteAppends
        <3> QED BY <2>3, <3>1, <3>2, <3>3
    <2>5. reply' # NoReply /\ Ahead' = 0
        <3>1. reply' # NoReply
            BY <2>4, ResultAssumption
        <3> QED BY <3>1, <2>1, <1>2 DEF Ahead
    <2>6. file' = Named(j)' \/ reply' # "ok"
        BY <1>4, <2>1, <2>4
    <2>7. file' \in {Broken, Named(j)'}
        BY <1>4, <2>1, <2>3
    <2> QED BY <1>1, <1>3, <2>1, <2>5, <2>6, <2>7 DEF FileOK, Named
<1>6. CASE ~Write(queue[1])
    <2>1. queue[1].method # "write" /\ reply' = reply
        <3>1. Mkdir(queue[1]) \/ Walk(queue[1]) \/ Create(queue[1])
            BY <1>1, <1>6 DEF Handle
        <3> QED BY <3>1 DEF Mkdir, Walk, Create
    <2>2. ~(sent > 0 /\ reply # NoReply) /\ ~(sent > 0 /\ reply = "ok")
        BY <1>1, ResultAssumption DEF FileOK
    <2>3. pc = "wait" => reply = NoReply
        BY <2>2 DEF ProgressOK
    <2>4. pc = "wait" => Len(queue) \in 2..Len(queue) /\ IsWrite(Len(queue))
        <3>1. ~IsWrite(1)
            BY <2>1 DEF IsWrite
        <3> QED BY <3>1, <1>1, <1>2, <2>3 DEF FileOK
    <2>5. PICK n \in Nat \ {0} : n = Ahead /\ n \in 1..Len(queue)
        <3>1. CASE pc = "wait"
            <4>1. Ahead = Len(queue) - 1
                BY <3>1, <2>3 DEF Ahead
            <4>2. Len(queue) - 1 \in Nat \ {0} /\ Len(queue) - 1 \in 1..Len(queue)
                BY <3>1, <1>2, <2>4
            <4> QED BY <4>1, <4>2
        <3>2. CASE pc # "wait"
            BY <3>2, <1>2 DEF Ahead
        <3> QED BY <3>1, <3>2
    <2>6. IsCall(n, j, Steps(j))
        BY <1>1, <1>3, <2>5 DEF FileOK
    <2>7. Ahead' = n - 1
        BY <1>1, <1>2, <2>1, <2>5 DEF Ahead
    <2>8. FileAt(n - 1, j)'
        <3>1. CASE n = 1
            <4>1. HeadIs(queue[1], j, Steps(j))
                BY <1>4, <2>6, <3>1, FirstCall
            <4>2. queue[1].method = "create"
                BY <4>1, MethodOfHead
            <4>3. Create(queue[1])
                BY <1>1, <4>2 DEF Handle, Mkdir, Walk, Write
            <4>4. file' \in {Broken, Named(j)}
                BY <1>1, <2>6, <3>1, <4>3, CreateAdds
            <4> QED BY <3>1, <4>4, <1>4 DEF FileAt
        <3>2. CASE n # 1
            <4> DEFINE s == Steps(j)
            <4>1. PICK t \in Nat : t = Steps(j)
                BY <1>4
            <4>2. IsCall(n - 1, j, t)'
                <5>1. n \in 2..Len(queue)
                    BY <2>5, <3>2
                <5> QED BY <5>1, <4>1, <2>6, CallMovesUp
            <4>3. t = Steps(j)' /\ n - 1 # 0
                BY <4>1, <1>4, <3>2
            <4> QED BY <4>2, <4>3 DEF FileAt, IsCall
        <3> QED BY <3>1, <3>2
    <2>9. pc = "wait" => Len(queue') > 0 /\ IsWrite(Len(queue))'
        <3>1. SUFFICES ASSUME pc = "wait" PROVE Len(queue') > 0 /\ IsWrite(Len(queue))'
            OBVIOUS
        <3>2. PICK m \in 2..Len(queue) : m = Len(queue) /\ IsWrite(m)
            BY <2>4, <3>1
        <3>3. IsWrite(m - 1)'
            BY <3>2, WriteMovesUp
        <3>4. Len(queue') > 0 /\ m - 1 = Len(queue')
            BY <1>2, <3>2
        <3> QED BY <3>3, <3>4 DEF IsWrite
    <2>10. IF Ahead' = 0 THEN file' \in {Broken, Named(i)'} ELSE IsCall(Ahead, i, Steps(i))'
        <3>1. CASE n = 1
            BY <1>1, <1>3, <2>7, <2>8, <3>1 DEF FileAt, Named
        <3>2. CASE n # 1
            <4>1. n - 1 # 0 /\ i' = j
                BY <1>1, <1>3, <3>2
            <4> QED BY <2>7, <2>8, <4>1 DEF FileAt, IsCall, Steps
        <3> QED BY <3>1, <3>2
    <2>11. ~(sent' > 0 /\ reply' # NoReply) /\ ~(sent' > 0 /\ reply' = "ok")
        BY <1>1, <2>1, <2>2
    <2> QED BY <1>1, <2>9, <2>10, <2>11 DEF FileOK
<1> QED BY <1>5, <1>6
LEMMA FileStep ==
    ASSUME TypeOK, QueueOK, ProgressOK, FileOK, [Next]_vars
    PROVE  FileOK'
<1>1. /\ i \in Nat /\ sent \in Nat /\ Len(archive) \in Nat
      /\ queue \in Seq(Call) /\ Len(queue) \in Nat /\ Len(<<>>) = 0
    BY ArchiveType, EmptySeq, LenProperties DEF TypeOK
<1>2. CASE ~Copying'
    BY <1>2 DEF FileOK
<1>3. CASE Upload \/ SkipDir \/ OpenFails \/ CopyFails \/ EntryDone \/ Finish
    <2>1. pc' \in {"entry", "idle"}
        BY <1>3 DEF Upload, SkipDir, OpenFails, CopyFails, EntryDone, Finish, Answer
    <2> QED BY <2>1, <1>2 DEF Copying
<1>4. CASE StartEntry
    <2>1. PICK j \in 1..Len(archive) : j = i
        BY <1>4, ArchiveType DEF StartEntry
    <2>0. PICK all : all = Append(ParentCalls(archive[j].name), CreateCall(archive[j].name))
        OBVIOUS
    <2>2. /\ pc = "entry" /\ ~archive[j].isDir /\ UNCHANGED <<archive, i, dir, conn>>
          /\ Send(all) /\ pc' = "copy" /\ sent' = 0
        BY <1>4, <2>0, <2>1 DEF StartEntry, server
    <2>3. /\ all \in Seq(Call) /\ Len(all) = Steps(j)
          /\ \A k \in 1..Len(all) : all[k] = EntryCall(j, k)
        BY <2>0, SentCalls
    <2>4. PICK t \in Nat \ {0} : t = Steps(j)
        <3>1. Steps(j) \in Nat \ {0}
            BY EntryFacts DEF Steps
        <3> QED BY <3>1
    <2>5. CASE conn # "up"
        BY <2>2, <2>5 DEF FileOK
    <2>6. CASE conn = "up"
        <3>1. PICK m \in Nat \ {0} : m = Len(queue')
            <4>1. Len(queue') = Len(queue) + Len(all)
                BY <2>2, <2>3, <2>6, SendFacts
            <4> QED BY <4>1, <1>1, <2>3, <2>4
        <3>2. IsCall(m, j, t)'
            <4>1. Len(all) <= Steps(j) /\ Len(all) > 0 /\ Len(all) = t
                BY <2>3, <2>4
            <4>2. \A n \in Nat : n = Len(queue') /\ Len(all) > 0 => IsCall(n, j, Len(all))'
                BY <2>1, <2>2, <2>3, <2>6, <4>1, QueueAfterSend
            <4>3. IsCall(m, j, Len(all))'
                BY <3>1, <4>1, <4>2
            <4> QED BY <4>1, <4>3
        <3>3. Ahead' = m /\ t = Steps(j)' /\ i' = j
            BY <2>1, <2>2, <2>4, <3>1, SameArchive DEF Ahead
        <3>4. IsCall(Ahead, i, Steps(i))'
            BY <3>2, <3>3 DEF IsCall, Steps
        <3>5. ~(sent' > 0) /\ Ahead' # 0 /\ pc' # "wait"
            BY <2>2, <3>1, <3>3
        <3> QED BY <3>4, <3>5 DEF FileOK
    <2> QED BY <2>5, <2>6
<1>5. CASE CopyChunk
    <2>1. PICK j \in 1..Len(archive) : j = i
        BY <1>5, ArchiveType DEF CopyChunk, ProgressOK, Copying
    <2> DEFINE call == [method |-> "write", chunk |-> <<i, sent + 1>>]
    <2>2. /\ pc = "copy" /\ UNCHANGED <<archive, i, dir, file, conn>>
          /\ Send(<<call>>) /\ pc' = "wait" /\ sent' = sent + 1 /\ reply' = NoReply
        BY <1>5 DEF CopyChunk, server
    <2>3. PICK t \in Nat \ {0} : t = Steps(j) /\ t = Steps(j)'
        <3>1. Steps(j) \in Nat \ {0}
            BY EntryFacts DEF Steps
        <3> QED BY <3>1, <2>2, SameArchive
    <2>4. reply' # "ok" /\ ~(reply' # NoReply)
        BY <2>2, ResultAssumption
    <2>5. CASE conn # "up"
        BY <2>2, <2>4, <2>5 DEF FileOK
    <2>6. CASE conn = "up"
        <3>1. PICK l \in Nat : l = Len(queue) /\ l = Ahead
            BY <1>1, <2>2 DEF Ahead
        <3>2. call \in Call
            BY <1>1 DEF Call
        <3>3. queue' = Append(queue, call)
            BY <1>1, <2>2, <2>6, <3>2, AppendIsConcat DEF Send
        <3>4. /\ Len(queue') = l + 1 /\ queue'[l + 1] = call
              /\ \A q \in 1..l : queue'[q] = queue[q]
            <4> HIDE DEF call
            <4>1. /\ Len(queue') = Len(queue) + 1 /\ queue'[Len(queue) + 1] = call
                  /\ \A q \in 1..Len(queue) : queue'[q] = queue[q]
                BY <1>1, <3>2, <3>3, AppendProperties
            <4> QED BY <3>1, <4>1
        <3>5. Len(queue') > 0 /\ IsWrite(Len(queue))'
            BY <2>2, <3>4, SMT DEF IsWrite
        <3>6. Ahead' = l
            BY <2>2, <3>4 DEF Ahead
        <3>7. CASE l = 0
            <4>1. file' \in {Broken, Named(i)'}
                BY <2>2, <2>6, <3>1, <3>7 DEF FileOK, Copying, Named
            <4> QED BY <2>2, <2>4, <3>5, <3>6, <3>7, <4>1 DEF FileOK
        <3>8. CASE l # 0
            <4>1. IsCall(l, j, t)
                BY <2>1, <2>2, <2>3, <2>6, <3>1, <3>8 DEF FileOK, Copying
            <4>2. IsCall(l, j, t)'
                <5>1. l \in 1..Len(queue) /\ i' \in Nat /\ i <= i'
                    BY <1>1, <2>2, <3>1, <3>8
                <5>2. \A q \in 1..Len(queue) : queue'[q] = queue[q]
                    BY <3>1, <3>4
                <5> QED BY <5>1, <5>2, <2>2, <4>1, CallStays
            <4>3. i' = j
                BY <2>1, <2>2
            <4>4. IsCall(Ahead, i, Steps(i))'
                BY <2>3, <3>6, <4>2, <4>3 DEF IsCall, Steps
            <4> QED BY <2>2, <2>4, <3>5, <3>6, <3>8, <4>4 DEF FileOK
        <3> QED BY <3>7, <3>8
    <2> QED BY <2>5, <2>6
<1>6. CASE CopyGoesOn
    <2>1. pc = "wait" /\ pc' = "copy" /\ reply = "ok" /\ reply # NoReply /\ sent > 0
        BY <1>6, ResultAssumption DEF CopyGoesOn, ProgressOK
    <2>2. queue = <<>> /\ file = Named(i)
        BY <2>1 DEF FileOK, Copying
    <2>3. UNCHANGED <<file, queue, reply, conn, archive, i, sent>>
        BY <1>6 DEF CopyGoesOn, server
    <2>4. file' = Named(i)' /\ Ahead' = 0
        BY <1>1, <2>1, <2>2, <2>3 DEF Named, Ahead
    <2> QED BY <2>1, <2>2, <2>3, <2>4 DEF FileOK
<1>7. CASE Handle
    <2>1. Copying' <=> Copying
        BY <1>7, HandleFrame DEF Copying
    <2> QED BY <1>2, <1>7, <2>1, FileOfHandle
<1>8. CASE Lose
    <2>1. queue' = <<>> /\ conn' = "lost" /\ UNCHANGED <<file, reply, archive, i, sent, pc>>
        BY <1>8 DEF Lose, server, client
    <2>2. Named(i)' = Named(i) /\ (Copying' <=> Copying)
        BY <2>1 DEF Named, Copying
    <2> QED BY <2>1, <2>2 DEF FileOK
<1>9. CASE UNCHANGED vars
    <2>1. UNCHANGED <<queue, archive, dir, file, conn, i, pc, reply, sent>>
        BY <1>9 DEF vars, server, client
    <2>2. Named(i)' = Named(i) /\ (Copying' <=> Copying) /\ Ahead' = Ahead
        BY <2>1 DEF Named, Copying, Ahead
    <2>3. IsWrite(Len(queue))' <=> IsWrite(Len(queue))
        BY <2>1 DEF IsWrite
    <2>4. IsCall(Ahead, i, Steps(i))' <=> IsCall(Ahead, i, Steps(i))
        <3>1. \A q, j, s : IsCall(q, j, s)' <=> IsCall(q, j, s)
            BY <2>1, SameArchive DEF IsCall
        <3> QED BY <2>1, <2>2, <3>1 DEF IsCall, Steps, EntryCall, Way
    <2> QED BY <2>1, <2>2, <2>3, <2>4 DEF FileOK
<1> QED BY <1>3, <1>4, <1>5, <1>6, <1>7, <1>8, <1>9 DEF Next, uploader
-----------------------------------------------------------------------------
(***************************************************************************)
(* What a call does to the tree.                                           *)
(***************************************************************************)
Appends ==
    /\ IsWrite(1) /\ file \in DOMAIN tree /\ reply' = "ok"
    /\ tree' = [tree EXCEPT ![file].data = Append(@, <<i, sent>>)]

LEMMA HandleTree ==
    ASSUME TypeOK, QueueOK, Handle
    PROVE  \/ /\ tree' = tree \/ \E p : \E d \in BOOLEAN : Adds(p, d)
              /\ reply' = reply
           \/ tree' = tree /\ IsWrite(1) /\ reply' = "error"
           \/ Appends
<1>1. queue # <<>>
    BY HandleFrame
<1>2. CASE Mkdir(Head(queue))
    BY <1>1, <1>2, MkdirAdds DEF Mkdir
<1>3. CASE Walk(Head(queue))
    BY <1>3 DEF Walk
<1>4. CASE Create(Head(queue))
    BY <1>1, <1>4, CreateAdds DEF Create
<1>5. CASE Write(Head(queue))
    BY <1>1, <1>5, WriteAppends DEF Appends
<1> QED BY <1>2, <1>3, <1>4, <1>5 DEF Handle

LEMMA AppendsFacts ==
    ASSUME TypeOK, Appends
    PROVE  /\ DOMAIN tree' = DOMAIN tree
           /\ \A p \in DOMAIN tree :
                 /\ tree'[p].dir = tree[p].dir /\ tree'[p].w = tree[p].w
                 /\ p # file => tree'[p] = tree[p]
           /\ tree'[file].data = Append(tree[file].data, <<i, sent>>)
           /\ tree[file].data \in Seq(Data) /\ <<i, sent>> \in Data
<1> DEFINE n == tree[file]
           x == Append(n.data, <<i, sent>>)
<1>1. n \in Inode /\ <<i, sent>> \in Data
    BY ArchiveType DEF TypeOK, Appends, Data
<1>2. /\ DOMAIN tree' = DOMAIN tree
      /\ tree'[file] = [n EXCEPT !.data = x]
      /\ \A p \in DOMAIN tree : p # file => tree'[p] = tree[p]
    BY DEF Appends, TypeOK
<1> HIDE DEF n, x
<1>3. /\ tree'[file].dir = n.dir /\ tree'[file].w = n.w /\ tree'[file].data = x
      /\ n.data \in Seq(Data)
    BY <1>1, <1>2 DEF Inode, Data
<1> QED BY <1>1, <1>2, <1>3 DEF n, x

(* All that the uploader's steps leave alone, or count up. *)
LEMMA ClientFrame ==
    ASSUME TypeOK, uploader \/ Lose \/ UNCHANGED vars
    PROVE  UNCHANGED <<tree, old, archive>> /\ i' \in Nat /\ i <= i'
<1>1. i \in Nat
    BY ArchiveType
<1>2. UNCHANGED <<tree, old, archive>> /\ (i' = i \/ i' = i + 1)
    BY DEF uploader, SkipDir, StartEntry, OpenFails, CopyChunk, CopyGoesOn, CopyFails, EntryDone,
           Finish, Answer, Lose, server, client, vars
<1> QED BY <1>1, <1>2
-----------------------------------------------------------------------------
(***************************************************************************)
(* What appears in the tree.                                               *)
(***************************************************************************)
Kept ==
    \A p \in DOMAIN old :
        /\ p \in DOMAIN tree
        /\ tree[p].dir = old[p].dir /\ tree[p].w = old[p].w
        /\ IsPrefix(old[p].data, tree[p].data)

Explained ==
    \A p \in DOMAIN tree \ DOMAIN old : \E j \in 1..Len(archive) :
        /\ j <= i /\ ~archive[j].isDir
        /\ IF tree[p].dir THEN IsStrictPrefix(p, Named(j)) ELSE p = Named(j)

LEMMA KeptStep ==
    ASSUME TypeOK, OldOK, QueueOK, Kept, [Next]_vars
    PROVE  Kept'
<1>1. ASSUME NEW p \in DOMAIN old
      PROVE  old[p].data \in Seq(Data) /\ tree[p].data \in Seq(Data) /\ p \in DOMAIN tree
    BY DEF Kept, OldOK, TypeOK, Inode, Data
<1>2. CASE Upload
    <2>1. old' = tree /\ tree' = tree
        BY <1>2 DEF Upload, server
    <2>2. \A p \in DOMAIN tree : tree[p].data \in Seq(Data)
        BY DEF TypeOK, Inode, Data
    <2>3. \A p \in DOMAIN tree : IsPrefix(tree[p].data, tree[p].data)
        BY <2>2, DataPrefixReflexive
    <2> QED BY <2>1, <2>3 DEF Kept
<1>3. CASE uploader \/ Lose \/ UNCHANGED vars
    BY <1>3, ClientFrame DEF Kept
<1>4. CASE Handle
    <2>1. old' = old
        BY <1>4, HandleFrame
    <2>2. CASE tree' = tree
        BY <2>1, <2>2 DEF Kept
    <2>3. ASSUME NEW p, NEW d \in BOOLEAN, Adds(p, d)
          PROVE  Kept'
        BY <2>1, <2>3, AddsFacts DEF Kept
    <2>4. CASE Appends
        <3> SUFFICES ASSUME NEW p \in DOMAIN old
                     PROVE  /\ p \in DOMAIN tree'
                            /\ tree'[p].dir = old[p].dir /\ tree'[p].w = old[p].w
                            /\ IsPrefix(old[p].data, tree'[p].data)
            BY <2>1 DEF Kept
        <3>1. /\ p \in DOMAIN tree /\ tree[p].dir = old[p].dir /\ tree[p].w = old[p].w
              /\ IsPrefix(old[p].data, tree[p].data)
            BY DEF Kept
        <3>2. CASE p # file
            BY <2>4, <3>1, <3>2, AppendsFacts
        <3>3. CASE p = file
            <4> DEFINE x == <<i, sent>>
            <4>1. x \in Data /\ tree'[p].data = Append(tree[p].data, x)
                BY <2>4, <3>3, AppendsFacts
            <4> HIDE DEF x
            <4>2. tree'[p].data = tree[p].data \o <<x>> /\ <<x>> \in Seq(Data)
                BY <1>1, <4>1, AppendIsConcat
            <4>3. IsPrefix(tree[p].data, tree'[p].data) /\ tree'[p].data \in Seq(Data)
                BY <1>1, <4>2, PrefixOfConcat, ConcatProperties
            <4>4. IsPrefix(old[p].data, tree'[p].data)
                BY <1>1, <3>1, <4>3, DataPrefixTransitive
            <4> QED BY <2>4, <3>1, <4>4, AppendsFacts
        <3> QED BY <3>2, <3>3
    <2> QED BY <1>4, <2>2, <2>3, <2>4, HandleTree
<1> QED BY <1>2, <1>3, <1>4 DEF Next

LEMMA ExplainedStep ==
    ASSUME TypeOK, QueueOK, Explained, [Next]_vars
    PROVE  Explained'
<1>1. CASE Upload
    BY <1>1 DEF Upload, server, Explained
<1>2. ASSUME UNCHANGED <<tree, old, archive>>, i' \in Nat, i <= i'
      PROVE  Explained'
    <2>1. \A j \in 1..Len(archive) : j <= i => j <= i'
        BY <1>2, ArchiveType
    <2> QED BY <1>2, <2>1, SameArchive DEF Explained
<1>3. CASE uploader \/ Lose \/ UNCHANGED vars
    BY <1>2, <1>3, ClientFrame
<1>4. CASE Handle
    <2>1. UNCHANGED <<old, archive, i>> /\ i \in Nat
        BY <1>4, HandleFrame, ArchiveType
    <2>2. CASE tree' = tree
        BY <1>2, <2>1, <2>2
    <2>3. ASSUME NEW p, NEW d \in BOOLEAN, Adds(p, d)
          PROVE  Explained'
        <3>1. \E j \in 1..Len(archive') :
                 /\ j <= i' /\ ~archive'[j].isDir
                 /\ IF tree'[p].dir THEN IsStrictPrefix(p, Named(j)') ELSE p = Named(j)'
            <4>1. tree'[p].dir <=> d
                <5>1. tree'[p] = [dir |-> d, w |-> TRUE, data |-> <<>>]
                    BY <2>3, AddsFacts
                <5>2. CASE d = TRUE
                    <6>1. tree'[p] = [dir |-> TRUE, w |-> TRUE, data |-> <<>>]
                        BY <5>1, <5>2
                    <6> QED BY <6>1, <5>2
                <5>3. CASE d = FALSE
                    <6>1. tree'[p] = [dir |-> FALSE, w |-> TRUE, data |-> <<>>]
                        BY <5>1, <5>3
                    <6> QED BY <6>1, <5>3
                <5> QED BY <5>2, <5>3
            <4> QED BY <2>1, <2>3, <4>1, SameArchive DEF Adds
        <3>2. \A q \in DOMAIN tree' \ DOMAIN old' :
                 q # p => q \in DOMAIN tree \ DOMAIN old /\ tree'[q] = tree[q]
            BY <2>1, <2>3, AddsFacts
        <3> QED BY <2>1, <3>1, <3>2, SameArchive DEF Explained
    <2>4. CASE Appends
        BY <2>1, <2>4, AppendsFacts, SameArchive DEF Explained
    <2> QED BY <1>4, <2>2, <2>3, <2>4, HandleTree
<1> QED BY <1>1, <1>3, <1>4 DEF Next

Allowed ==
    \A p \in DOMAIN tree :
        p \notin DOMAIN old \/ tree[p] # old[p] => IsPrefix(Root, p) /\ WritableTo(p)

(* No step makes read-only what was not. *)
LEMMA WritableStays ==
    ASSUME \A q \in DOMAIN tree : tree'[q].w = tree[q].w,
           \A q \in DOMAIN tree' \ DOMAIN tree : tree'[q].w
    PROVE  \A p : WritableTo(p) => WritableTo(p)'
BY DEF WritableTo

LEMMA AddsWritable ==
    ASSUME TypeOK, NEW p, NEW d \in BOOLEAN, Adds(p, d)
    PROVE  tree'[p].w /\ \A q : WritableTo(q) => WritableTo(q)'
<1>1. /\ DOMAIN tree' = DOMAIN tree \cup {p}
      /\ \A q \in DOMAIN tree : tree'[q] = tree[q]
    BY AddsFacts
<1>2. tree'[p].w
    <2>1. tree'[p] = [dir |-> d, w |-> TRUE, data |-> <<>>]
        BY AddsFacts
    <2>2. CASE d = TRUE
        <3>1. tree'[p] = [dir |-> TRUE, w |-> TRUE, data |-> <<>>]
            BY <2>1, <2>2
        <3> QED BY <3>1
    <2>3. CASE d = FALSE
        <3>1. tree'[p] = [dir |-> FALSE, w |-> TRUE, data |-> <<>>]
            BY <2>1, <2>3
        <3> QED BY <3>1
    <2> QED BY <2>2, <2>3
<1> QED BY <1>1, <1>2, WritableStays

(* What a call is about is in the claimed directory. *)
LEMMA TargetIsBelow ==
    ASSUME TypeOK, PlaceOK, NEW call, call.name \in Seq(Component), IsDir(call)
    PROVE  /\ Target(call) \in Path /\ IsPrefix(Root, Target(call))
           /\ \A q \in Path :
                 IsPrefix(q, Target(call)) => q = Target(call) \/ IsPrefix(q, Base(call))
<1>1. /\ call.name[1] \in Segment /\ Base(call) \in Path /\ Root \in Path
      /\ Target(call) = Append(Base(call), call.name[1]) /\ Target(call) \in Path
    BY ChildOfBase, ServerAssumption
<1>2. IsPrefix(Root, Base(call))
    <2>1. CASE call.on = "root"
        BY <2>1, <1>1, PrefixReflexive DEF Base
    <2>2. CASE call.on # "root"
        <3>1. Base(call) = dir /\ dir # Broken
            BY <2>2, Zenon DEF Base, IsDir
        <3> QED BY <3>1 DEF PlaceOK
    <2> QED BY <2>1, <2>2
<1> QED BY <1>1, <1>2, PrefixOfChild

LEMMA PlaceOfHandle ==
    ASSUME TypeOK, QueueOK, PlaceOK, Handle
    PROVE  /\ \A p \in DOMAIN tree' \ DOMAIN tree : IsPrefix(Root, p) /\ WritableTo(p)
           /\ \A p : WritableTo(p) => WritableTo(p)'
           /\ PlaceOK'
<1> DEFINE call == Head(queue)
<1>1. queue # <<>> /\ call = queue[1]
    BY HandleFrame, HeadOfQueue
<1>2. call.method # "write" => call.name \in Seq(Component)
    <2>1. IsWrite(1) => call.method = "write"
        BY <1>1 DEF IsWrite
    <2> QED BY <2>1, <1>1, HeadOfQueue, MethodOfHead
<1>3. \A p : WritableTo(p) => WritableTo(p)'
    <2>1. CASE tree' = tree
        BY <2>1 DEF WritableTo
    <2>2. CASE \E p : \E d \in BOOLEAN : Adds(p, d)
        BY <2>2, AddsWritable
    <2>3. CASE Appends
        BY <2>3, AppendsFacts, WritableStays
    <2> QED BY <2>1, <2>2, <2>3, HandleTree
<1>4. ASSUME MayAdd(call), call.method # "write"
      PROVE  IsPrefix(Root, Target(call)) /\ WritableTo(Target(call))
    <2>1. IsDir(call) /\ WritableTo(Base(call)) /\ Target(call) \notin DOMAIN tree
        BY <1>4 DEF MayAdd
    <2>2. WritableTo(Target(call))
        BY <1>2, <1>4, <2>1, TargetIsBelow DEF WritableTo, TypeOK
    <2> QED BY <1>2, <1>4, <2>1, <2>2, TargetIsBelow
<1>5. CASE Mkdir(call)
    <2>1. call.method # "write" /\ UNCHANGED <<dir, file>>
        BY <1>5 DEF Mkdir
    <2>2. \A p \in DOMAIN tree' \ DOMAIN tree : MayAdd(call) /\ p = Target(call)
        BY <1>5 DEF Mkdir, WithNode
    <2> QED BY <1>3, <1>4, <2>1, <2>2 DEF PlaceOK
<1>6. CASE Walk(call)
    <2>1. call.method # "write" /\ UNCHANGED <<tree, file>>
        BY <1>6 DEF Walk
    <2>2. dir' = Broken \/ (dir' = Target(call) /\ IsDir(call))
        BY <1>6 DEF Walk
    <2>3. dir' # Broken => IsPrefix(Root, dir')
        BY <1>2, <2>1, <2>2, TargetIsBelow
    <2> QED BY <1>3, <2>1, <2>3 DEF PlaceOK
<1>7. CASE Create(call)
    <2>1. call.method # "write" /\ UNCHANGED dir
        BY <1>7 DEF Create
    <2>2. \A p \in DOMAIN tree' \ DOMAIN tree : MayAdd(call) /\ p = Target(call)
        BY <1>7 DEF Create, WithNode
    <2>3. file' = Broken \/ (file' = Target(call) /\ (MayAdd(call) \/ OpenOld(call)))
        BY <1>7 DEF Create
    <2>4. ASSUME OpenOld(call)
          PROVE  IsPrefix(Root, Target(call)) /\ WritableTo(Target(call))
        <3>1. /\ IsDir(call) /\ WritableTo(Base(call))
              /\ tree[Target(call)].w
            BY <2>4 DEF OpenOld
        <3>2. WritableTo(Target(call))
            BY <1>2, <2>1, <3>1, TargetIsBelow DEF WritableTo, TypeOK
        <3> QED BY <1>2, <2>1, <3>1, <3>2, TargetIsBelow
    <2>5. file' # Broken => IsPrefix(Root, file') /\ WritableTo(file)'
        <3>1. PICK f : f = Target(call)
            OBVIOUS
        <3>2. file' # Broken => file' = f /\ IsPrefix(Root, f) /\ WritableTo(f)
            BY <1>4, <2>1, <2>3, <2>4, <3>1
        <3>3. WritableTo(f) => WritableTo(f)'
            BY <1>3
        <3> QED BY <3>2, <3>3 DEF WritableTo
    <2> QED BY <1>3, <1>4, <2>1, <2>2, <2>5 DEF PlaceOK
<1>8. CASE Write(call)
    <2>1. UNCHANGED <<dir, file>> /\ DOMAIN tree' = DOMAIN tree
        BY <1>1, <1>8, WriteAppends
    <2>2. WritableTo(file) => WritableTo(file)'
        <3>1. PICK f : f = file
            OBVIOUS
        <3> QED BY <1>3, <2>1, <3>1 DEF WritableTo
    <2> QED BY <1>3, <2>1, <2>2 DEF PlaceOK
<1> QED BY <1>3, <1>5, <1>6, <1>7, <1>8 DEF Handle

LEMMA AllowedStep ==
    ASSUME TypeOK, QueueOK, PlaceOK, Allowed, [Next]_vars
    PROVE  PlaceOK' /\ Allowed'
<1>1. CASE Upload
    BY <1>1 DEF Upload, server, PlaceOK, Allowed, WritableTo
<1>2. CASE uploader \/ Lose \/ UNCHANGED vars
    <2>1. UNCHANGED <<tree, old>>
        BY <1>2, ClientFrame
    <2>2. UNCHANGED <<dir, file>>
        BY <1>2 DEF uploader, SkipDir, StartEntry, OpenFails, CopyChunk, CopyGoesOn, CopyFails,
              EntryDone, Finish, Answer, Lose, server, client, vars
    <2> QED BY <2>1, <2>2 DEF PlaceOK, Allowed, WritableTo
<1>3. CASE Handle
    <2>1. /\ old' = old /\ PlaceOK'
          /\ \A p \in DOMAIN tree' \ DOMAIN tree : IsPrefix(Root, p) /\ WritableTo(p)
          /\ \A p : WritableTo(p) => WritableTo(p)'
        BY <1>3, HandleFrame, PlaceOfHandle
    <2> SUFFICES ASSUME NEW p \in DOMAIN tree', p \notin DOMAIN old \/ tree'[p] # old[p]
                 PROVE  IsPrefix(Root, p) /\ WritableTo(p)
        BY <2>1 DEF Allowed
    <2>2. CASE p \notin DOMAIN tree
        BY <2>1, <2>2
    <2>3. CASE p \in DOMAIN tree /\ tree'[p] = tree[p]
        BY <2>3 DEF Allowed
    <2>4. CASE p \in DOMAIN tree /\ tree'[p] # tree[p]
        <3>1. p = file
            BY <1>3, <2>4, HandleTree, AddsFacts, AppendsFacts
        <3>2. file # Broken
            BY <3>1, <2>4, ResultAssumption DEF TypeOK
        <3> QED BY <3>1, <3>2 DEF PlaceOK
    <2> QED BY <2>2, <2>3, <2>4
<1> QED BY <1>1, <1>2, <1>3 DEF Next
-----------------------------------------------------------------------------
(***************************************************************************)
(* What is in the files.                                                   *)
(***************************************************************************)
Run(j, n) == [k \in 1..n |-> <<j, k>>]

LEMMA RunFacts ==
    ASSUME NEW j \in Nat, NEW n \in Nat
    PROVE  /\ Run(j, n) \in Seq(Data) /\ Len(Run(j, n)) = n /\ Run(j, 0) = <<>>
           /\ Run(j, n + 1) = Append(Run(j, n), <<j, n + 1>>)
<1> DEFINE s == Run(j, n)
           t == Run(j, n + 1)
           u == Append(s, <<j, n + 1>>)
<1>1. \A m \in Nat : Run(j, m) \in Seq(Data)
    <2> TAKE m \in Nat
    <2>1. \A k \in 1..m : <<j, k>> \in Data
        BY DEF Data
    <2> QED BY <2>1, IsASeq DEF Run
<1>2. \A m \in Nat : Len(Run(j, m)) = m
    BY <1>1, LenProperties DEF Run
<1>3. /\ \A k \in 1..n : s[k] = <<j, k>>
      /\ \A k \in 1..(n + 1) : t[k] = <<j, k>>
    BY DEF Run
<1>4. <<j, n + 1>> \in Data /\ n + 1 \in Nat
    BY DEF Data
<1>5. s \in Seq(Data) /\ Len(s) = n /\ t \in Seq(Data) /\ Len(t) = n + 1
    BY <1>1, <1>2, <1>4
<1>6. Run(j, 0) = <<>>
    BY <1>1, <1>2, EmptySeq
<1> DEFINE x == <<j, n + 1>>
<1>7. t[n + 1] = x
    BY <1>3
<1> HIDE DEF s, t, x
<1>8. /\ u \in Seq(Data) /\ Len(u) = n + 1
      /\ \A k \in 1..n : u[k] = s[k]
      /\ u[n + 1] = x
    BY <1>4, <1>5, AppendProperties DEF x
<1> HIDE DEF u
<1>9. \A k \in 1..(n + 1) : t[k] = u[k]
    <2>1. \A k \in 1..(n + 1) : k \in 1..n \/ k = n + 1
        OBVIOUS
    <2>2. \A k \in 1..n : t[k] = u[k]
        BY <1>3, <1>8
    <2> QED BY <2>1, <2>2, <1>7, <1>8
<1>10. t = u
    BY <1>4, <1>5, <1>8, <1>9, SeqEqual
<1> QED BY <1>5, <1>6, <1>10 DEF s, t, u, x

LEMMA RunGrows ==
    ASSUME NEW j \in Nat, NEW m \in Nat, NEW n \in Nat, m <= n
    PROVE  IsPrefix(Run(j, m), Run(j, n))
<1> DEFINE s == Run(j, m)
           t == Run(j, n)
           v == SubSeq(s, 1, m)
           w == SubSeq(t, 1, m)
<1>1. s \in Seq(Data) /\ Len(s) = m /\ t \in Seq(Data) /\ Len(t) = n
    BY RunFacts
<1>2. \A k \in 1..m : s[k] = t[k] /\ s[k] \in Data
    BY DEF Run, Data
<1> HIDE DEF s, t
<1>3. /\ v \in Seq(Data) /\ Len(v) = m /\ \A k \in 1..m : v[k] = s[k]
      /\ w \in Seq(Data) /\ Len(w) = m /\ \A k \in 1..m : w[k] = t[k]
    BY <1>1, <1>2, SubSeqProperties
<1> HIDE DEF v, w
<1>4. v = w
    BY <1>2, <1>3, SeqEqual
<1> QED BY <1>1, <1>4 DEF IsPrefix, s, t, v, w

LEMMA SameContents ==
    ASSUME UNCHANGED <<old, archive, i>>
    PROVE  /\ \A p : Contents(p, i - 1)' = Contents(p, i - 1)
           /\ \A p : Written' = Written => Begun(p)' = Begun(p)
BY DEF Contents, Named, Begun

(* What does not add to a tree leaves the contents as they are. *)
LEMMA SameData ==
    ASSUME DataOK, UNCHANGED <<tree, old, archive, i>>, Written' = Written
    PROVE  DataOK'
BY SameContents, SameArchive DEF DataOK

LEMMA WrittenFacts ==
    ASSUME TypeOK, ProgressOK
    PROVE  /\ Written \in Nat /\ sent \in Nat /\ i \in Nat
           /\ Written > 0 => i \in 1..Len(archive)
           /\ ~Copying /\ status # "500" => Written = 0
<1>1. sent \in Nat /\ i \in 1..(Len(archive) + 1) /\ Len(archive) \in Nat
    BY ArchiveType DEF TypeOK
<1>2. Written = 0 \/ Written = sent \/ (sent # 0 /\ Written = sent - 1)
    BY DEF Written
<1>3. Written > 0 => Copying \/ status = "500"
    BY DEF Written
<1> QED BY <1>1, <1>2, <1>3 DEF ProgressOK, Written

LEMMA BegunType ==
    ASSUME TypeOK, ProgressOK, NEW p
    PROVE  Begun(p) \in Seq(Data)
BY WrittenFacts, RunFacts, EmptySeq DEF Begun, Run

(* Going on to the next entry when this one's piece is complete. *)
LEMMA NextEntryData ==
    ASSUME TypeOK, OldOK, ProgressOK, DataOK, UNCHANGED <<tree, old, archive>>,
           i \in 1..Len(archive), i' = i + 1, Written' = 0, \A p : Begun(p) = Piece(p, i)
    PROVE  DataOK'
<1>1. PICK n \in 1..Len(archive) : n = i
    OBVIOUS
<1>2. n \in Nat /\ (n + 1) - 1 = n /\ i' = n + 1 /\ i' - 1 = n
    BY <1>1, ArchiveType
<1>3. \A p : Contents(p, i - 1)' = Contents(p, n) /\ Begun(p)' = <<>>
    <2>1. \A p : Begun(p)' = <<>>
        BY DEF Begun
    <2>2. \A p : Contents(p, i - 1)' = Contents(p, n)
        BY <1>2 DEF Contents, Named
    <2> QED BY <2>1, <2>2
<1>4. \A p : /\ Contents(p, n - 1) \in Seq(Data) /\ Contents(p, n) \in Seq(Data)
             /\ Contents(p, n) = Contents(p, n - 1) \o Begun(p)
    BY <1>1, ContentsStep
<1>5. ASSUME NEW p \in Path
      PROVE  IF p \in DOMAIN tree' THEN tree'[p].data = Contents(p, i - 1)' \o Begun(p)'
             ELSE Contents(p, i - 1)' = <<>>
    <2>1. CASE p \in DOMAIN tree
        <3>1. tree[p].data = Contents(p, n)
            BY <2>1, <1>1, <1>4 DEF DataOK
        <3>2. Contents(p, n) \o <<>> = Contents(p, n)
            BY <1>4, ConcatEmptySeq
        <3> QED BY <2>1, <3>1, <3>2, <1>3
    <2>2. CASE p \notin DOMAIN tree
        <3>1. Contents(p, n - 1) = <<>>
            BY <2>2, <1>1 DEF DataOK
        <3>2. Begun(p) = <<>>
            BY <2>2 DEF DataOK, Begun
        <3>3. <<>> \o <<>> = <<>>
            BY <1>4, <3>1, ConcatEmptySeq
        <3> QED BY <2>2, <3>1, <3>2, <3>3, <1>3, <1>4
    <2> QED BY <2>1, <2>2
<1>6. \A j \in 1..n :
          ~archive[j].isDir /\ archive[j].chunks > 0 => Named(j) \in DOMAIN tree
    <2> SUFFICES ASSUME NEW j \in 1..n, ~archive[j].isDir, archive[j].chunks > 0
                 PROVE  Named(j) \in DOMAIN tree
        OBVIOUS
    <2>1. CASE j # n
        <3>1. j \in 1..(i - 1)
            BY <2>1, <1>1, <1>2
        <3> QED BY <3>1 DEF DataOK
    <2>2. CASE j = n
        <3>1. archive[n].chunks \in Nat
            BY EntryFacts DEF Entry
        <3>2. Piece(Named(n), n) = Run(n, archive[n].chunks)
            BY <2>2 DEF Piece, Run
        <3>3. Piece(Named(n), n) # <<>>
            <4>1. Len(Run(n, archive[n].chunks)) = archive[n].chunks
                BY <3>1, <1>2, RunFacts
            <4>2. archive[n].chunks # 0 /\ Len(<<>>) = 0
                BY <2>2, <3>1, EmptySeq
            <4> QED BY <3>2, <4>1, <4>2
        <3>4. Written > 0
            BY <3>3, <1>1 DEF Begun
        <3> QED BY <2>2, <3>4, <1>1 DEF DataOK
    <2> QED BY <2>1, <2>2
<1>7. \A j : Named(j)' = Named(j)
    BY SameArchive
<1> QED BY <1>2, <1>5, <1>6, <1>7 DEF DataOK
(* A new node is empty, and no entry before was to be put there. *)
LEMMA AddsData ==
    ASSUME TypeOK, ProgressOK, DataOK, Handle, reply' = reply,
           NEW p, NEW d \in BOOLEAN, Adds(p, d)
    PROVE  DataOK'
<1>1. UNCHANGED <<old, archive, i, pc, sent, status>>
    BY HandleFrame
<1>2. Written' = Written
    BY <1>1 DEF Written, Copying
<1>3. \A q : Contents(q, i - 1)' = Contents(q, i - 1) /\ Begun(q)' = Begun(q)
    BY <1>1, <1>2, SameContents
<1>4. /\ DOMAIN tree' = DOMAIN tree \cup {p} /\ p \in Path \ DOMAIN tree
      /\ tree'[p].data = <<>>
      /\ \A q \in DOMAIN tree : tree'[q] = tree[q]
    <2>1. tree'[p] = [dir |-> d, w |-> TRUE, data |-> <<>>]
        BY AddsFacts
    <2>2. tree'[p].data = <<>>
        <3>1. CASE d = TRUE
            <4>1. tree'[p] = [dir |-> TRUE, w |-> TRUE, data |-> <<>>]
                BY <2>1, <3>1
            <4> QED BY <4>1
        <3>2. CASE d = FALSE
            <4>1. tree'[p] = [dir |-> FALSE, w |-> TRUE, data |-> <<>>]
                BY <2>1, <3>2
            <4> QED BY <4>1
        <3> QED BY <3>1, <3>2
    <2>3. /\ DOMAIN tree' = DOMAIN tree \cup {p} /\ p \in Path \ DOMAIN tree
          /\ \A q \in DOMAIN tree : tree'[q] = tree[q]
        BY AddsFacts
    <2> QED BY <2>2, <2>3
<1>5. Contents(p, i - 1) = <<>> /\ Begun(p) = <<>>
    BY <1>4 DEF DataOK, Begun
<1>6. <<>> \o <<>> = <<>>
    BY EmptySeq, ConcatEmptySeq
<1>7. ASSUME NEW q \in Path
      PROVE  IF q \in DOMAIN tree' THEN tree'[q].data = Contents(q, i - 1)' \o Begun(q)'
             ELSE Contents(q, i - 1)' = <<>>
    <2>1. CASE q = p
        BY <2>1, <1>3, <1>4, <1>5, <1>6
    <2>2. CASE q # p
        <3>1. q \in DOMAIN tree' <=> q \in DOMAIN tree
            BY <2>2, <1>4
        <3>2. IF q \in DOMAIN tree THEN tree[q].data = Contents(q, i - 1) \o Begun(q)
              ELSE Contents(q, i - 1) = <<>>
            BY DEF DataOK
        <3> QED BY <3>1, <3>2, <1>3, <1>4
    <2> QED BY <2>1, <2>2
<1> QED BY <1>1, <1>2, <1>4, <1>7, SameArchive DEF DataOK

(* A chunk is the next one of the entry that the upload has come to, and its file is open. *)
LEMMA AppendsData ==
    ASSUME TypeOK, OldOK, QueueOK, ProgressOK, FileOK, DataOK, Handle, Appends
    PROVE  DataOK'
<1>1. UNCHANGED <<old, archive, i, pc, sent, status>> /\ reply' = "ok" /\ queue # <<>>
    BY HandleFrame DEF Appends
<1>2. /\ pc = "wait" /\ reply = NoReply /\ Len(queue) = 1 /\ conn = "up"
    BY <1>1 DEF Appends, IsWrite, QueueOK, TypeOK
<1>3. PICK p \in Path : p = file /\ p = Named(i) /\ p \in DOMAIN tree
    <2>1. Ahead = 0
        BY <1>2 DEF Ahead
    <2>2. file \in {Broken, Named(i)}
        BY <1>2, <2>1 DEF FileOK, Copying
    <2> QED BY <2>2, ResultAssumption DEF Appends, TypeOK
<1>4. sent \in Nat \ {0} /\ i \in Nat /\ i \in 1..Len(archive) /\ reply # "ok"
    BY <1>2, WrittenFacts, ArchiveType, ResultAssumption DEF ProgressOK, Copying
<1>5. Written = sent - 1 /\ Written' = sent
    BY <1>1, <1>2, <1>4 DEF Written, Copying
<1>6. PICK n \in Nat : n = sent - 1 /\ n + 1 = sent
    BY <1>4
<1>7. \A q : Contents(q, i - 1)' = Contents(q, i - 1) /\ Named(i)' = Named(i)
    BY <1>1, SameContents DEF Named
<1>8. Begun(p) = Run(i, n) /\ Begun(p)' = Run(i, n + 1)
    <2>1. Run(i, 0) = <<>>
        BY <1>4, RunFacts
    <2>2. Begun(p) = Run(i, n)
        BY <1>3, <1>5, <1>6, <2>1 DEF Begun, Run
    <2>3. Begun(p)' = Run(i, n + 1)
        BY <1>1, <1>3, <1>4, <1>5, <1>6, <1>7 DEF Begun, Run
    <2> QED BY <2>2, <2>3
<1> DEFINE x == <<i, sent>>
<1>9. Run(i, n + 1) = Append(Run(i, n), x) /\ Run(i, n) \in Seq(Data) /\ x \in Data
    BY <1>4, <1>6, RunFacts DEF Data
<1>10. tree'[p].data = Append(tree[p].data, x) /\ DOMAIN tree' = DOMAIN tree
    BY <1>3, AppendsFacts
<1> HIDE DEF x
<1>11. tree[p].data = Contents(p, i - 1) \o Run(i, n) /\ Contents(p, i - 1) \in Seq(Data)
    <2>1. Contents(p, i - 1) \in Seq(Data)
        BY <1>4, ContentsStep
    <2> QED BY <2>1, <1>3, <1>8 DEF DataOK
<1>12. tree'[p].data = Contents(p, i - 1)' \o Begun(p)'
    <2> DEFINE c == Contents(p, i - 1)
               r == Run(i, n)
    <2> HIDE DEF c, r
    <2>1. c \in Seq(Data) /\ r \in Seq(Data) /\ x \in Data /\ <<x>> \in Seq(Data)
        BY <1>9, <1>11 DEF c, r
    <2>2. Append(c \o r, x) = (c \o r) \o <<x>> /\ Append(r, x) = r \o <<x>>
        BY <2>1, AppendIsConcat, ConcatProperties
    <2>3. (c \o r) \o <<x>> = c \o (r \o <<x>>)
        BY <2>1, ConcatAssociative
    <2> QED BY <2>2, <2>3, <1>7, <1>8, <1>9, <1>10, <1>11 DEF c, r
<1>13. ASSUME NEW q \in Path
       PROVE  IF q \in DOMAIN tree' THEN tree'[q].data = Contents(q, i - 1)' \o Begun(q)'
              ELSE Contents(q, i - 1)' = <<>>
    <2>1. CASE q = p
        BY <2>1, <1>3, <1>10, <1>12
    <2>2. CASE q # p
        <3>1. Begun(q) = <<>> /\ Begun(q)' = <<>>
            BY <2>2, <1>3, <1>7 DEF Begun
        <3>2. IF q \in DOMAIN tree THEN tree[q].data = Contents(q, i - 1) \o Begun(q)
              ELSE Contents(q, i - 1) = <<>>
            BY DEF DataOK
        <3>3. q \in DOMAIN tree => tree'[q] = tree[q]
            BY <2>2, <1>3, AppendsFacts
        <3> QED BY <3>1, <3>2, <3>3, <1>7, <1>10
    <2> QED BY <2>1, <2>2
<1>14. Named(i)' \in DOMAIN tree'
    BY <1>3, <1>7, <1>10
<1> QED BY <1>1, <1>10, <1>13, <1>14, SameArchive DEF DataOK

(* An upload begins with what it finds. *)
LEMMA UploadData ==
    ASSUME TypeOK, Upload
    PROVE  DataOK'
<1>1. /\ i' = 1 /\ i' - 1 = 0 /\ tree' = tree /\ old' = tree
      /\ pc' = "entry" /\ status' = "none"
    BY DEF Upload, server
<1>2. Written' = 0
    BY <1>1 DEF Written, Copying
<1>3. ASSUME NEW p \in Path
      PROVE  Begun(p)' = <<>> /\ Contents(p, i - 1)' = IF p \in DOMAIN tree THEN tree[p].data ELSE <<>>
    <2>1. Begun(p)' = <<>>
        BY <1>2 DEF Begun
    <2> DEFINE before == IF p \in DOMAIN tree THEN tree[p].data ELSE <<>>
               e(j) == IF (Named(j) = p /\ ~archive[j].isDir)'
                       THEN [k \in 1..archive'[j].chunks |-> <<j, k>>] ELSE <<>>
               none == [j \in 1..0 |-> e(j)]
    <2>2. Contents(p, i - 1)' = before \o FlattenSeq(none)
        BY <1>1 DEF Contents
    <2>3. none = <<>>
        <3> HIDE DEF e
        <3>1. none \in Seq(Data)
            <4>1. 0 \in Nat /\ \A j \in 1..0 : e(j) \in Data
                OBVIOUS
            <4> QED BY <4>1, IsASeq
        <3>2. Len(none) = 0
            BY <3>1, LenProperties
        <3> QED BY <3>1, <3>2, EmptySeq
    <2>4. FlattenSeq(<<>>) = <<>>
        BY EmptySeq DEF FlattenSeq
    <2>5. before \in Seq(Data)
        BY EmptySeq DEF TypeOK, Inode, Data
    <2> QED BY <2>1, <2>2, <2>3, <2>4, <2>5, ConcatEmptySeq
<1>4. ASSUME NEW p \in Path
      PROVE  IF p \in DOMAIN tree' THEN tree'[p].data = Contents(p, i - 1)' \o Begun(p)'
             ELSE Contents(p, i - 1)' = <<>>
    <2>1. CASE p \in DOMAIN tree
        <3>1. tree[p].data \in Seq(Data)
            BY <2>1 DEF TypeOK, Inode, Data
        <3> QED BY <2>1, <3>1, <1>1, <1>3, ConcatEmptySeq
    <2>2. CASE p \notin DOMAIN tree
        BY <2>2, <1>1, <1>3
    <2> QED BY <2>1, <2>2
<1> QED BY <1>1, <1>2, <1>4 DEF DataOK
LEMMA DataStep ==
    ASSUME TypeOK, OldOK, QueueOK, ProgressOK, FileOK, DataOK, [Next]_vars
    PROVE  DataOK'
<1>1. /\ sent \in Nat /\ i \in Nat /\ reply \in {NoReply, "ok", "error"}
      /\ i \in 1..(Len(archive) + 1) /\ Len(archive) \in Nat
    BY WrittenFacts, ArchiveType DEF TypeOK
<1>2. CASE Upload
    BY <1>2, UploadData
<1>3. CASE SkipDir
    <2>1. /\ i \in 1..Len(archive) /\ archive[i].isDir /\ i' = i + 1
          /\ UNCHANGED <<tree, old, archive, pc, status, sent>> /\ pc = "entry"
        BY <1>1, <1>3 DEF SkipDir, server
    <2>2. Written = 0 /\ Written' = 0
        BY <2>1 DEF Written, Copying, ProgressOK
    <2>3. \A p : Begun(p) = Piece(p, i)
        BY <2>1, <2>2 DEF Begun, Piece
    <2> QED BY <2>1, <2>2, <2>3, NextEntryData
<1>4. CASE EntryDone
    <2>1. /\ pc = "copy" /\ sent = archive[i].chunks /\ i' = i + 1
          /\ pc' = "entry" /\ UNCHANGED <<tree, old, archive, status>>
        BY <1>4 DEF EntryDone, server
    <2>2. i \in 1..Len(archive) /\ ~archive[i].isDir /\ status = "none"
        BY <1>1, <2>1 DEF ProgressOK, Copying
    <2>3. Written' = 0
        BY <2>1, <2>2 DEF Written, Copying
    <2>4. Written = sent
        BY <1>1, <2>1 DEF Written, Copying, ProgressOK
    <2>5. \A p : Begun(p) = Piece(p, i)
        <3>1. Run(i, 0) = <<>>
            BY <1>1, RunFacts
        <3> QED BY <1>1, <2>1, <2>2, <2>4, <3>1 DEF Begun, Piece, Run
    <2> QED BY <2>1, <2>2, <2>3, <2>5, NextEntryData
<1>5. CASE StartEntry
    <2>1. /\ UNCHANGED <<tree, old, archive, i, status>>
          /\ pc = "entry" /\ sent' = 0
        BY <1>5 DEF StartEntry, server
    <2>2. Written = 0 /\ Written' = 0
        BY <2>1 DEF Written, Copying, ProgressOK
    <2> QED BY <2>1, <2>2, SameData
<1>6. CASE OpenFails \/ Finish
    <2>1. /\ UNCHANGED <<tree, old, archive, i>>
          /\ pc = "entry" /\ pc' = "idle" /\ status' \in {"400", "303"}
        BY <1>6 DEF OpenFails, Finish, Answer, server
    <2>2. Written = 0 /\ Written' = 0
        BY <2>1 DEF Written, Copying, ProgressOK
    <2> QED BY <2>1, <2>2, SameData
<1>7. CASE CopyChunk
    <2>1. /\ UNCHANGED <<tree, old, archive, i>>
          /\ pc = "copy" /\ pc' = "wait" /\ sent' = sent + 1 /\ reply' = NoReply
        BY <1>7 DEF CopyChunk, server
    <2>2. Written = sent
        BY <1>1, <2>1 DEF Written, Copying, ProgressOK
    <2>3. Written' = sent
        <3>1. sent' # 0 /\ sent' - 1 = sent
            BY <1>1, <2>1
        <3> QED BY <2>1, <3>1, ResultAssumption DEF Written, Copying
    <2> QED BY <2>1, <2>2, <2>3, SameData
<1>8. CASE CopyGoesOn
    <2>1. /\ UNCHANGED <<tree, old, archive, i, sent, reply, status>>
          /\ pc = "wait" /\ pc' = "copy"
        BY <1>8 DEF CopyGoesOn, server
    <2> QED BY <2>1, SameData DEF Written, Copying
<1>9. CASE CopyFails
    <2>1. /\ UNCHANGED <<tree, old, archive, i, sent, reply>>
          /\ pc \in {"copy", "wait"} /\ status' = "500"
        BY <1>9 DEF CopyFails, Answer, server
    <2> QED BY <2>1, SameData DEF Written, Copying
<1>10. CASE Lose \/ UNCHANGED vars
    <2>1. UNCHANGED <<tree, old, archive, i, sent, reply, pc, status>>
        BY <1>10 DEF Lose, vars, server, client
    <2> QED BY <2>1, SameData DEF Written, Copying
<1>11. CASE Handle
    <2>1. UNCHANGED <<old, archive, i, sent, pc, status>>
        BY <1>11, HandleFrame
    <2>2. CASE tree' = tree /\ reply' = reply
        BY <2>1, <2>2, SameData DEF Written, Copying
    <2>3. CASE (\E p : \E d \in BOOLEAN : Adds(p, d)) /\ reply' = reply
        BY <1>11, <2>3, AddsData
    <2>4. CASE tree' = tree /\ IsWrite(1) /\ reply' = "error"
        <3>1. reply = NoReply /\ reply # "ok" /\ reply' # "ok"
            BY <2>4, ResultAssumption DEF IsWrite
        <3> QED BY <2>1, <2>4, <3>1, SameData DEF Written, Copying
    <2>5. CASE Appends
        BY <1>11, <2>5, AppendsData
    <2> QED BY <1>11, <2>2, <2>3, <2>4, <2>5, HandleTree
<1> QED BY <1>2, <1>3, <1>4, <1>5, <1>6, <1>7, <1>8, <1>9, <1>10, <1>11 DEF Next, uploader
-----------------------------------------------------------------------------
(***************************************************************************)
(* The invariant holds at first and every step keeps it.                   *)
(***************************************************************************)
LEMMA OnlyArchiveAddedParts == OnlyArchiveAdded <=> Kept /\ Explained /\ Allowed
BY DEF OnlyArchiveAdded, Kept, Explained, Allowed

LEMMA InvInit == Init => Inv
<1> SUFFICES ASSUME Init PROVE Inv
    OBVIOUS
<1>1. TypeOK /\ OldOK
    BY TypeInit
<1>2. /\ archive = <<>> /\ Len(archive) = 0 /\ queue = <<>> /\ Len(queue) = 0
      /\ i = 1 /\ sent = 0 /\ pc = "idle" /\ status = "none" /\ conn = "up" /\ old = tree
    BY EmptySeq DEF Init
<1>3. QueueOK /\ ProgressOK /\ FileOK
    BY <1>2 DEF QueueOK, ProgressOK, FileOK, Copying
<1>4. \A p \in DOMAIN tree : tree[p].data \in Seq(Data)
    BY <1>1 DEF TypeOK, Inode, Data
<1>5. OnlyArchiveAdded
    BY <1>2, <1>4, DataPrefixReflexive DEF OnlyArchiveAdded
<1>6. Written = 0
    BY <1>2 DEF Written
<1>7. ASSUME NEW p \in Path
      PROVE  IF p \in DOMAIN tree THEN tree[p].data = Contents(p, i - 1) \o Begun(p)
             ELSE Contents(p, i - 1) = <<>>
    <2>1. Begun(p) = <<>> /\ Contents(p, i - 1) = Before(p)
        <3>1. i - 1 = 0
            BY <1>2
        <3> QED BY <1>1, <1>6, <3>1, ContentsNone DEF Begun
    <2>2. CASE p \in DOMAIN tree
        BY <2>1, <2>2, <1>2, <1>4, ConcatEmptySeq DEF Before
    <2>3. CASE p \notin DOMAIN tree
        BY <2>1, <2>3, <1>2 DEF Before
    <2> QED BY <2>2, <2>3
<1>8. DataOK
    BY <1>2, <1>6, <1>7 DEF DataOK
<1>9. PlaceOK
    BY DEF Init, PlaceOK
<1> QED BY <1>1, <1>3, <1>5, <1>8, <1>9 DEF Inv

LEMMA InvStep == Inv /\ [Next]_vars => Inv'
<1> SUFFICES ASSUME Inv, [Next]_vars PROVE Inv'
    OBVIOUS
<1>1. TypeOK /\ OldOK /\ QueueOK /\ ProgressOK /\ FileOK /\ DataOK
      /\ PlaceOK /\ Kept /\ Explained /\ Allowed
    BY OnlyArchiveAddedParts DEF Inv
<1>2. TypeOK'
    <2>1. CASE Handle
        BY <1>1, <2>1, TypeOfHandle
    <2>2. CASE uploader
        BY <1>1, <2>2, TypeOfUploader
    <2>3. CASE Upload \/ Lose
        BY <1>1, <2>3, TypeOfUpload
    <2>4. CASE UNCHANGED vars
        BY <1>1, <2>4 DEF TypeOK, vars, server, client
    <2> QED BY <2>1, <2>2, <2>3, <2>4 DEF Next
<1>3. OldOK' /\ QueueOK' /\ ProgressOK' /\ FileOK' /\ DataOK'
    BY <1>1, OldStep, QueueStep, ProgressStep, FileStep, DataStep
<1>4. Kept' /\ Explained' /\ Allowed' /\ PlaceOK'
    BY <1>1, KeptStep, ExplainedStep, AllowedStep
<1>5. OnlyArchiveAdded'
    BY <1>4 DEF OnlyArchiveAdded, Kept, Explained, Allowed
<1> QED BY <1>2, <1>3, <1>4, <1>5 DEF Inv

(***************************************************************************)
(* The whole inductive invariant: the types, what appears in the tree, the *)
(* calls under way, the uploader's progress and the exact contents of      *)
(* every file.                                                             *)
(***************************************************************************)
THEOREM Invariant == Spec => []Inv
<1>1. Init => Inv
    BY InvInit
<1>2. Inv /\ [Next]_vars => Inv'
    BY InvStep
<1> QED BY <1>1, <1>2, PTL DEF Spec

(* Every variable keeps its type. *)
THEOREM TypeCorrect == Spec => []TypeOK
<1>1. Inv => TypeOK
    BY DEF Inv
<1> QED BY <1>1, Invariant, PTL

(***************************************************************************)
(* However an upload ends, nothing that was there is lost, and what        *)
(* appears is an entry that the upload has come to, or a directory on the  *)
(* way to one; nothing changes outside the claimed directory, nor what may *)
(* not be written to (the calls of the "/zipfile" handler).                *)
(***************************************************************************)
THEOREM OnlyAdds == Spec => []OnlyArchiveAdded
<1>1. Inv => OnlyArchiveAdded
    BY DEF Inv
<1> QED BY <1>1, Invariant, PTL

(* The invariant says what belongs in a file, up to the chunk last written. *)
LEMMA WhatBelongs == Inv => DataInPlace
<1> SUFFICES ASSUME Inv, NEW p \in DOMAIN tree
             PROVE  IsPrefix(tree[p].data, Contents(p, Len(archive)))
    BY DEF DataInPlace
<1>1. TypeOK /\ OldOK /\ ProgressOK /\ DataOK /\ p \in Path
    BY DEF Inv, TypeOK
<1>2. tree[p].data = Contents(p, i - 1) \o Begun(p)
    BY <1>1 DEF DataOK
<1>3. /\ i \in 1..(Len(archive) + 1) /\ Len(archive) \in Nat
      /\ i - 1 \in 0..Len(archive) /\ Len(archive) \in 0..Len(archive)
    BY <1>1, ArchiveType
<1>4. Contents(p, i - 1) \in Seq(Data) /\ Contents(p, Len(archive)) \in Seq(Data)
    BY <1>1, <1>3, ContentsType
<1>5. CASE Begun(p) = <<>>
    <2>1. tree[p].data = Contents(p, i - 1)
        BY <1>2, <1>4, <1>5, ConcatEmptySeq
    <2> QED BY <1>1, <1>3, <2>1, ContentsGrow
<1>6. CASE Begun(p) # <<>>
    <2>1. Written > 0 /\ Named(i) = p /\ Begun(p) = Run(i, Written)
        BY <1>6 DEF Begun, Run
    <2>2. i \in 1..Len(archive) /\ ~archive[i].isDir /\ Written <= archive[i].chunks
        <3>1. Copying \/ status = "500"
            BY <2>1 DEF Written
        <3>2. Written <= sent
            BY <1>1, WrittenFacts DEF Written
        <3>3. i \in 1..Len(archive) /\ ~archive[i].isDir /\ sent <= archive[i].chunks
            BY <1>1, <2>1, <3>1, WrittenFacts DEF ProgressOK
        <3>4. archive[i].chunks \in Nat
            BY <1>1, <3>3, EntryFacts DEF Entry
        <3> QED BY <1>1, <3>2, <3>3, <3>4, WrittenFacts
    <2>3. Piece(p, i) = Run(i, archive[i].chunks)
        BY <2>1, <2>2 DEF Piece, Run
    <2>4. \E u \in Seq(Data) : Piece(p, i) = Begun(p) \o u
        <3>1. archive[i].chunks \in Nat /\ Written \in Nat /\ i \in Nat
            BY <1>1, <2>2, EntryFacts, WrittenFacts DEF Entry
        <3>2. IsPrefix(Run(i, Written), Run(i, archive[i].chunks))
            BY <2>2, <3>1, RunGrows
        <3>3. Run(i, Written) \in Seq(Data) /\ Run(i, archive[i].chunks) \in Seq(Data)
            BY <3>1, RunFacts
        <3>4. \E u \in Seq(Data) : Run(i, archive[i].chunks) = Run(i, Written) \o u
            BY <3>2, <3>3, PrefixIsConcat
        <3> QED BY <2>1, <2>3, <3>4
    <2>5. PICK u \in Seq(Data) : Piece(p, i) = Begun(p) \o u
        BY <2>4
    <2>6. Contents(p, i) = Contents(p, i - 1) \o (Begun(p) \o u) /\ Contents(p, i) \in Seq(Data)
        BY <1>1, <2>2, <2>5, ContentsStep
    <2>7. Begun(p) \in Seq(Data) /\ tree[p].data \in Seq(Data)
        BY <1>1, BegunType DEF TypeOK, Inode, Data
    <2>8. Contents(p, i) = tree[p].data \o u
        <3>1. (Contents(p, i - 1) \o Begun(p)) \o u = Contents(p, i - 1) \o (Begun(p) \o u)
            BY <1>4, <2>5, <2>7, ConcatAssociative
        <3> QED BY <1>2, <2>6, <3>1
    <2>9. IsPrefix(tree[p].data, Contents(p, i))
        BY <2>5, <2>7, <2>8, PrefixOfConcat
    <2>10. IsPrefix(Contents(p, i), Contents(p, Len(archive)))
        BY <1>1, <1>3, <2>2, ContentsGrow
    <2> QED BY <1>4, <2>6, <2>7, <2>9, <2>10, DataPrefixTransitive
<1> QED BY <1>5, <1>6

(***************************************************************************)
(* Every byte that was added to a file belongs there, in the archive's     *)
(* order: the writes of io.Copy in the "/zipfile" handler.                 *)
(***************************************************************************)
THEOREM DataStays == Spec => []DataInPlace
<1> QED BY WhatBelongs, Invariant, PTL

(***************************************************************************)
(* When the user is sent back to the front page, every file of the archive *)
(* with something in it is where its name says, with all of its data (the  *)
(* 303 at the end of the "/zipfile" handler).                              *)
(***************************************************************************)
THEOREM Success == Spec => []SuccessIsComplete
<1>1. Inv => SuccessIsComplete
    <2> SUFFICES ASSUME Inv, status = "303", NEW j \in 1..Len(archive),
                        ~archive[j].isDir, archive[j].chunks > 0
                 PROVE  /\ Named(j) \in DOMAIN tree
                        /\ tree[Named(j)].data = Contents(Named(j), Len(archive))
        BY DEF SuccessIsComplete
    <2>1. TypeOK /\ OldOK /\ ProgressOK /\ DataOK
        BY DEF Inv
    <2>2. /\ i - 1 = Len(archive) /\ Len(archive) \in Nat
          /\ Len(archive) \in 0..Len(archive) /\ j \in 1..(i - 1)
        BY <2>1, ArchiveType DEF ProgressOK
    <2>3. Named(j) \in DOMAIN tree /\ Named(j) \in Path
        BY <2>1, <2>2 DEF DataOK, TypeOK
    <2>4. Written = 0
        BY <2>1, WrittenFacts DEF ProgressOK, Copying
    <2>5. tree[Named(j)].data = Contents(Named(j), Len(archive)) \o <<>>
        BY <2>1, <2>2, <2>3, <2>4 DEF DataOK, Begun
    <2>6. Contents(Named(j), Len(archive)) \in Seq(Data)
        BY <2>1, <2>2, ContentsType
    <2> QED BY <2>3, <2>5, <2>6, ConcatEmptySeq
<1> QED BY <1>1, Invariant, PTL
=============================================================================
