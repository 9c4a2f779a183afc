---------------------------- MODULE ReplicaProofs ----------------------------
(***************************************************************************)
(* Proofs about Simulation, for every set of workloads: the tables of each *)
(* daemon are what the messages it knows add up to (SharedInv), so prior   *)
(* stays behind stable and daemons that know the whole log agree.          *)
(*                                                                         *)
(* Each operator on a daemon's record has a lemma that it keeps DaemonOK;  *)
(* the lemmas about operators that fold over a sequence (ReadAll,          *)
(* CommitRows, CommitActions, PlaceLosers) are inductions along the fold,  *)
(* by UpTo, of a set of indices.                                           *)
(***************************************************************************)
EXTENDS ReplicaInvariant, FiniteSetTheorems, SequenceTheorems, WellFoundedInduction, TLAPS

\* Induction up to n, for a set.
LEMMA UpTo ==
    ASSUME NEW n \in Nat, NEW S, 0 \in S, \A k \in 0 .. n - 1 : k \in S => k + 1 \in S
    PROVE  n \in S
<1> SUFFICES ASSUME n \notin S PROVE FALSE
  OBVIOUS
<1> DEFINE Q == {k \in Nat : k <= n /\ k \notin S}
<1>1. Q \subseteq Nat /\ Q # {}
  OBVIOUS
<1>2. PICK x \in Q : \A y \in Q : ~(<<y, x>> \in OpToRel(<, Nat))
  BY <1>1, NatLessThanWellFounded, WFMin
<1>3. \A y \in Q : ~(y < x)
  BY <1>1, <1>2 DEF OpToRel
<1>4. x # 0
  OBVIOUS
<1>5. x - 1 \in Nat /\ x - 1 < x /\ x - 1 <= n /\ x - 1 \in 0 .. n - 1
  BY <1>4
<1>6. x - 1 \in S
  BY <1>3, <1>5
<1>7. x - 1 + 1 = x
  OBVIOUS
<1> QED  BY <1>5, <1>6, <1>7
-----------------------------------------------------------------------------
(* Sequences of unknown elements.                                          *)

\* A sequence over any set is one over its own elements.
LEMMA SeqIntro ==
    ASSUME NEW S, NEW q \in Seq(S)
    PROVE  /\ IsSeq(q) /\ Len(q) \in Nat /\ DOMAIN q = 1 .. Len(q)
           /\ \A i \in 1 .. Len(q) : q[i] \in S
<1>1. Len(q) \in Nat /\ DOMAIN q = 1 .. Len(q) /\ \A i \in 1 .. Len(q) : q[i] \in S
  BY LenProperties, ElementOfSeq
<1>2. q = [i \in 1 .. Len(q) |-> q[i]]
  BY <1>1, LenProperties
<1>3. \A i \in 1 .. Len(q) : q[i] \in Range(q)
  BY <1>1 DEF Range
<1>4. q \in [1 .. Len(q) -> Range(q)]
  BY <1>2, <1>3
<1>5. q \in Seq(Range(q))
  BY <1>1, <1>4, SeqDef
<1> QED  BY <1>1, <1>5 DEF IsSeq

\* The length and the domain of a sequence.
LEMMA SeqLen ==
    ASSUME NEW q, IsSeq(q)
    PROVE  Len(q) \in Nat /\ DOMAIN q = 1 .. Len(q) /\ \A i \in 1 .. Len(q) : q[i] \in Range(q)
BY LenProperties, ElementOfSeq DEF IsSeq

\* A function on 1 .. n is a sequence of length n.
LEMMA SeqOfFunction ==
    ASSUME NEW n \in Nat, NEW q, q = [i \in 1 .. n |-> q[i]]
    PROVE  IsSeq(q) /\ Len(q) = n
<1>1. q \in [1 .. n -> Range(q)]
  <2>1. \A i \in 1 .. n : q[i] \in Range(q)
    BY DEF Range
  <2> QED  BY <2>1
<1>2. q \in Seq(Range(q))
  BY <1>1, SeqDef
<1> QED  BY <1>1, <1>2, LenProperties DEF IsSeq

\* The empty sequence.
LEMMA EmptyIsSeq == IsSeq(<<>>) /\ DOMAIN <<>> = {} /\ Len(<<>>) = 0 /\ Range(<<>>) = {}
BY EmptySeq DEF IsSeq, Range

\* Only the empty sequence has length 0.
LEMMA SeqEmptyLen ==
    ASSUME NEW q, IsSeq(q) PROVE q = <<>> <=> Len(q) = 0
BY EmptySeq DEF IsSeq

\* What Append does to a sequence.
LEMMA SeqAppend ==
    ASSUME NEW q, NEW x, IsSeq(q)
    PROVE  LET r == Append(q, x)
           IN  /\ IsSeq(r) /\ Len(r) = Len(q) + 1 /\ Range(r) = Range(q) \cup {x}
               /\ DOMAIN r = 1 .. Len(q) + 1
               /\ r[Len(q) + 1] = x /\ \A i \in 1 .. Len(q) : r[i] = q[i]
<1> DEFINE S == Range(q) \cup {x}
           r == Append(q, x)
<1>1. q \in Seq(S) /\ x \in S
  BY SeqMonotonic DEF IsSeq
<1>2. /\ r \in Seq(S) /\ Len(r) = Len(q) + 1 /\ \A i \in 1 .. Len(q) : r[i] = q[i]
      /\ r[Len(q) + 1] = x
  BY <1>1, AppendProperties
<1> HIDE DEF r
<1>3. IsSeq(r) /\ DOMAIN r = 1 .. Len(q) + 1
  BY <1>2, SeqIntro
<1>4. Len(q) \in Nat /\ DOMAIN q = 1 .. Len(q)
  BY SeqLen
<1>5. Range(r) = S
  <2>1. Range(r) \subseteq S
    BY <1>2, <1>3, SeqIntro DEF Range
  <2>2. ASSUME NEW y \in S PROVE y \in Range(r)
    <3>1. CASE y = x
      BY <1>2, <1>3, <1>4, <3>1 DEF Range
    <3>2. CASE y \in Range(q)
      <4>1. PICK i \in 1 .. Len(q) : y = q[i]
        BY <1>4, <3>2 DEF Range
      <4>2. i \in DOMAIN r /\ r[i] = y
        BY <1>2, <1>3, <1>4, <4>1
      <4> QED  BY <4>2 DEF Range
    <3> QED  BY <3>1, <3>2
  <2> QED  BY <2>1, <2>2
<1> QED  BY <1>2, <1>3, <1>5 DEF r

\* What a concatenation is made of.
LEMMA SeqConcat ==
    ASSUME NEW q, NEW r, IsSeq(q), IsSeq(r)
    PROVE  LET c == q \o r
           IN  /\ IsSeq(c) /\ Len(c) = Len(q) + Len(r) /\ Range(c) = Range(q) \cup Range(r)
               /\ DOMAIN c = 1 .. Len(q) + Len(r)
               /\ \A i \in 1 .. Len(q) : c[i] = q[i]
               /\ \A i \in 1 .. Len(r) : c[Len(q) + i] = r[i]
<1> DEFINE S == Range(q) \cup Range(r)
           c == q \o r
<1>1. q \in Seq(S) /\ r \in Seq(S)
  BY SeqMonotonic DEF IsSeq
<1>2. c \in Seq(S) /\ Len(c) = Len(q) + Len(r)
  BY <1>1, ConcatProperties
<1>3. \A i \in 1 .. Len(q) + Len(r) : c[i] = IF i <= Len(q) THEN q[i] ELSE r[i - Len(q)]
  BY <1>1, ConcatProperties
<1> HIDE DEF c
<1>4. /\ Len(q) \in Nat /\ DOMAIN q = 1 .. Len(q)
      /\ Len(r) \in Nat /\ DOMAIN r = 1 .. Len(r)
  BY SeqLen
<1>5. IsSeq(c) /\ DOMAIN c = 1 .. Len(q) + Len(r)
  BY <1>2, SeqIntro
<1>6. \A i \in 1 .. Len(q) : i \in 1 .. Len(q) + Len(r) /\ c[i] = q[i]
  BY <1>3, <1>4
<1>7. \A i \in 1 .. Len(r) : Len(q) + i \in 1 .. Len(q) + Len(r) /\ c[Len(q) + i] = r[i]
  <2> SUFFICES ASSUME NEW i \in 1 .. Len(r)
               PROVE  Len(q) + i \in 1 .. Len(q) + Len(r) /\ c[Len(q) + i] = r[i]
    OBVIOUS
  <2>1. Len(q) + i \in 1 .. Len(q) + Len(r) /\ ~(Len(q) + i <= Len(q)) /\ Len(q) + i - Len(q) = i
    BY <1>4
  <2> QED  BY <1>3, <2>1
<1>8. Range(c) = S
  <2>1. Range(c) \subseteq S
    BY <1>2, <1>5, SeqIntro DEF Range
  <2>2. Range(q) \subseteq Range(c)
    BY <1>4, <1>5, <1>6 DEF Range
  <2>3. Range(r) \subseteq Range(c)
    BY <1>4, <1>5, <1>7 DEF Range
  <2> QED  BY <2>1, <2>2, <2>3
<1> QED  BY <1>2, <1>5, <1>6, <1>7, <1>8 DEF c

\* The head and the tail of a sequence that is not empty.
LEMMA SeqTail ==
    ASSUME NEW q, IsSeq(q), q # <<>>
    PROVE  /\ IsSeq(Tail(q)) /\ Head(q) = q[1] /\ 1 \in DOMAIN q
           /\ \A i \in DOMAIN Tail(q) : i + 1 \in DOMAIN q /\ Tail(q)[i] = q[i + 1]
<1>1. q \in Seq(Range(q))
  BY DEF IsSeq
<1>2. /\ Head(q) \in Range(q) /\ Tail(q) \in Seq(Range(q)) /\ Len(Tail(q)) = Len(q) - 1
      /\ \A i \in 1 .. Len(Tail(q)) : Tail(q)[i] = q[i + 1]
  BY <1>1, HeadTailProperties
<1>3. Len(q) \in Nat /\ DOMAIN q = 1 .. Len(q) /\ Len(q) # 0
  BY <1>1, SeqLen, EmptySeq
<1>4. Head(q) = q[1]
  BY <1>1
<1>5. IsSeq(Tail(q)) /\ DOMAIN Tail(q) = 1 .. Len(q) - 1
  BY <1>2, <1>3, SeqIntro
<1>6. \A i \in 1 .. Len(q) - 1 : i + 1 \in 1 .. Len(q)
  BY <1>3
<1> QED  BY <1>2, <1>3, <1>4, <1>5, <1>6

\* The domain of a tail.
LEMMA TailDomain ==
    ASSUME NEW q, IsSeq(q), q # <<>>
    PROVE  DOMAIN Tail(q) = 1 .. Len(q) - 1
<1>1. q \in Seq(Range(q))
  BY DEF IsSeq
<1>2. Tail(q) \in Seq(Range(q)) /\ Len(Tail(q)) = Len(q) - 1
  BY <1>1, HeadTailProperties
<1> QED  BY <1>2, SeqIntro

-----------------------------------------------------------------------------
(* Folds.                                                                  *)

\* One step of each of the folds, by its kind k.
StepOf(k, d, x, y) ==
    IF k = "read" THEN ReadOne(d, x, y)
    ELSE IF k = "row" THEN CommitRow(d, x, y)
    ELSE IF k = "action" THEN CommitAction(x, y)
    ELSE PlaceLoser(x, y)

\* g is the function, on sets of indices, by which FoldLeft is defined.
IsFold(k, d, s, q, n, g) ==
    g = [Q \in SUBSET (1 .. n) |->
            IF Q = {} THEN s ELSE StepOf(k, d, g[Q \ {Max(Q)}], q[Max(Q)])]

\* Max of a set of numbers that has its upper bound m.
LEMMA MaxOfUpTo ==
    ASSUME NEW m \in Nat, NEW Q, Q \subseteq 1 .. m, m \in Q
    PROVE  Max(Q) = m
<1>1. m \in Q /\ \A y \in Q : m >= y
  OBVIOUS
<1>2. Max(Q) \in Q /\ \A y \in Q : Max(Q) >= y
  BY <1>1 DEF Max
<1> DEFINE x == Max(Q)
<1>3. x \in Q /\ x >= m
  BY <1>2, Zenon
<1> HIDE DEF x
<1>4. x \in 1 .. m
  BY <1>3
<1>5. x = m
  BY <1>3, <1>4
<1> QED  BY <1>5 DEF x

\* The function that FoldLeft chooses exists, by induction on the length.
LEMMA FoldExists ==
    ASSUME NEW k, NEW d, NEW s, NEW q, NEW n \in Nat
    PROVE  \E g : IsFold(k, d, s, q, n, g)
<1> DEFINE S == {m \in Nat : \E g : IsFold(k, d, s, q, m, g)}
<1>1. 0 \in S
  <2> DEFINE g == [Q \in SUBSET (1 .. 0) |-> s]
  <2>1. \A Q \in SUBSET (1 .. 0) : Q = {}
    OBVIOUS
  <2>2. g = [Q \in SUBSET (1 .. 0) |->
            IF Q = {} THEN s ELSE StepOf(k, d, g[Q \ {Max(Q)}], q[Max(Q)])]
    BY <2>1
  <2>3. IsFold(k, d, s, q, 0, g)
    BY <2>2 DEF IsFold
  <2> QED  BY <2>3
<1>2. ASSUME NEW m \in 0 .. n - 1, m \in S PROVE m + 1 \in S
  <2>1. PICK g : IsFold(k, d, s, q, m, g)
    BY <1>2
  <2> DEFINE h == [Q \in SUBSET (1 .. m + 1) |->
                     IF m + 1 \in Q THEN StepOf(k, d, g[Q \ {m + 1}], q[m + 1]) ELSE g[Q]]
  <2>2. m \in Nat /\ m + 1 \in Nat
    OBVIOUS
  <2>3. ASSUME NEW Q \in SUBSET (1 .. m + 1)
        PROVE  h[Q] = IF Q = {} THEN s ELSE StepOf(k, d, h[Q \ {Max(Q)}], q[Max(Q)])
    <3>1. CASE m + 1 \in Q
      <4>1. Max(Q) = m + 1
        BY <2>2, <3>1, MaxOfUpTo
      <4>2. Q \ {m + 1} \in SUBSET (1 .. m + 1) /\ m + 1 \notin Q \ {m + 1} /\ Q # {}
        BY <3>1
      <4>3. h[Q \ {m + 1}] = g[Q \ {m + 1}]
        BY <4>2
      <4> QED  BY <3>1, <4>1, <4>2, <4>3
    <3>2. CASE m + 1 \notin Q
      <4>1. Q \in SUBSET (1 .. m) /\ h[Q] = g[Q]
        BY <2>2, <3>2
      <4>2. g[Q] = IF Q = {} THEN s ELSE StepOf(k, d, g[Q \ {Max(Q)}], q[Max(Q)])
        BY <2>1, <4>1 DEF IsFold
      <4>3. Q \ {Max(Q)} \in SUBSET (1 .. m + 1) /\ m + 1 \notin Q \ {Max(Q)}
        BY <3>2
      <4>4. h[Q \ {Max(Q)}] = g[Q \ {Max(Q)}]
        BY <4>3
      <4> QED  BY <4>1, <4>2, <4>4
    <3> QED  BY <3>1, <3>2
  <2>4. DOMAIN h = SUBSET (1 .. m + 1) /\ h = [Q \in SUBSET (1 .. m + 1) |-> h[Q]]
    OBVIOUS
  <2> HIDE DEF h
  <2>5. h = [Q \in SUBSET (1 .. m + 1) |->
               IF Q = {} THEN s ELSE StepOf(k, d, h[Q \ {Max(Q)}], q[Max(Q)])]
    BY <2>3, <2>4, Zenon
  <2>6. IsFold(k, d, s, q, m + 1, h)
    BY <2>5 DEF IsFold
  <2> QED  BY <2>2, <2>6
<1> HIDE DEF S
<1>3. n \in S
  BY <1>1, <1>2, UpTo
<1> QED  BY <1>3 DEF S

\* h are the values a fold goes through, step by step.
IsRun(k, d, s, q, h) ==
    /\ h[0] = s
    /\ \A i \in 1 .. Len(q) : h[i] = StepOf(k, d, h[i - 1], q[i])

\* The values a fold goes through.
LEMMA FoldRun ==
    ASSUME NEW k, NEW d, NEW s, NEW q, IsSeq(q), NEW g, IsFold(k, d, s, q, Len(q), g)
    PROVE  \E h : IsRun(k, d, s, q, h) /\ h[Len(q)] = g[DOMAIN q]
<1> DEFINE n == Len(q)
           h == [i \in 0 .. n |-> g[1 .. i]]
<1>1. n \in Nat /\ DOMAIN q = 1 .. n
  BY SeqLen
<1>2. \A Q \in SUBSET (1 .. n) :
         g[Q] = IF Q = {} THEN s ELSE StepOf(k, d, g[Q \ {Max(Q)}], q[Max(Q)])
  BY DEF IsFold
<1>3. h[0] = s
  <2>1. 1 .. 0 = {} /\ 0 \in 0 .. n /\ {} \in SUBSET (1 .. n)
    BY <1>1
  <2> QED  BY <1>2, <2>1
<1>4. ASSUME NEW i \in 1 .. n PROVE h[i] = StepOf(k, d, h[i - 1], q[i])
  <2>1. i \in Nat /\ i \in 1 .. i /\ 1 .. i \subseteq 1 .. i
    BY <1>1
  <2>2. Max(1 .. i) = i
    BY <2>1, MaxOfUpTo
  <2>3. (1 .. i) \ {i} = 1 .. i - 1 /\ 1 .. i \in SUBSET (1 .. n) /\ 1 .. i # {}
    <3>1. \A j : j \in (1 .. i) \ {i} <=> j \in 1 .. i - 1
      BY <1>1
    <3>2. (1 .. i) \ {i} = 1 .. i - 1
      BY <3>1, Zenon
    <3>3. 1 .. i \in SUBSET (1 .. n) /\ 1 .. i # {}
      BY <1>1
    <3> QED  BY <3>2, <3>3
  <2>4. i \in 0 .. n /\ i - 1 \in 0 .. n
    BY <1>1
  <2> QED  BY <1>2, <2>2, <2>3, <2>4
<1>5. h[n] = g[DOMAIN q]
  BY <1>1
<1> QED  BY <1>3, <1>4, <1>5 DEF IsRun

\* h are the values ReadAll goes through.
ReadRun(d, s, q, h) ==
    /\ h[0] = s /\ \A i \in 1 .. Len(q) : h[i] = ReadOne(d, h[i - 1], q[i])
    /\ ReadAll(d, s, q) = h[Len(q)]

\* ReadAll is ReadOne path by path.
LEMMA ReadFold ==
    ASSUME NEW d, NEW s, NEW q, IsSeq(q)
    PROVE  \E h : ReadRun(d, s, q, h)
<1>1. Len(q) \in Nat /\ DOMAIN q = 1 .. Len(q)
  BY SeqLen
<1>2. PICK g : IsFold("read", d, s, q, Len(q), g)
  BY <1>1, FoldExists
<1>3. \A g1 : IsFold("read", d, s, q, Len(q), g1) <=>
              g1 = [Q \in SUBSET (DOMAIN q) |->
                     IF Q = {} THEN s ELSE ReadOne(d, g1[Q \ {Max(Q)}], q[Max(Q)])]
  BY <1>1, Zenon DEF IsFold, StepOf
<1>4. g = [Q \in SUBSET (DOMAIN q) |->
             IF Q = {} THEN s ELSE ReadOne(d, g[Q \ {Max(Q)}], q[Max(Q)])]
  BY <1>2, <1>3
<1>5. \E g1 : /\ g1 = [Q \in SUBSET (DOMAIN q) |->
                         IF Q = {} THEN s ELSE ReadOne(d, g1[Q \ {Max(Q)}], q[Max(Q)])]
              /\ ReadAll(d, s, q) = g1[DOMAIN q]
  BY <1>4, Zenon DEF ReadAll, FoldLeft, MapThenFoldSet
<1>6. PICK g1 : /\ IsFold("read", d, s, q, Len(q), g1)
                /\ ReadAll(d, s, q) = g1[DOMAIN q]
  BY <1>3, <1>5, Zenon
<1>7. PICK h : IsRun("read", d, s, q, h) /\ h[Len(q)] = g1[DOMAIN q]
  BY <1>6, FoldRun
<1> QED  BY <1>6, <1>7, Zenon DEF IsRun, StepOf, ReadRun

\* h are the values CommitRows goes through.
RowRun(d, s, q, h) ==
    /\ h[0] = s /\ \A i \in 1 .. Len(q) : h[i] = CommitRow(d, h[i - 1], q[i])
    /\ CommitRows(d, s, q) = h[Len(q)]

\* CommitRows is CommitRow row by row.
LEMMA RowFold ==
    ASSUME NEW d, NEW s, NEW q, IsSeq(q)
    PROVE  \E h : RowRun(d, s, q, h)
<1>1. Len(q) \in Nat /\ DOMAIN q = 1 .. Len(q)
  BY SeqLen
<1>2. PICK g : IsFold("row", d, s, q, Len(q), g)
  BY <1>1, FoldExists
<1>3. \A g1 : IsFold("row", d, s, q, Len(q), g1) <=>
              g1 = [Q \in SUBSET (DOMAIN q) |->
                     IF Q = {} THEN s ELSE CommitRow(d, g1[Q \ {Max(Q)}], q[Max(Q)])]
  BY <1>1, Zenon DEF IsFold, StepOf
<1>4. g = [Q \in SUBSET (DOMAIN q) |->
             IF Q = {} THEN s ELSE CommitRow(d, g[Q \ {Max(Q)}], q[Max(Q)])]
  BY <1>2, <1>3
<1>5. \E g1 : /\ g1 = [Q \in SUBSET (DOMAIN q) |->
                         IF Q = {} THEN s ELSE CommitRow(d, g1[Q \ {Max(Q)}], q[Max(Q)])]
              /\ CommitRows(d, s, q) = g1[DOMAIN q]
  BY <1>4, Zenon DEF CommitRows, FoldLeft, MapThenFoldSet
<1>6. PICK g1 : /\ IsFold("row", d, s, q, Len(q), g1)
                /\ CommitRows(d, s, q) = g1[DOMAIN q]
  BY <1>3, <1>5, Zenon
<1>7. PICK h : IsRun("row", d, s, q, h) /\ h[Len(q)] = g1[DOMAIN q]
  BY <1>6, FoldRun
<1> QED  BY <1>6, <1>7, Zenon DEF IsRun, StepOf, RowRun

\* h are the values CommitActions goes through.
ActionRun(s, q, h) ==
    /\ h[0] = s /\ \A i \in 1 .. Len(q) : h[i] = CommitAction(h[i - 1], q[i])
    /\ CommitActions(s, q) = h[Len(q)]

\* CommitActions is CommitAction action by action.
LEMMA ActionFold ==
    ASSUME NEW s, NEW q, IsSeq(q)
    PROVE  \E h : ActionRun(s, q, h)
<1>1. Len(q) \in Nat /\ DOMAIN q = 1 .. Len(q)
  BY SeqLen
<1>2. PICK g : IsFold("action", 0, s, q, Len(q), g)
  BY <1>1, FoldExists
<1>3. \A g1 : IsFold("action", 0, s, q, Len(q), g1) <=>
              g1 = [Q \in SUBSET (DOMAIN q) |->
                     IF Q = {} THEN s ELSE CommitAction(g1[Q \ {Max(Q)}], q[Max(Q)])]
  BY <1>1, Zenon DEF IsFold, StepOf
<1>4. g = [Q \in SUBSET (DOMAIN q) |->
             IF Q = {} THEN s ELSE CommitAction(g[Q \ {Max(Q)}], q[Max(Q)])]
  BY <1>2, <1>3
<1>5. \E g1 : /\ g1 = [Q \in SUBSET (DOMAIN q) |->
                         IF Q = {} THEN s ELSE CommitAction(g1[Q \ {Max(Q)}], q[Max(Q)])]
              /\ CommitActions(s, q) = g1[DOMAIN q]
  BY <1>4, Zenon DEF CommitActions, FoldLeft, MapThenFoldSet
<1>6. PICK g1 : /\ IsFold("action", 0, s, q, Len(q), g1)
                /\ CommitActions(s, q) = g1[DOMAIN q]
  BY <1>3, <1>5, Zenon
<1>7. PICK h : IsRun("action", 0, s, q, h) /\ h[Len(q)] = g1[DOMAIN q]
  BY <1>6, FoldRun
<1> QED  BY <1>6, <1>7, Zenon DEF IsRun, StepOf, ActionRun

\* h are the values PlaceLosers goes through.
LoserRun(s, q, h) ==
    /\ h[0] = s /\ \A i \in 1 .. Len(q) : h[i] = PlaceLoser(h[i - 1], q[i])
    /\ PlaceLosers(s, q) = h[Len(q)]

\* PlaceLosers is PlaceLoser claim by claim.
LEMMA LoserFold ==
    ASSUME NEW s, NEW q, IsSeq(q)
    PROVE  \E h : LoserRun(s, q, h)
<1>1. Len(q) \in Nat /\ DOMAIN q = 1 .. Len(q)
  BY SeqLen
<1>2. PICK g : IsFold("loser", 0, s, q, Len(q), g)
  BY <1>1, FoldExists
<1>3. \A g1 : IsFold("loser", 0, s, q, Len(q), g1) <=>
              g1 = [Q \in SUBSET (DOMAIN q) |->
                     IF Q = {} THEN s ELSE PlaceLoser(g1[Q \ {Max(Q)}], q[Max(Q)])]
  BY <1>1, Zenon DEF IsFold, StepOf
<1>4. g = [Q \in SUBSET (DOMAIN q) |->
             IF Q = {} THEN s ELSE PlaceLoser(g[Q \ {Max(Q)}], q[Max(Q)])]
  BY <1>2, <1>3
<1>5. \E g1 : /\ g1 = [Q \in SUBSET (DOMAIN q) |->
                         IF Q = {} THEN s ELSE PlaceLoser(g1[Q \ {Max(Q)}], q[Max(Q)])]
              /\ PlaceLosers(s, q) = g1[DOMAIN q]
  BY <1>4, Zenon DEF PlaceLosers, FoldLeft, MapThenFoldSet
<1>6. PICK g1 : /\ IsFold("loser", 0, s, q, Len(q), g1)
                /\ PlaceLosers(s, q) = g1[DOMAIN q]
  BY <1>3, <1>5, Zenon
<1>7. PICK h : IsRun("loser", 0, s, q, h) /\ h[Len(q)] = g1[DOMAIN q]
  BY <1>6, FoldRun
<1> QED  BY <1>6, <1>7, Zenon DEF IsRun, StepOf, LoserRun

-----------------------------------------------------------------------------
(* Sorted sets.                                                            *)

\* Sorted returns a sequence of the elements of its set, however they are ranked.
LEMMA SortedShape ==
    ASSUME NEW S, IsFiniteSet(S), NEW ranked, NEW r,
           ranked = [i \in 1 .. Cardinality(S) |-> ranked[i]],
           r = IF Range(ranked) = S THEN ranked
               ELSE CHOOSE q \in [1 .. Cardinality(S) -> S] : Range(q) = S
    PROVE  IsSeq(r) /\ Range(r) = S
<1>1. Cardinality(S) \in Nat
  BY FS_CardinalityType
<1>2. CASE Range(ranked) = S
  BY <1>1, <1>2, SeqOfFunction
<1>3. CASE Range(ranked) # S
  <2>0. PICK n \in Nat : ExistsBijection(1 .. n, S)
    BY FS_NatBijection
  <2>a. Cardinality(S) = n
    BY <2>0, FS_CountingElements
  <2>1. PICK f : f \in Bijection(1 .. Cardinality(S), S)
    BY <2>0, <2>a DEF ExistsBijection
  <2>2. f \in [1 .. Cardinality(S) -> S] /\ \A t \in S : \E i \in 1 .. Cardinality(S) : f[i] = t
    BY <2>1 DEF Bijection, Surjection
  <2>3. Range(f) = S
    BY <2>2 DEF Range
  <2>4. r \in [1 .. Cardinality(S) -> S] /\ Range(r) = S
    BY <1>3, <2>2, <2>3
  <2> QED  BY <1>1, <2>4, SeqOfFunction
<1> QED  BY <1>2, <1>3

\* SortedPaths lists the paths of a finite set.
LEMMA SortedPathsFacts ==
    ASSUME NEW S, IsFiniteSet(S)
    PROVE  IsSeq(SortedPaths(S)) /\ Range(SortedPaths(S)) = S
<1> DEFINE at(i) == CHOOSE x \in S : Cardinality({y \in S : Less(y, x)}) = i - 1
           ranked == [i \in 1 .. Cardinality(S) |-> at(i)]
<1>1. SortedPaths(S) = IF Range(ranked) = S THEN ranked
                       ELSE CHOOSE q \in [1 .. Cardinality(S) -> S] : Range(q) = S
  BY Zenon DEF SortedPaths, Sorted
<1> HIDE DEF at
<1>2. ranked = [i \in 1 .. Cardinality(S) |-> ranked[i]]
  OBVIOUS
<1> HIDE DEF ranked
<1> QED  BY <1>1, <1>2, SortedShape

\* SortedClaims lists the claims of a finite set.
LEMMA SortedClaimsFacts ==
    ASSUME NEW S, IsFiniteSet(S)
    PROVE  IsSeq(SortedClaims(S)) /\ Range(SortedClaims(S)) = S
<1> DEFINE at(i) == CHOOSE x \in S : Cardinality({y \in S : ClaimLess(y, x)}) = i - 1
           ranked == [i \in 1 .. Cardinality(S) |-> at(i)]
<1>1. SortedClaims(S) = IF Range(ranked) = S THEN ranked
                        ELSE CHOOSE q \in [1 .. Cardinality(S) -> S] : Range(q) = S
  BY Zenon DEF SortedClaims, Sorted
<1> HIDE DEF at
<1>2. ranked = [i \in 1 .. Cardinality(S) |-> ranked[i]]
  OBVIOUS
<1> HIDE DEF ranked
<1> QED  BY <1>1, <1>2, SortedShape
-----------------------------------------------------------------------------
(* Materialization.                                                        *)

\* A tree with finitely many paths, each placed for one of the claims C.
TreeOf(tree, C) ==
    /\ IsFiniteSet(DOMAIN tree)
    /\ \A p \in DOMAIN tree : \E c \in C : tree[p].object = c.object

\* What Put does to a function.
LEMMA PutFacts ==
    ASSUME NEW f, NEW x, NEW v
    PROVE  /\ DOMAIN Put(f, x, v) = DOMAIN f \cup {x}
           /\ Put(f, x, v)[x] = v
           /\ \A y \in DOMAIN f : y # x => Put(f, x, v)[y] = f[y]
           /\ Put(f, x, v) = [y \in DOMAIN Put(f, x, v) |-> Put(f, x, v)[y]]
           /\ IsFiniteSet(DOMAIN f) => IsFiniteSet(DOMAIN Put(f, x, v))
BY FS_AddElement DEF Put

\* A claim that lost its path adds a row for its own object.
LEMMA PlaceLoserTree ==
    ASSUME NEW C, NEW tree, TreeOf(tree, C), NEW c \in C
    PROVE  TreeOf(PlaceLoser(tree, c), C)
<1>1. CASE FreeConflictPaths(tree, c) = <<>>
  BY <1>1 DEF PlaceLoser
<1>2. CASE FreeConflictPaths(tree, c) # <<>>
  <2> DEFINE x == Head(FreeConflictPaths(tree, c))
             t == Put(tree, x, Place(c))
  <2>1. PlaceLoser(tree, c) = t
    BY <1>2 DEF PlaceLoser
  <2>2. Place(c).object = c.object
    BY DEF Place
  <2> HIDE DEF x
  <2>a. IsFiniteSet(DOMAIN tree)
    BY DEF TreeOf
  <2>b. DOMAIN t = DOMAIN tree \cup {x} /\ t[x] = Place(c)
        /\ \A y \in DOMAIN tree : y # x => t[y] = tree[y]
    BY DEF Put
  <2>c. IsFiniteSet(DOMAIN t)
    BY <2>a, PutFacts
  <2>3. DOMAIN t = DOMAIN tree \cup {x} /\ t[x] = Place(c) /\ IsFiniteSet(DOMAIN t)
        /\ \A y \in DOMAIN tree : y # x => t[y] = tree[y]
    BY <2>b, <2>c
  <2> HIDE DEF t
  <2> QED  BY <2>1, <2>2, <2>3 DEF TreeOf
<1> QED  BY <1>1, <1>2

\* Every row of a materialized tree belongs to the object of a claim.
LEMMA MaterializeTree ==
    ASSUME NEW ns, IsFiniteSet(ns.claims)
    PROVE  TreeOf(Materialize(ns), ns.claims)
<1> DEFINE C == ns.claims
           active == ActiveClaims(ns)
           winners == Winners(active)
           placed == [p \in {c.path : c \in winners} |->
                       Place(CHOOSE c \in winners : c.path = p)]
           losers == SortedClaims(active \ winners)
<1>1. winners \subseteq active /\ active \subseteq C
  BY DEF ActiveClaims, Winners
<1>2. IsFiniteSet(winners) /\ IsFiniteSet(active \ winners)
  BY <1>1, FS_Subset
<1>3. Materialize(ns) = PlaceLosers(placed, losers)
  BY DEF Materialize
<1>4. TreeOf(placed, C)
  <2>1. IsFiniteSet({c.path : c \in winners})
    <3> DEFINE P == {c.path : c \in winners}
               f == [c \in winners |-> c.path]
    <3>1. f \in Surjection(winners, P)
      BY DEF Surjection
    <3> HIDE DEF f, P
    <3>2. IsFiniteSet(P)
      BY <1>2, <3>1, FS_Surjection
    <3> QED  BY <3>2 DEF P
  <2>2. ASSUME NEW p \in {c.path : c \in winners}
        PROVE  \E c \in C : placed[p].object = c.object
    <3>1. (CHOOSE c \in winners : c.path = p) \in winners
      OBVIOUS
    <3>2. placed[p].object = (CHOOSE c \in winners : c.path = p).object
      BY DEF Place
    <3> QED  BY <1>1, <3>1, <3>2
  <2> QED  BY <2>1, <2>2 DEF TreeOf
<1>5. IsSeq(losers) /\ Range(losers) \subseteq C
  BY <1>1, <1>2, SortedClaimsFacts
<1> HIDE DEF placed, losers, C
<1>a. PICK h : LoserRun(placed, losers, h)
  BY <1>5, LoserFold
<1>6. /\ h[0] = placed
      /\ \A i \in 1 .. Len(losers) : h[i] = PlaceLoser(h[i - 1], losers[i])
      /\ PlaceLosers(placed, losers) = h[Len(losers)]
  BY <1>a, Zenon DEF LoserRun
<1>7. Len(losers) \in Nat /\ \A i \in 1 .. Len(losers) : losers[i] \in C
  BY <1>5, SeqLen
<1> DEFINE S == {i \in Nat : TreeOf(h[i], C)}
<1>8. 0 \in S
  BY <1>4, <1>6
<1>9. ASSUME NEW i \in 0 .. Len(losers) - 1, i \in S PROVE i + 1 \in S
  <2>1. i + 1 \in 1 .. Len(losers) /\ i + 1 \in Nat /\ i + 1 - 1 = i
    BY <1>7
  <2>2. h[i + 1] = PlaceLoser(h[i], losers[i + 1]) /\ losers[i + 1] \in C
    BY <1>6, <1>7, <2>1
  <2>3. TreeOf(h[i + 1], C)
    BY <1>9, <2>2, PlaceLoserTree
  <2> QED  BY <2>1, <2>3
<1> HIDE DEF S
<1>10. Len(losers) \in S
  BY <1>7, <1>8, <1>9, UpTo
<1> QED  BY <1>3, <1>6, <1>10 DEF S, C

-----------------------------------------------------------------------------
(* What messages add up to.                                                *)

\* One more message about an object.
LEMMA AboutPlus ==
    ASSUME NEW K, NEW m, NEW o
    PROVE  About(K \cup {m}, o) = IF m.object = o THEN About(K, o) \cup {m} ELSE About(K, o)
BY DEF About

\* A merged namespace update adds one message to what the tables reflect.
LEMMA ReflectsNs ==
    ASSUME NEW K, NEW t, NEW t2, NEW m, Reflects(K, t), m.object = <<>>,
           t2.ns = Merge(t.ns, m.update), t2.docs = t.docs,
           \A o \in DOMAIN t.docs : o # <<>>
    PROVE  Reflects(K \cup {m}, t2)
<1>1. About(K \cup {m}, <<>>) = About(K, <<>>) \cup {m}
  BY DEF About
<1>2. \A o \in DOMAIN t.docs : About(K \cup {m}, o) = About(K, o)
  BY AboutPlus
<1>3. /\ t2.ns.objects = t.ns.objects \cup m.update.objects
      /\ t2.ns.claims = t.ns.claims \cup m.update.claims
      /\ t2.ns.removed = t.ns.removed \cup m.update.removed
  BY DEF Merge
<1> DEFINE M == About(K, <<>>)
<1> HIDE DEF M
<1>4. UNION {x.update.objects : x \in M \cup {m}} = (UNION {x.update.objects : x \in M}) \cup m.update.objects
  OBVIOUS
<1>5. UNION {x.update.claims : x \in M \cup {m}} = (UNION {x.update.claims : x \in M}) \cup m.update.claims
  OBVIOUS
<1>6. UNION {x.update.removed : x \in M \cup {m}} = (UNION {x.update.removed : x \in M}) \cup m.update.removed
  OBVIOUS
<1>7. /\ t2.ns.objects = UNION {x.update.objects : x \in About(K \cup {m}, <<>>)}
      /\ t2.ns.claims = UNION {x.update.claims : x \in About(K \cup {m}, <<>>)}
      /\ t2.ns.removed = UNION {x.update.removed : x \in About(K \cup {m}, <<>>)}
  BY <1>1, <1>3, <1>4, <1>5, <1>6 DEF Reflects, M
<1>8. \A x \in K \cup {m} : x.object # <<>> => x.object \in DOMAIN t2.docs
  BY DEF Reflects
<1>9. \A o \in DOMAIN t2.docs :
          /\ DOMAIN t2.docs[o].ins = UNION {DOMAIN x.update.ins : x \in About(K \cup {m}, o)}
          /\ t2.docs[o].del = UNION {x.update.del : x \in About(K \cup {m}, o)}
  BY <1>2 DEF Reflects
<1> QED  BY <1>7, <1>8, <1>9 DEF Reflects

\* The documents with an update of one of them.
Edited(docs, o, update) == Put(docs, o, Apply(Lookup(docs, o), update))

\* new are the documents docs with the update of o, field by field.
IsEdit(docs, o, update, new) ==
    /\ DOMAIN new = DOMAIN docs \cup {o}
    /\ new = [x \in DOMAIN new |-> new[x]]
    /\ \A x \in DOMAIN docs : x # o => new[x] = docs[x]
    /\ IsDoc(new[o])
    /\ DOMAIN new[o].ins = DOMAIN Lookup(docs, o).ins \cup DOMAIN update.ins
    /\ new[o].del = Lookup(docs, o).del \cup update.del
    /\ \A i \in DOMAIN Lookup(docs, o).ins : new[o].ins[i] = Lookup(docs, o).ins[i]
    /\ \A i \in DOMAIN update.ins :
          i \notin DOMAIN Lookup(docs, o).ins => new[o].ins[i] = update.ins[i]

\* A document with an update applied, operation by operation.
LEMMA EditedFacts ==
    ASSUME NEW docs, NEW o, NEW update
    PROVE  IsEdit(docs, o, update, Edited(docs, o, update))
<1> DEFINE new == Edited(docs, o, update)
<1> DEFINE doc == Lookup(docs, o)
           a == Apply(doc, update)
<1> HIDE DEF doc
<1>1. /\ a.ins = [i \in DOMAIN doc.ins \cup DOMAIN update.ins |->
                    IF i \in DOMAIN doc.ins THEN doc.ins[i] ELSE update.ins[i]]
      /\ a.del = doc.del \cup update.del
      /\ a = [ins |-> a.ins, del |-> a.del]
  BY DEF Apply
<1> HIDE DEF a
<1>2. DOMAIN a.ins = DOMAIN doc.ins \cup DOMAIN update.ins /\ a.ins = [i \in DOMAIN a.ins |-> a.ins[i]]
  BY <1>1
<1>3. IsDoc(a)
  BY <1>1, <1>2 DEF IsDoc
<1>4. /\ \A i \in DOMAIN doc.ins : a.ins[i] = doc.ins[i]
      /\ \A i \in DOMAIN update.ins : i \notin DOMAIN doc.ins => a.ins[i] = update.ins[i]
  BY <1>1
<1>5. new = Put(docs, o, a)
  BY DEF Edited, a, doc
<1> HIDE DEF new
<1>6. /\ DOMAIN new = DOMAIN docs \cup {o} /\ new[o] = a
      /\ \A x \in DOMAIN docs : x # o => new[x] = docs[x]
      /\ new = [x \in DOMAIN new |-> new[x]]
  BY <1>5 DEF Put
<1>7. IsEdit(docs, o, update, new)
  BY <1>1, <1>2, <1>3, <1>4, <1>6 DEF doc, IsEdit
<1> QED  BY <1>7 DEF new

\* An applied text update adds one message to what the tables reflect.
LEMMA ReflectsText ==
    ASSUME NEW K, NEW t, NEW t2, NEW m, Reflects(K, t), m.object # <<>>,
           t2.ns = t.ns, t2.docs = Edited(t.docs, m.object, m.update)
    PROVE  Reflects(K \cup {m}, t2)
<1> DEFINE o == m.object
           doc == Lookup(t.docs, o)
           M == About(K, o)
<1>1. About(K \cup {m}, <<>>) = About(K, <<>>) /\ About(K \cup {m}, o) = M \cup {m}
      /\ \A x : x # o => About(K \cup {m}, x) = About(K, x)
  BY AboutPlus
<1>2. /\ DOMAIN t2.docs = DOMAIN t.docs \cup {o}
      /\ \A x \in DOMAIN t.docs : x # o => t2.docs[x] = t.docs[x]
      /\ DOMAIN t2.docs[o].ins = DOMAIN doc.ins \cup DOMAIN m.update.ins
      /\ t2.docs[o].del = doc.del \cup m.update.del
  <2>1. IsEdit(t.docs, o, m.update, t2.docs)
    BY EditedFacts
  <2> QED  BY <2>1 DEF IsEdit
<1>3. DOMAIN doc.ins = UNION {DOMAIN x.update.ins : x \in M} /\ doc.del = UNION {x.update.del : x \in M}
  <2>1. CASE o \in DOMAIN t.docs
    BY <2>1 DEF Reflects, Lookup
  <2>2. CASE o \notin DOMAIN t.docs
    <3>1. M = {}
      BY <2>2 DEF Reflects, About
    <3>2. doc = EmptyDoc /\ DOMAIN EmptyDoc.ins = {} /\ EmptyDoc.del = {}
      BY <2>2, EmptySeq DEF Lookup, EmptyDoc
    <3>3. UNION {DOMAIN x.update.ins : x \in M} = {} /\ UNION {x.update.del : x \in M} = {}
      BY <3>1
    <3> QED  BY <3>2, <3>3
  <2> QED  BY <2>1, <2>2
<1> HIDE DEF M, doc
<1>4. UNION {DOMAIN x.update.ins : x \in M \cup {m}} = (UNION {DOMAIN x.update.ins : x \in M}) \cup DOMAIN m.update.ins
  OBVIOUS
<1>5. UNION {x.update.del : x \in M \cup {m}} = (UNION {x.update.del : x \in M}) \cup m.update.del
  OBVIOUS
<1>6. \A x \in K \cup {m} : x.object # <<>> => x.object \in DOMAIN t2.docs
  BY <1>2 DEF Reflects
<1>7. ASSUME NEW y \in DOMAIN t2.docs
      PROVE  /\ DOMAIN t2.docs[y].ins = UNION {DOMAIN x.update.ins : x \in About(K \cup {m}, y)}
             /\ t2.docs[y].del = UNION {x.update.del : x \in About(K \cup {m}, y)}
  <2>1. CASE y = o
    BY <1>1, <1>2, <1>3, <1>4, <1>5, <2>1
  <2>2. CASE y # o
    BY <1>1, <1>2, <2>2 DEF Reflects
  <2> QED  BY <2>1, <2>2
<1>8. /\ t2.ns.objects = UNION {x.update.objects : x \in About(K \cup {m}, <<>>)}
      /\ t2.ns.claims = UNION {x.update.claims : x \in About(K \cup {m}, <<>>)}
      /\ t2.ns.removed = UNION {x.update.removed : x \in About(K \cup {m}, <<>>)}
  BY <1>1 DEF Reflects
<1> HIDE DEF o
<1> QED  BY <1>6, <1>7, <1>8 DEF Reflects

\* The empty document.
LEMMA EmptyDocFacts == EmptyDoc.ins = <<>> /\ DOMAIN EmptyDoc.ins = {} /\ EmptyDoc.del = {} /\ IsDoc(EmptyDoc)
BY EmptySeq DEF EmptyDoc, IsDoc

\* An empty update adds nothing.
LEMMA ReflectsNothing ==
    ASSUME NEW K, NEW t, NEW t2, NEW o, Reflects(K, t), o # <<>>,
           t2.ns = t.ns, t2.docs = Edited(t.docs, o, EmptyDoc)
    PROVE  Reflects(K, t2)
<1> DEFINE doc == Lookup(t.docs, o)
           M == About(K, o)
<1>2. /\ DOMAIN t2.docs = DOMAIN t.docs \cup {o}
      /\ \A x \in DOMAIN t.docs : x # o => t2.docs[x] = t.docs[x]
      /\ DOMAIN t2.docs[o].ins = DOMAIN doc.ins
      /\ t2.docs[o].del = doc.del
  <2>1. /\ DOMAIN t2.docs = DOMAIN t.docs \cup {o}
        /\ \A x \in DOMAIN t.docs : x # o => t2.docs[x] = t.docs[x]
        /\ DOMAIN t2.docs[o].ins = DOMAIN doc.ins \cup DOMAIN EmptyDoc.ins
        /\ t2.docs[o].del = doc.del \cup EmptyDoc.del
    <3>1. IsEdit(t.docs, o, EmptyDoc, t2.docs)
      BY EditedFacts
    <3> QED  BY <3>1 DEF IsEdit
  <2> QED  BY <2>1, EmptyDocFacts
<1>3. DOMAIN doc.ins = UNION {DOMAIN x.update.ins : x \in M} /\ doc.del = UNION {x.update.del : x \in M}
  <2>1. CASE o \in DOMAIN t.docs
    BY <2>1 DEF Reflects, Lookup
  <2>2. CASE o \notin DOMAIN t.docs
    <3>1. M = {}
      BY <2>2 DEF Reflects, About
    <3>2. doc = EmptyDoc
      BY <2>2 DEF Lookup
    <3>3. UNION {DOMAIN x.update.ins : x \in M} = {} /\ UNION {x.update.del : x \in M} = {}
      BY <3>1
    <3> QED  BY <3>2, <3>3, EmptyDocFacts
  <2> QED  BY <2>1, <2>2
<1> HIDE DEF doc
<1>7. ASSUME NEW y \in DOMAIN t2.docs
      PROVE  /\ DOMAIN t2.docs[y].ins = UNION {DOMAIN x.update.ins : x \in About(K, y)}
             /\ t2.docs[y].del = UNION {x.update.del : x \in About(K, y)}
  <2>1. CASE y = o
    BY <1>2, <1>3, <2>1
  <2>2. CASE y # o
    BY <1>2, <2>2 DEF Reflects
  <2> QED  BY <2>1, <2>2
<1> QED  BY <1>2, <1>7 DEF Reflects

-----------------------------------------------------------------------------
(* Messages in sequences.                                                  *)

\* The first message that inserts an id, in a sequence with one more message.
LEMMA FirstSaysAppend ==
    ASSUME NEW q, IsSeq(q), NEW m, NEW o, NEW id, NEW w
    PROVE  /\ FirstSays(q, o, id, w) => FirstSays(Append(q, m), o, id, w)
           /\ Silent(q, o, id) /\ Says(m, o, id) =>
                 FirstSays(Append(q, m), o, id, m.update.ins[id])
           /\ Silent(q, o, id) /\ ~Says(m, o, id) => Silent(Append(q, m), o, id)
<1> DEFINE r == Append(q, m)
<1>1. DOMAIN r = 1 .. Len(q) + 1 /\ r[Len(q) + 1] = m /\ \A i \in 1 .. Len(q) : r[i] = q[i]
  BY SeqAppend
<1>2. Len(q) \in Nat /\ DOMAIN q = 1 .. Len(q)
  BY SeqLen
<1> HIDE DEF r
<1>3. ASSUME FirstSays(q, o, id, w) PROVE FirstSays(r, o, id, w)
  <2>1. PICK i \in DOMAIN q : /\ Says(q[i], o, id) /\ q[i].update.ins[id] = w
                              /\ \A j \in 1 .. i - 1 : ~Says(q[j], o, id)
    BY <1>3 DEF FirstSays
  <2>2. i \in DOMAIN r /\ r[i] = q[i] /\ \A j \in 1 .. i - 1 : r[j] = q[j]
    BY <1>1, <1>2
  <2> QED  BY <2>1, <2>2 DEF FirstSays
<1>4. ASSUME Silent(q, o, id), Says(m, o, id) PROVE FirstSays(r, o, id, m.update.ins[id])
  <2>1. Len(q) + 1 \in DOMAIN r /\ \A j \in 1 .. Len(q) + 1 - 1 : j \in DOMAIN q /\ r[j] = q[j]
    BY <1>1, <1>2
  <2>2. \A j \in 1 .. Len(q) + 1 - 1 : ~Says(r[j], o, id)
    BY <1>4, <2>1 DEF Silent
  <2> QED  BY <1>1, <1>4, <2>1, <2>2 DEF FirstSays
<1>5. ASSUME Silent(q, o, id), ~Says(m, o, id) PROVE Silent(r, o, id)
  <2>1. \A i \in DOMAIN r : (i \in DOMAIN q /\ r[i] = q[i]) \/ r[i] = m
    BY <1>1, <1>2
  <2> QED  BY <1>5, <2>1 DEF Silent
<1> QED  BY <1>3, <1>4, <1>5 DEF r
-----------------------------------------------------------------------------
(* Known messages.                                                         *)

\* A daemon knows what it puts in its outbox.
LEMMA KnownAppend ==
    ASSUME NEW l, NEW d, NEW q, IsSeq(q), NEW c, NEW m
    PROVE  Known(l, d, Append(q, m), c) = Known(l, d, q, c) \cup {m}
<1>1. Range(Append(q, m)) = Range(q) \cup {m}
  BY SeqAppend
<1> QED  BY <1>1 DEF Known

\* A step of the cursor makes one more message known, or none if it is the daemon's own.
LEMMA KnownNext ==
    ASSUME NEW l, IsSeq(l), NEW d, NEW q, NEW c \in Nat, c < Len(l)
    PROVE  /\ c + 1 \in DOMAIN l
           /\ Known(l, d, q, c + 1) = Known(l, d, q, c) \cup {l[c + 1]}
           /\ l[c + 1].origin = d => Known(l, d, q, c + 1) = Known(l, d, q, c)
<1>1. Len(l) \in Nat /\ DOMAIN l = 1 .. Len(l)
  BY SeqLen
<1>2. c + 1 \in DOMAIN l
  BY <1>1
<1>3. \A i \in DOMAIN l : i <= c + 1 <=> i <= c \/ i = c + 1
  BY <1>1
<1> DEFINE I == {i \in DOMAIN l : i <= c \/ l[i].origin = d}
<1>4. {i \in DOMAIN l : i <= c + 1 \/ l[i].origin = d} = I \cup {c + 1}
  BY <1>2, <1>3
<1>5. l[c + 1].origin = d => c + 1 \in I
  BY <1>2
<1>6. Known(l, d, q, c + 1) = {l[i] : i \in I \cup {c + 1}} \cup Range(q)
  BY <1>4 DEF Known
<1>7. Known(l, d, q, c) = {l[i] : i \in I} \cup Range(q)
  BY DEF Known
<1> HIDE DEF I
<1> QED  BY <1>2, <1>5, <1>6, <1>7

\* A message that is appended to the log is one its author knows; no other daemon
\* knows it yet.
LEMMA KnownLonger ==
    ASSUME NEW l, IsSeq(l), NEW m, NEW c \in 0 .. Len(l), NEW e, NEW r
    PROVE  /\ e = m.origin => Known(Append(l, m), e, r, c) = Known(l, e, r, c) \cup {m}
           /\ e # m.origin => Known(Append(l, m), e, r, c) = Known(l, e, r, c)
<1> DEFINE k == Append(l, m)
<1>1. /\ DOMAIN k = 1 .. Len(l) + 1
      /\ k[Len(l) + 1] = m /\ \A i \in 1 .. Len(l) : k[i] = l[i]
  BY SeqAppend
<1>2. Len(l) \in Nat /\ DOMAIN l = 1 .. Len(l)
  BY SeqLen
<1> HIDE DEF k
<1>3. \A i \in DOMAIN k : (i \in DOMAIN l /\ k[i] = l[i]) \/ (~(i <= c) /\ k[i] = m)
  BY <1>1, <1>2
<1>4. \A i \in DOMAIN l : i \in DOMAIN k /\ k[i] = l[i]
  BY <1>1, <1>2
<1>5. Len(l) + 1 \in DOMAIN k /\ k[Len(l) + 1] = m
  BY <1>1, <1>2
<1>6. \A x : x \in Known(k, e, r, c) <=> x \in Known(l, e, r, c) \/ (x = m /\ e = m.origin)
  BY <1>3, <1>4, <1>5 DEF Known
<1>7. /\ e = m.origin => Known(k, e, r, c) = Known(l, e, r, c) \cup {m}
      /\ e # m.origin => Known(k, e, r, c) = Known(l, e, r, c)
  BY <1>6
<1> QED  BY <1>7 DEF k

\* The operations of a known message are in the tables.
LEMMA KnownSays ==
    ASSUME NEW K, NEW t, Reflects(K, t), NEW m \in K, NEW o, NEW id, o # <<>>, Says(m, o, id)
    PROVE  o \in DOMAIN t.docs /\ id \in DOMAIN t.docs[o].ins
<1>1. o \in DOMAIN t.docs /\ m \in About(K, o) /\ id \in DOMAIN m.update.ins
  BY DEF Reflects, Says, About
<1>2. DOMAIN t.docs[o].ins = UNION {DOMAIN x.update.ins : x \in About(K, o)}
  BY <1>1 DEF Reflects
<1> QED  BY <1>1, <1>2

-----------------------------------------------------------------------------
(* The stable tables.                                                      *)

\* Merging a namespace update that says something.
LEMMA MergeFacts ==
    ASSUME NEW a, NEW b, IsNamespace(a), IsNamespace(b), b.claims # {} \/ b.removed # {}
    PROVE  LET ns == Merge(a, b)
           IN  IsNamespace(ns) /\ ns # EmptyNamespace /\ NsWithin(a, ns)
<1>1. IsFiniteSet(a.claims \cup b.claims)
  BY FS_Union DEF IsNamespace
<1> QED  BY <1>1 DEF IsNamespace, Merge, EmptyNamespace, NsWithin

\* A namespace message is merged.
Merged(t, m, t2) ==
    /\ t2.ns = Merge(t.ns, m.update)
    /\ t2.tree = Materialize(t2.ns)
    /\ t2.docs = t.docs

\* The stable tables after a local namespace update, with its message in the outbox.
LEMMA StableNs ==
    ASSUME NEW l, NEW d, NEW q, NEW c, NEW t, NEW t2, NEW m,
           StableOK(l, d, q, c, t), IsMessage(d, m), m.object = <<>>, Merged(t, m, t2)
    PROVE  StableOK(l, d, Append(q, m), c, t2)
<1> DEFINE r == Append(q, m)
<1>1. IsSeq(q) /\ OutboxOK(d, q)
  BY DEF StableOK, OutboxOK
<1>2. OutboxOK(d, r)
  <2>1. IsSeq(r) /\ Range(r) = Range(q) \cup {m}
    BY <1>1, SeqAppend
  <2> HIDE DEF r
  <2>2. \A x \in Range(r) : IsMessage(d, x)
    BY <1>1, <2>1 DEF OutboxOK, Range
  <2>3. \A i \in DOMAIN r : r[i] \in Range(r)
    BY DEF Range
  <2> QED  BY <2>1, <2>2, <2>3 DEF OutboxOK
<1>3. TablesOK(t2)
  <2>1. IsNamespace(t2.ns) /\ t2.ns # EmptyNamespace
    BY MergeFacts DEF StableOK, TablesOK, Merged, IsMessage
  <2> QED  BY <2>1 DEF StableOK, TablesOK, Merged
<1>4. Reflects(Known(l, d, r, c), t2)
  <2>1. \A o \in DOMAIN t.docs : o # <<>>
    BY DEF StableOK, TablesOK
  <2>2. Reflects(Known(l, d, q, c) \cup {m}, t2)
    BY <2>1, ReflectsNs DEF StableOK, Merged
  <2>3. Known(l, d, r, c) = Known(l, d, q, c) \cup {m}
    BY <1>1, KnownAppend
  <2> QED  BY <2>2, <2>3, Zenon
<1>5. WordsOK(l, r, t2)
  <2> SUFFICES ASSUME NEW o \in DOMAIN t2.docs, NEW id \in DOMAIN t2.docs[o].ins,
                      NEW w, w = t2.docs[o].ins[id]
               PROVE  FirstSays(l, o, id, w) \/ (Silent(l, o, id) /\ FirstSays(r, o, id, w))
    BY DEF WordsOK
  <2>1. FirstSays(l, o, id, w) \/ (Silent(l, o, id) /\ FirstSays(q, o, id, w))
    BY DEF StableOK, WordsOK, Merged
  <2> QED  BY <1>1, <2>1, FirstSaysAppend
<1> HIDE DEF r
<1>6. c \in 0 .. Len(l)
  BY DEF StableOK
<1>7. StableOK(l, d, r, c, t2)
  BY <1>2, <1>3, <1>4, <1>5, <1>6 DEF StableOK
<1> QED  BY <1>7 DEF r

\* One document is edited.
TextMerged(t, o, update, t2) ==
    /\ t2.ns = t.ns /\ t2.tree = t.tree
    /\ t2.docs = Edited(t.docs, o, update)

\* The shape of the stable tables after a text update.
LEMMA TablesText ==
    ASSUME NEW t, NEW t2, NEW o, NEW update, TablesOK(t), TextMerged(t, o, update, t2),
           o # <<>>
    PROVE  TablesOK(t2)
<1>1. IsEdit(t.docs, o, update, t2.docs)
  BY EditedFacts DEF TextMerged
<1>2. /\ DOMAIN t2.docs = DOMAIN t.docs \cup {o} /\ IsDoc(t2.docs[o])
      /\ t2.docs = [x \in DOMAIN t2.docs |-> t2.docs[x]]
      /\ \A x \in DOMAIN t.docs : x # o => t2.docs[x] = t.docs[x]
  BY <1>1 DEF IsEdit
<1>3. \A x \in DOMAIN t2.docs : IsDoc(t2.docs[x]) /\ x # <<>>
  BY <1>2 DEF TablesOK
<1> QED  BY <1>2, <1>3 DEF TablesOK, TextMerged

\* A word of an edited document is that of the document before or of the update.
LEMMA WordsText ==
    ASSUME NEW t, NEW t2, NEW o, NEW update, TextMerged(t, o, update, t2),
           NEW x \in DOMAIN t2.docs, NEW id \in DOMAIN t2.docs[x].ins
    PROVE  \/ /\ x \in DOMAIN t.docs /\ id \in DOMAIN t.docs[x].ins
              /\ t2.docs[x].ins[id] = t.docs[x].ins[id]
           \/ /\ x = o /\ id \in DOMAIN update.ins
              /\ ~(x \in DOMAIN t.docs /\ id \in DOMAIN t.docs[x].ins)
              /\ t2.docs[x].ins[id] = update.ins[id]
<1>1. IsEdit(t.docs, o, update, t2.docs)
  BY EditedFacts DEF TextMerged
<1>2. CASE x # o
  BY <1>1, <1>2 DEF IsEdit
<1>3. CASE x = o /\ o \in DOMAIN t.docs
  <2>1. Lookup(t.docs, o) = t.docs[o]
    BY <1>3 DEF Lookup
  <2> QED  BY <1>1, <1>3, <2>1 DEF IsEdit
<1>4. CASE x = o /\ o \notin DOMAIN t.docs
  <2>1. Lookup(t.docs, o) = EmptyDoc
    BY <1>4 DEF Lookup
  <2>2. DOMAIN Lookup(t.docs, o).ins = {}
    BY <2>1, EmptyDocFacts
  <2> QED  BY <1>1, <1>4, <2>2 DEF IsEdit
<1> QED  BY <1>2, <1>3, <1>4

\* A captured edit with its message.
LEMMA StableSend ==
    ASSUME NEW l, NEW d, NEW q, NEW c, NEW t, NEW t2, NEW m, LogOK(l),
           StableOK(l, d, q, c, t), IsMessage(d, m), m.object # <<>>,
           TextMerged(t, m.object, m.update, t2)
    PROVE  StableOK(l, d, Append(q, m), c, t2)
<1> DEFINE r == Append(q, m)
<1>1. IsSeq(q) /\ OutboxOK(d, q)
  BY DEF StableOK, OutboxOK
<1>2. OutboxOK(d, r)
  <2>1. IsSeq(r) /\ Range(r) = Range(q) \cup {m}
    BY <1>1, SeqAppend
  <2> HIDE DEF r
  <2>2. \A x \in Range(r) : IsMessage(d, x)
    BY <1>1, <2>1 DEF OutboxOK, Range
  <2>3. \A i \in DOMAIN r : r[i] \in Range(r)
    BY DEF Range
  <2> QED  BY <2>1, <2>2, <2>3 DEF OutboxOK
<1>3. TablesOK(t2)
  BY TablesText DEF StableOK
<1>4. Reflects(Known(l, d, r, c), t2)
  <2>2. Reflects(Known(l, d, q, c) \cup {m}, t2)
    BY ReflectsText DEF StableOK, TextMerged
  <2>3. Known(l, d, r, c) = Known(l, d, q, c) \cup {m}
    BY <1>1, KnownAppend
  <2> QED  BY <2>2, <2>3, Zenon
<1>5. WordsOK(l, r, t2)
  <2> SUFFICES ASSUME NEW o \in DOMAIN t2.docs, NEW id \in DOMAIN t2.docs[o].ins,
                      NEW w, w = t2.docs[o].ins[id]
               PROVE  FirstSays(l, o, id, w) \/ (Silent(l, o, id) /\ FirstSays(r, o, id, w))
    BY DEF WordsOK
  <2>1. CASE o \in DOMAIN t.docs /\ id \in DOMAIN t.docs[o].ins /\ w = t.docs[o].ins[id]
    <3>1. FirstSays(l, o, id, w) \/ (Silent(l, o, id) /\ FirstSays(q, o, id, w))
      BY <2>1 DEF StableOK, WordsOK
    <3> QED  BY <1>1, <3>1, FirstSaysAppend
  <2>2. CASE /\ o = m.object /\ id \in DOMAIN m.update.ins /\ w = m.update.ins[id]
             /\ ~(o \in DOMAIN t.docs /\ id \in DOMAIN t.docs[o].ins)
    <3>1. \A x \in Known(l, d, q, c) : ~Says(x, o, id)
      BY <2>2, KnownSays DEF StableOK
    <3>2. Silent(q, o, id)
      BY <3>1 DEF Silent, Known, Range
    <3>3. Silent(l, o, id)
      <4> SUFFICES ASSUME NEW i \in DOMAIN l, Says(l[i], o, id) PROVE FALSE
        BY DEF Silent
      <4>1. id[1] = d
        BY <2>2 DEF IsMessage
      <4>2. id[1] = l[i].origin
        BY <2>2 DEF LogOK, IsMessage, Says
      <4>3. l[i] \in Known(l, d, q, c)
        BY <4>1, <4>2 DEF Known
      <4> QED  BY <3>1, <4>3
    <3>4. Says(m, o, id)
      BY <2>2 DEF Says
    <3> QED  BY <1>1, <2>2, <3>2, <3>3, <3>4, FirstSaysAppend
  <2> QED  BY <2>1, <2>2, WordsText
<1> HIDE DEF r
<1>6. c \in 0 .. Len(l)
  BY DEF StableOK
<1>7. StableOK(l, d, r, c, t2)
  BY <1>2, <1>3, <1>4, <1>5, <1>6 DEF StableOK
<1> QED  BY <1>7 DEF r

\* A row without a message.
LEMMA StableQuiet ==
    ASSUME NEW l, NEW d, NEW q, NEW c, NEW t, NEW t2, NEW o,
           StableOK(l, d, q, c, t), o # <<>>, TextMerged(t, o, EmptyDoc, t2)
    PROVE  StableOK(l, d, q, c, t2)
<1>1. TablesOK(t2)
  BY TablesText DEF StableOK
<1>3. Reflects(Known(l, d, q, c), t2)
  BY ReflectsNothing DEF StableOK, TextMerged
<1>4. WordsOK(l, q, t2)
  <2> SUFFICES ASSUME NEW x \in DOMAIN t2.docs, NEW id \in DOMAIN t2.docs[x].ins,
                      NEW w, w = t2.docs[x].ins[id]
               PROVE  FirstSays(l, x, id, w) \/ (Silent(l, x, id) /\ FirstSays(q, x, id, w))
    BY DEF WordsOK
  <2>1. x \in DOMAIN t.docs /\ id \in DOMAIN t.docs[x].ins /\ w = t.docs[x].ins[id]
    BY WordsText, EmptyDocFacts
  <2> QED  BY <2>1 DEF StableOK, WordsOK
<1> QED  BY <1>1, <1>3, <1>4 DEF StableOK

\* The next record of the log, when another daemon wrote it.
LEMMA StableIngest ==
    ASSUME NEW l, NEW d, NEW q, NEW c, NEW t, NEW t2, LogOK(l), StableOK(l, d, q, c, t),
           c < Len(l),
           IF l[c + 1].origin = d THEN t2 = t
           ELSE IF l[c + 1].object # <<>>
                THEN TextMerged(t, l[c + 1].object, l[c + 1].update, t2)
                ELSE Merged(t, l[c + 1], t2)
    PROVE  StableOK(l, d, q, c + 1, t2)
<1> DEFINE m == l[c + 1]
<1>1. c \in Nat /\ IsSeq(l) /\ Len(l) \in Nat /\ DOMAIN l = 1 .. Len(l)
  BY SeqLen DEF StableOK, LogOK
<1>2. c + 1 \in 0 .. Len(l) /\ c + 1 \in DOMAIN l
  BY <1>1
<1>3. /\ Known(l, d, q, c + 1) = Known(l, d, q, c) \cup {m}
      /\ m.origin = d => Known(l, d, q, c + 1) = Known(l, d, q, c)
  BY <1>1, KnownNext
<1>4. IsMessage(m.origin, m)
  BY <1>2 DEF LogOK
<1> HIDE DEF m
<1>5. CASE m.origin = d
  BY <1>2, <1>3, <1>5 DEF StableOK, m
<1>6. CASE m.origin # d /\ m.object = <<>>
  <2>1. Merged(t, m, t2)
    BY <1>6 DEF m
  <2>2. IsNamespace(t2.ns) /\ t2.ns # EmptyNamespace
    BY <1>4, <1>6, <2>1, MergeFacts DEF StableOK, TablesOK, Merged, IsMessage
  <2>3. TablesOK(t2)
    BY <2>1, <2>2 DEF StableOK, TablesOK, Merged
  <2>4. \A o \in DOMAIN t.docs : o # <<>>
    BY DEF StableOK, TablesOK
  <2>5. Reflects(Known(l, d, q, c) \cup {m}, t2)
    BY <1>6, <2>1, <2>4, ReflectsNs DEF StableOK, Merged
  <2>6. WordsOK(l, q, t2)
    BY <2>1 DEF StableOK, WordsOK, Merged
  <2> QED  BY <1>2, <1>3, <2>3, <2>5, <2>6 DEF StableOK
<1>7. CASE m.origin # d /\ m.object # <<>>
  <2>1. TextMerged(t, m.object, m.update, t2)
    BY <1>7 DEF m
  <2>3. TablesOK(t2)
    BY <1>7, <2>1, TablesText DEF StableOK
  <2>4. Reflects(Known(l, d, q, c) \cup {m}, t2)
    BY <1>7, <2>1, ReflectsText DEF StableOK, TextMerged
  <2>5. WordsOK(l, q, t2)
    <3> SUFFICES ASSUME NEW o \in DOMAIN t2.docs, NEW id \in DOMAIN t2.docs[o].ins,
                        NEW w, w = t2.docs[o].ins[id]
                 PROVE  FirstSays(l, o, id, w) \/ (Silent(l, o, id) /\ FirstSays(q, o, id, w))
      BY DEF WordsOK
    <3>1. CASE o \in DOMAIN t.docs /\ id \in DOMAIN t.docs[o].ins /\ w = t.docs[o].ins[id]
      BY <3>1 DEF StableOK, WordsOK
    <3>2. CASE /\ o = m.object /\ id \in DOMAIN m.update.ins /\ w = m.update.ins[id]
               /\ ~(o \in DOMAIN t.docs /\ id \in DOMAIN t.docs[o].ins)
      <4>1. \A x \in Known(l, d, q, c) : ~Says(x, o, id)
        BY <1>7, <3>2, KnownSays DEF StableOK
      <4>2. \A j \in 1 .. (c + 1) - 1 : j \in DOMAIN l /\ j <= c
        BY <1>1
      <4>3. \A j \in 1 .. (c + 1) - 1 : ~Says(l[j], o, id)
        BY <4>1, <4>2 DEF Known
      <4>4. Says(l[c + 1], o, id) /\ l[c + 1].update.ins[id] = w
        BY <3>2 DEF Says, m
      <4> DEFINE k == c + 1
      <4>5. k \in DOMAIN l /\ Says(l[k], o, id) /\ l[k].update.ins[id] = w
            /\ \A j \in 1 .. k - 1 : ~Says(l[j], o, id)
        <5>1. k \in DOMAIN l
          BY <1>2
        <5>2. Says(l[k], o, id) /\ l[k].update.ins[id] = w
          BY <4>4, Zenon
        <5>3. \A j \in 1 .. k - 1 : ~Says(l[j], o, id)
          BY <4>3, Zenon
        <5> QED  BY <5>1, <5>2, <5>3
      <4> HIDE DEF k
      <4>6. FirstSays(l, o, id, w)
        BY <4>5, Zenon DEF FirstSays
      <4> QED  BY <4>6
    <3> QED  BY <2>1, <3>1, <3>2, WordsText
  <2> QED  BY <1>2, <1>3, <2>3, <2>4, <2>5 DEF StableOK
<1> QED  BY <1>5, <1>6, <1>7

-----------------------------------------------------------------------------
(* Growth.                                                                 *)

\* Stable tables after others, with nothing lost.
Grown(t, t2) ==
    /\ NsWithin(t.ns, t2.ns)
    /\ \A o : DocWithin(Lookup(t.docs, o), Lookup(t2.docs, o))

\* What is behind stable stays behind it when stable grows: prior,
LEMMA GrownPrior ==
    ASSUME NEW t, NEW t2, Grown(t, t2), NEW p, PriorOK(t, p)
    PROVE  PriorOK(t2, p)
<1>1. NsWithin(p.ns, t2.ns)
  BY DEF PriorOK, Grown, NsWithin
<1>2. ASSUME NEW o \in DOMAIN p.docs PROVE DocWithin(p.docs[o], Lookup(t2.docs, o))
  <2>1. DocWithin(p.docs[o], Lookup(t.docs, o)) /\ DocWithin(Lookup(t.docs, o), Lookup(t2.docs, o))
    BY DEF PriorOK, Grown
  <2> QED  BY <2>1 DEF DocWithin
<1> QED  BY <1>1, <1>2 DEF PriorOK, Grown

\* the document of a projected write,
LEMMA GrownAction ==
    ASSUME NEW t, NEW t2, Grown(t, t2), NEW a, ActionOK(t, a)
    PROVE  ActionOK(t2, a)
<1>0. DOMAIN a = {"op", "path", "object", "claim", "doc", "before"}
  BY DEF ActionOK
<1> SUFFICES ASSUME a.op = "write"
             PROVE  a.object # <<>> /\ DocWithin(a.doc, Lookup(t2.docs, a.object))
  BY <1>0 DEF ActionOK
<1>1. a.object # <<>> /\ DocWithin(a.doc, Lookup(t.docs, a.object))
      /\ DocWithin(Lookup(t.docs, a.object), Lookup(t2.docs, a.object))
  BY DEF ActionOK, Grown
<1>2. DocWithin(a.doc, Lookup(t2.docs, a.object))
  BY <1>1 DEF DocWithin
<1> QED  BY <1>1, <1>2 DEF Grown

\* and the epoch under way.
LEMMA GrownEpoch ==
    ASSUME NEW t, NEW t2, Grown(t, t2), NEW e, EpochOK(t, e)
    PROVE  EpochOK(t2, e)
<1>1. NsWithin(e.ns, t2.ns)
  BY DEF EpochOK, Grown, NsWithin
<1>2. \A i \in DOMAIN e.todo : ActionOK(t2, e.todo[i])
  BY GrownAction DEF EpochOK
<1>3. \A i \in DOMAIN e.done : ActionOK(t2, e.done[i].action)
  BY GrownAction DEF EpochOK
<1>4. e = NoEpoch \/ e.todo # <<>>
  BY DEF EpochOK
<1> QED  BY <1>1, <1>2, <1>3, <1>4 DEF EpochOK

\* Nothing happens to the tables.
LEMMA GrownSame ==
    ASSUME NEW t PROVE Grown(t, t)
BY DEF Grown, NsWithin, DocWithin

\* Tables grow by a namespace update ...
LEMMA GrownNs ==
    ASSUME NEW t, NEW m, NEW t2, Merged(t, m, t2)
    PROVE  Grown(t, t2)
<1>1. NsWithin(t.ns, t2.ns)
  BY DEF Merged, Merge, NsWithin
<1>2. \A o : DocWithin(Lookup(t.docs, o), Lookup(t2.docs, o))
  BY DEF Merged, DocWithin
<1> QED  BY <1>1, <1>2 DEF Grown

\* ... and by a text update.
LEMMA GrownText ==
    ASSUME NEW t, NEW o, NEW update, NEW t2, TextMerged(t, o, update, t2)
    PROVE  Grown(t, t2)
<1>1. NsWithin(t.ns, t2.ns)
  BY DEF TextMerged, NsWithin
<1>2. IsEdit(t.docs, o, update, t2.docs)
  BY EditedFacts DEF TextMerged
<1>3. ASSUME NEW x PROVE DocWithin(Lookup(t.docs, x), Lookup(t2.docs, x))
  <2>1. CASE x = o
    <3>1. Lookup(t2.docs, o) = t2.docs[o]
      BY <1>2 DEF IsEdit, Lookup
    <3> QED  BY <1>2, <2>1, <3>1 DEF IsEdit, DocWithin
  <2>2. CASE x # o
    <3>1. Lookup(t2.docs, x) = Lookup(t.docs, x)
      BY <1>2, <2>2 DEF IsEdit, Lookup
    <3> QED  BY <3>1 DEF DocWithin
  <2> QED  BY <2>1, <2>2
<1> QED  BY <1>1, <1>3 DEF Grown
-----------------------------------------------------------------------------
(* Publishing.                                                             *)

\* The log with one more message stays well formed.
LEMMA LogLonger ==
    ASSUME NEW l, LogOK(l), NEW m, IsMessage(m.origin, m)
    PROVE  LogOK(Append(l, m))
<1> DEFINE k == Append(l, m)
<1>1. IsSeq(k) /\ Range(k) = Range(l) \cup {m}
  BY SeqAppend DEF LogOK
<1> HIDE DEF k
<1>2. \A x \in Range(k) : IsMessage(x.origin, x)
  BY <1>1 DEF LogOK, Range
<1>3. LogOK(k)
  BY <1>1, <1>2 DEF LogOK, Range
<1> QED  BY <1>3 DEF k

\* The stable tables of a daemon whose message k is appended, after those before it:
\* an operation the log does not have yet has its word from the first of the outbox.
LEMMA AppendSelf ==
    ASSUME NEW l, NEW d, NEW q, NEW c, NEW t, LogOK(l), StableOK(l, d, q, c, t),
           NEW k \in DOMAIN q, \A j \in 1 .. k - 1 : q[j] \in Range(l)
    PROVE  StableOK(Append(l, q[k]), d, q, c, t)
<1> DEFINE m == q[k]
           l2 == Append(l, m)
<1>1. IsSeq(l) /\ IsSeq(q) /\ OutboxOK(d, q) /\ c \in 0 .. Len(l)
  BY DEF LogOK, StableOK, OutboxOK
<1>2. m \in Range(q) /\ m.origin = d
  BY <1>1 DEF Range, OutboxOK, IsMessage
<1>3. c \in 0 .. Len(l2)
  <2>1. Len(l2) = Len(l) + 1 /\ Len(l) \in Nat
    BY <1>1, SeqAppend, SeqLen
  <2> QED  BY <1>1, <2>1
<1>4. Reflects(Known(l2, d, q, c), t)
  <2>1. Known(l2, d, q, c) = Known(l, d, q, c) \cup {m}
    <3> HIDE DEF m
    <3>1. d = m.origin => Known(Append(l, m), d, q, c) = Known(l, d, q, c) \cup {m}
      BY <1>1, KnownLonger
    <3> QED  BY <1>2, <3>1
  <2>2. m \in Known(l, d, q, c)
    BY <1>2 DEF Known
  <2>3. Known(l2, d, q, c) = Known(l, d, q, c)
    BY <2>1, <2>2
  <2> QED  BY <2>3 DEF StableOK
<1>5. WordsOK(l2, q, t)
  <2> SUFFICES ASSUME NEW o \in DOMAIN t.docs, NEW id \in DOMAIN t.docs[o].ins,
                      NEW w, w = t.docs[o].ins[id]
               PROVE  FirstSays(l2, o, id, w) \/ (Silent(l2, o, id) /\ FirstSays(q, o, id, w))
    BY DEF WordsOK
  <2>1. FirstSays(l, o, id, w) \/ (Silent(l, o, id) /\ FirstSays(q, o, id, w))
    BY DEF StableOK, WordsOK
  <2>2. CASE FirstSays(l, o, id, w)
    BY <1>1, <2>2, FirstSaysAppend
  <2>3. CASE Silent(l, o, id) /\ FirstSays(q, o, id, w) /\ ~Says(m, o, id)
    BY <1>1, <2>3, FirstSaysAppend
  <2>4. CASE Silent(l, o, id) /\ FirstSays(q, o, id, w) /\ Says(m, o, id)
    <3>1. PICK i \in DOMAIN q : /\ Says(q[i], o, id) /\ q[i].update.ins[id] = w
                                /\ \A j \in 1 .. i - 1 : ~Says(q[j], o, id)
      BY <2>4 DEF FirstSays
    <3>2. \A x \in Range(l) : ~Says(x, o, id)
      BY <2>4 DEF Silent, Range
    <3>3. ~(i \in 1 .. k - 1) /\ ~(k \in 1 .. i - 1)
      BY <2>4, <3>1, <3>2
    <3>4. i = k
      BY <1>1, <3>3, SeqLen
    <3>5. FirstSays(l2, o, id, m.update.ins[id])
      BY <1>1, <2>4, FirstSaysAppend
    <3> QED  BY <3>1, <3>4, <3>5
  <2> QED  BY <2>1, <2>2, <2>3, <2>4
<1> HIDE DEF l2, m
<1>6. StableOK(l2, d, q, c, t)
  BY <1>1, <1>3, <1>4, <1>5 DEF StableOK
<1> QED  BY <1>6 DEF l2, m

\* The stable tables of another daemon: an id that only its own outbox has cannot be in
\* what is appended, as ids carry the daemon that made them.
LEMMA AppendOther ==
    ASSUME NEW l, NEW d, NEW m, IsMessage(d, m), NEW e, NEW r, NEW c, NEW t, LogOK(l), e # d,
           StableOK(l, e, r, c, t)
    PROVE  StableOK(Append(l, m), e, r, c, t)
<1> DEFINE l2 == Append(l, m)
<1>1. IsSeq(l) /\ c \in 0 .. Len(l) /\ IsSeq(r) /\ OutboxOK(e, r) /\ m.origin = d
  BY DEF LogOK, StableOK, OutboxOK, IsMessage
<1>3. c \in 0 .. Len(l2)
  <2>1. Len(l2) = Len(l) + 1 /\ Len(l) \in Nat
    BY <1>1, SeqAppend, SeqLen
  <2> QED  BY <1>1, <2>1
<1>4. Reflects(Known(l2, e, r, c), t)
  <2>1. e # m.origin
    BY <1>1
  <2>2. Known(l2, e, r, c) = Known(l, e, r, c)
    BY <1>1, <2>1, KnownLonger
  <2> QED  BY <2>2 DEF StableOK
<1>5. WordsOK(l2, r, t)
  <2> SUFFICES ASSUME NEW o \in DOMAIN t.docs, NEW id \in DOMAIN t.docs[o].ins,
                      NEW w, w = t.docs[o].ins[id]
               PROVE  FirstSays(l2, o, id, w) \/ (Silent(l2, o, id) /\ FirstSays(r, o, id, w))
    BY DEF WordsOK
  <2>1. FirstSays(l, o, id, w) \/ (Silent(l, o, id) /\ FirstSays(r, o, id, w))
    BY DEF StableOK, WordsOK
  <2>2. CASE FirstSays(l, o, id, w)
    BY <1>1, <2>2, FirstSaysAppend
  <2>3. CASE Silent(l, o, id) /\ FirstSays(r, o, id, w)
    <3>1. o # <<>>
      BY DEF StableOK, TablesOK
    <3>2. id[1] = e
      <4>1. PICK i \in DOMAIN r : Says(r[i], o, id)
        BY <2>3 DEF FirstSays
      <4> QED  BY <1>1, <3>1, <4>1 DEF OutboxOK, IsMessage, Says
    <3>3. ~Says(m, o, id)
      BY <3>1, <3>2 DEF IsMessage, Says
    <3> QED  BY <1>1, <2>3, <3>3, FirstSaysAppend
  <2> QED  BY <2>1, <2>2, <2>3
<1> HIDE DEF l2
<1>7. StableOK(l2, e, r, c, t)
  BY <1>1, <1>3, <1>4, <1>5 DEF StableOK
<1> QED  BY <1>7 DEF l2

\* r is q without its first n messages.
Dropped(q, n, r) ==
    /\ n \in 0 .. Len(q) /\ IsSeq(r)
    /\ \A i \in DOMAIN q : i > n => i - n \in DOMAIN r
    /\ \A j \in DOMAIN r : n + j \in DOMAIN q /\ r[j] = q[n + j]

\* The stable tables of a daemon that trims messages that are on the log.
LEMMA TrimSelf ==
    ASSUME NEW l, NEW d, NEW q, NEW c, NEW t, LogOK(l), StableOK(l, d, q, c, t),
           NEW n, NEW r, Dropped(q, n, r), \A i \in 1 .. n : q[i] \in Range(l)
    PROVE  StableOK(l, d, r, c, t)
<1>1. /\ IsSeq(q) /\ OutboxOK(d, q) /\ c \in 0 .. Len(l) /\ IsSeq(r)
      /\ n \in Nat /\ DOMAIN q = 1 .. Len(q) /\ Len(q) \in Nat
      /\ DOMAIN r = 1 .. Len(r) /\ Len(r) \in Nat
  BY SeqLen DEF StableOK, OutboxOK, Dropped
<1>2. OutboxOK(d, r)
  BY <1>1 DEF OutboxOK, Dropped
<1>3. \A i \in DOMAIN q : q[i] \in Range(l) \/ (i > n /\ i - n \in DOMAIN r /\ r[i - n] = q[i])
  <2> SUFFICES ASSUME NEW i \in DOMAIN q, i > n PROVE i - n \in DOMAIN r /\ r[i - n] = q[i]
    BY <1>1
  <2>1. i - n \in DOMAIN r /\ n + (i - n) = i
    BY <1>1 DEF Dropped
  <2> QED  BY <2>1 DEF Dropped
<1>4. Known(l, d, r, c) = Known(l, d, q, c)
  <2>1. Range(r) \subseteq Range(q)
    BY DEF Dropped, Range
  <2>2. \A x \in Range(q) : x \in Range(r) \/ (x \in Range(l) /\ x.origin = d)
    BY <1>1, <1>3 DEF Range, OutboxOK, IsMessage
  <2>3. \A x \in Range(l) : x.origin = d => x \in Known(l, d, r, c)
    BY DEF Known, Range
  <2>4. Range(q) \subseteq Known(l, d, r, c)
    BY <2>2, <2>3 DEF Known
  <2> QED  BY <2>1, <2>4 DEF Known
<1>5. WordsOK(l, r, t)
  <2> SUFFICES ASSUME NEW o \in DOMAIN t.docs, NEW id \in DOMAIN t.docs[o].ins,
                      NEW w, w = t.docs[o].ins[id], ~FirstSays(l, o, id, w)
               PROVE  Silent(l, o, id) /\ FirstSays(r, o, id, w)
    BY DEF WordsOK
  <2>1. Silent(l, o, id) /\ FirstSays(q, o, id, w)
    BY DEF StableOK, WordsOK
  <2>2. PICK i \in DOMAIN q : /\ Says(q[i], o, id) /\ q[i].update.ins[id] = w
                              /\ \A j \in 1 .. i - 1 : ~Says(q[j], o, id)
    BY <2>1 DEF FirstSays
  <2>3. q[i] \notin Range(l)
    BY <2>1, <2>2 DEF Silent, Range
  <2> DEFINE k == i - n
  <2>4. i > n /\ k \in DOMAIN r /\ r[k] = q[i]
    BY <1>3, <2>3
  <2>5. ASSUME NEW j \in 1 .. k - 1 PROVE ~Says(r[j], o, id)
    <3>1. j \in DOMAIN r /\ n + j \in 1 .. i - 1
      BY <1>1, <2>4
    <3>2. r[j] = q[n + j]
      BY <3>1 DEF Dropped
    <3> QED  BY <2>2, <3>1, <3>2
  <2> HIDE DEF k
  <2> QED  BY <2>1, <2>2, <2>4, <2>5 DEF FirstSays
<1> QED  BY <1>1, <1>2, <1>4, <1>5 DEF StableOK

-----------------------------------------------------------------------------
(* Steps beside the tables.                                                *)

\* t differs from s in its files and in what it keeps beside the tables only.
Beside(s, t) ==
    /\ IsDaemon(t)
    /\ t.prior = s.prior /\ t.stable = s.stable /\ t.epoch = s.epoch
    /\ t.outbox = s.outbox /\ t.cursor = s.cursor /\ t.mode = s.mode /\ t.sent = s.sent

\* Beside is transitive.
LEMMA BesideTrans ==
    ASSUME NEW r, NEW s, NEW t, Beside(r, s), Beside(s, t) PROVE Beside(r, t)
BY DEF Beside

\* A step beside the tables keeps the invariant of a daemon.
LEMMA BesideOK ==
    ASSUME NEW l, NEW d, NEW s, NEW t, DaemonOK(l, d, s), Beside(s, t)
    PROVE  DaemonOK(l, d, t)
BY DEF Beside, DaemonOK

\* No epoch is a good epoch.
LEMMA NoEpochOK ==
    ASSUME NEW t
    PROVE  EpochOK(t, NoEpoch) /\ DOMAIN NoEpoch = {"todo", "done", "ns"}
BY EmptyIsSeq DEF EpochOK, NoEpoch, NsWithin, EmptyNamespace

\* So a daemon may drop its epoch at any time.
LEMMA DropEpoch ==
    ASSUME NEW l, NEW d, NEW s, NEW t, DaemonOK(l, d, s), IsDaemon(t),
           t.prior = s.prior, t.stable = s.stable, t.epoch = NoEpoch,
           t.outbox = s.outbox, t.cursor = s.cursor, SentOK(l, t.mode, t.outbox, t.sent)
    PROVE  DaemonOK(l, d, t)
BY NoEpochOK DEF DaemonOK

\* Nothing has been sent.
LEMMA SentNothing ==
    ASSUME NEW l, NEW mode, NEW q, IsSeq(q)
    PROVE  SentOK(l, mode, q, 0)
<1>1. Len(q) \in Nat
  BY SeqLen
<1> QED  BY <1>1 DEF SentOK

\* What has been sent stays sent when messages are added to an outbox,
LEMMA SentAppend ==
    ASSUME NEW l, NEW mode, NEW q, IsSeq(q), NEW n, SentOK(l, mode, q, n), NEW m
    PROVE  SentOK(l, mode, Append(q, m), n)
<1> DEFINE r == Append(q, m)
<1>1. Len(r) = Len(q) + 1 /\ Len(q) \in Nat /\ \A i \in 1 .. Len(q) : r[i] = q[i]
  BY SeqAppend, SeqLen
<1> HIDE DEF r
<1>2. n \in 0 .. Len(r) /\ \A i \in 1 .. n : r[i] = q[i]
  BY <1>1 DEF SentOK
<1>3. SentOK(l, mode, r, n)
  BY <1>2 DEF SentOK
<1> QED  BY <1>3 DEF r

\* and to the log.
LEMMA SentLonger ==
    ASSUME NEW l, IsSeq(l), NEW mode, NEW q, NEW n, SentOK(l, mode, q, n), NEW m
    PROVE  SentOK(Append(l, m), mode, q, n)
<1>1. Range(Append(l, m)) = Range(l) \cup {m}
  BY SeqAppend
<1> QED  BY <1>1 DEF SentOK

\* What Without leaves.
LEMMA WithoutFacts ==
    ASSUME NEW f, NEW S
    PROVE  /\ DOMAIN Without(f, S) = DOMAIN f \ S
           /\ IsFiniteSet(DOMAIN f) => IsFiniteSet(DOMAIN Without(f, S))
<1>1. DOMAIN Without(f, S) = DOMAIN f \ S
  BY DEF Without
<1>2. DOMAIN f \ S \in SUBSET DOMAIN f
  OBVIOUS
<1> QED  BY <1>1, <1>2, FS_Subset

\* The operations of the file layer are steps beside the tables.
LEMMA SetDisk ==
    ASSUME NEW s, IsDaemon(s), NEW f, IsFiniteSet(DOMAIN f)
    PROVE  Beside(s, [s EXCEPT !.disk = f])
BY DEF Beside, IsDaemon, IsTables

\* A file is created or replaced by a new one,
LEMMA WriteFileBeside ==
    ASSUME NEW s, IsDaemon(s), NEW p, NEW text, NEW kind
    PROVE  Beside(s, WriteFile(s, p, text, kind))
<1> DEFINE f == Put(s.disk, p, [text |-> text, kind |-> kind, stat |-> s.clock + 1,
                                key |-> s.clock + 1])
<1>1. IsFiniteSet(DOMAIN f)
  BY PutFacts DEF IsDaemon
<1>2. WriteFile(s, p, text, kind) = [s EXCEPT !.clock = s.clock + 1, !.disk = f]
  BY DEF WriteFile
<1> HIDE DEF f
<1>3. Beside(s, [s EXCEPT !.clock = s.clock + 1, !.disk = f])
  BY <1>1 DEF Beside, IsDaemon, IsTables
<1> QED  BY <1>2, <1>3, Zenon

\* changed in place,
LEMMA ReplaceFileBeside ==
    ASSUME NEW s, IsDaemon(s), NEW p, NEW text, NEW kind
    PROVE  Beside(s, ReplaceFile(s, p, text, kind))
<1>1. CASE p \notin DOMAIN s.disk
  BY <1>1, WriteFileBeside DEF ReplaceFile
<1>2. CASE p \in DOMAIN s.disk
  <2> DEFINE v == [text |-> text, kind |-> kind, stat |-> s.clock + 1, key |-> s.disk[p].key]
             f == [s.disk EXCEPT ![p] = v]
  <2>1. IsFiniteSet(DOMAIN f)
    BY DEF IsDaemon
  <2>2. ReplaceFile(s, p, text, kind) = [s EXCEPT !.clock = s.clock + 1, !.disk = f]
    BY <1>2 DEF ReplaceFile
  <2> HIDE DEF f
  <2>3. Beside(s, [s EXCEPT !.clock = s.clock + 1, !.disk = f])
    BY <2>1 DEF Beside, IsDaemon, IsTables
  <2> QED  BY <2>2, <2>3, Zenon
<1> QED  BY <1>1, <1>2

\* added to,
LEMMA AddToFileBeside ==
    ASSUME NEW s, IsDaemon(s), NEW p, NEW words
    PROVE  Beside(s, AddToFile(s, p, words))
BY ReplaceFileBeside DEF AddToFile

\* deleted,
LEMMA DeleteFileBeside ==
    ASSUME NEW s, IsDaemon(s), NEW p
    PROVE  Beside(s, DeleteFile(s, p))
<1>1. IsFiniteSet(DOMAIN Without(s.disk, {p}))
  BY WithoutFacts DEF IsDaemon
<1> QED  BY <1>1, SetDisk DEF DeleteFile

\* renamed.
LEMMA RenameFileBeside ==
    ASSUME NEW s, IsDaemon(s), NEW p, NEW q
    PROVE  Beside(s, RenameFile(s, p, q))
<1>1. IsFiniteSet(DOMAIN Put(Without(s.disk, {p}), q, s.disk[p]))
  BY WithoutFacts, PutFacts DEF IsDaemon
<1> QED  BY <1>1, SetDisk DEF RenameFile

\* So are changes of the fields no table depends on:
LEMMA OtherBeside ==
    ASSUME NEW s, IsDaemon(s), NEW x
    PROVE  /\ Beside(s, [s EXCEPT !.faults = x])
           /\ Beside(s, [s EXCEPT !.ignored = x])
           /\ Beside(s, [s EXCEPT !.intents = x])
           /\ Beside(s, [s EXCEPT !.scan = x])
           /\ Beside(s, [s EXCEPT !.link = x])
           /\ Beside(s, [s EXCEPT !.clobber = x])
           /\ \A y : Beside(s, [s EXCEPT !.ignored = x, !.ids = y])
BY DEF Beside, IsDaemon, IsTables

\* reported faults,
LEMMA TakenBeside ==
    ASSUME NEW s, IsDaemon(s), NEW fs PROVE Beside(s, Taken(s, fs))
BY OtherBeside DEF Taken

\* ignored files,
LEMMA IgnoreBeside ==
    ASSUME NEW s, IsDaemon(s), NEW p, NEW reason PROVE Beside(s, Ignore(s, p, reason))
BY OtherBeside DEF Ignore

\* forgotten write intents.
LEMMA ForgetIntentsBeside ==
    ASSUME NEW s, IsDaemon(s), NEW p PROVE Beside(s, ForgetIntents(s, p))
BY OtherBeside DEF ForgetIntents

-----------------------------------------------------------------------------
(* Local changes of the namespace.                                         *)

\* The fields of a daemon after LocalNamespaceUpdate.
Updated(d, s, update, t) ==
    /\ IsDaemon(t)
    /\ t.disk = s.disk /\ t.epoch = s.epoch /\ t.cursor = s.cursor /\ t.clock = s.clock
    /\ t.mode = s.mode /\ t.sent = s.sent
    /\ t.outbox = Append(s.outbox, NsMessage(d, update))
    /\ t.prior.ns = Merge(s.prior.ns, update)
    /\ t.prior.tree = s.prior.tree /\ t.prior.docs = s.prior.docs
    /\ t.stable.ns = Merge(s.stable.ns, update)
    /\ t.stable.tree = Materialize(t.stable.ns) /\ t.stable.docs = s.stable.docs

\* What LocalNamespaceUpdate does, field by field.
LEMMA LocalNs ==
    ASSUME NEW d, NEW s, IsDaemon(s), NEW update
    PROVE  Updated(d, s, update, LocalNamespaceUpdate(d, s, update))
<1> DEFINE t == LocalNamespaceUpdate(d, s, update)
<1>1. /\ IsDaemon(t)
      /\ t.disk = s.disk /\ t.epoch = s.epoch /\ t.cursor = s.cursor /\ t.clock = s.clock
      /\ t.mode = s.mode /\ t.sent = s.sent
      /\ t.outbox = Append(s.outbox, NsMessage(d, update))
      /\ t.prior.ns = Merge(s.prior.ns, update)
      /\ t.prior.tree = s.prior.tree /\ t.prior.docs = s.prior.docs
      /\ t.stable.ns = Merge(s.stable.ns, update)
      /\ t.stable.tree = Materialize(t.stable.ns) /\ t.stable.docs = s.stable.docs
  BY DEF LocalNamespaceUpdate, IsDaemon, IsTables
<1> HIDE DEF t
<1>2. Updated(d, s, update, t)
  BY <1>1, Zenon DEF Updated
<1> QED  BY <1>2 DEF t

\* What LocalNamespaceUpdate has done to a daemon.
Named(l, d, s, t) ==
    /\ DaemonOK(l, d, t) /\ Grown(s.stable, t.stable)
    /\ t.disk = s.disk /\ t.prior.tree = s.prior.tree

\* LocalNamespaceUpdate keeps the invariant of a daemon.
LEMMA LocalNsOK ==
    ASSUME NEW l, NEW d, NEW s, DaemonOK(l, d, s), NEW update, IsNamespace(update),
           update.claims # {} \/ update.removed # {}
    PROVE  Named(l, d, s, LocalNamespaceUpdate(d, s, update))
<1> DEFINE t == LocalNamespaceUpdate(d, s, update)
<1> DEFINE m == NsMessage(d, update)
<1>1. m.origin = d /\ m.object = <<>> /\ m.update = update
  BY DEF NsMessage
<1>2. IsMessage(d, m)
  BY <1>1 DEF IsMessage
<1> HIDE DEF m
<1>a. Updated(d, s, update, t)
  BY LocalNs DEF DaemonOK
<1> HIDE DEF t
<1>3. /\ IsDaemon(t) /\ t.disk = s.disk /\ t.epoch = s.epoch /\ t.cursor = s.cursor
      /\ t.clock = s.clock /\ t.mode = s.mode /\ t.sent = s.sent
      /\ t.outbox = Append(s.outbox, m)
      /\ t.prior.ns = Merge(s.prior.ns, update)
      /\ t.prior.tree = s.prior.tree /\ t.prior.docs = s.prior.docs
      /\ t.stable.ns = Merge(s.stable.ns, update)
      /\ t.stable.tree = Materialize(t.stable.ns) /\ t.stable.docs = s.stable.docs
  BY <1>a DEF Updated, m
<1>4. Merged(s.stable, m, t.stable)
  BY <1>1, <1>3 DEF Merged
<1>5. StableOK(l, d, t.outbox, t.cursor, t.stable)
  BY <1>1, <1>2, <1>3, <1>4, StableNs DEF DaemonOK
<1>6. SentOK(l, t.mode, t.outbox, t.sent)
  BY <1>3, SentAppend DEF DaemonOK, StableOK, OutboxOK
<1>7. Grown(s.stable, t.stable)
  BY <1>4, GrownNs
<1>8. PriorOK(t.stable, s.prior)
  BY <1>7, GrownPrior DEF DaemonOK
<1>9. NsWithin(t.prior.ns, t.stable.ns)
  BY <1>3 DEF NsWithin, Merge, DaemonOK, PriorOK
<1>10. PriorOK(t.stable, t.prior)
  BY <1>3, <1>8, <1>9 DEF PriorOK
<1>11. EpochOK(t.stable, t.epoch)
  BY <1>3, <1>7, GrownEpoch DEF DaemonOK
<1>12. DaemonOK(l, d, t)
  BY <1>3, <1>5, <1>6, <1>10, <1>11 DEF DaemonOK
<1>13. Named(l, d, s, t)
  BY <1>3, <1>7, <1>12 DEF Named
<1> QED  BY <1>13 DEF t

\* Local deletions remove claims and mark the rows of prior.
LEMMA RemoveMissingOK ==
    ASSUME NEW l, NEW d, NEW s, DaemonOK(l, d, s), NEW paths
    PROVE  DaemonOK(l, d, RemoveMissing(d, s, paths))
<1>1. CASE paths = {}
  BY <1>1 DEF RemoveMissing
<1>2. CASE paths # {}
  <2> DEFINE update == RemoveClaims({s.prior.tree[p].claim : p \in paths})
             t == LocalNamespaceUpdate(d, s, update)
             tree == [p \in DOMAIN t.prior.tree |->
                        IF p \in paths THEN [t.prior.tree[p] EXCEPT !.gone = s.clock + 1]
                        ELSE t.prior.tree[p]]
             u == [t EXCEPT !.clock = @ + 1, !.prior.tree = tree]
  <2>1. RemoveMissing(d, s, paths) = u
    BY <1>2 DEF RemoveMissing
  <2>2. IsNamespace(update) /\ update.removed # {}
    BY <1>2, FS_EmptySet DEF IsNamespace, RemoveClaims
  <2> HIDE DEF update
  <2>3. Named(l, d, s, t)
    BY <2>2, LocalNsOK
  <2> HIDE DEF t
  <2>4. DaemonOK(l, d, t)
    BY <2>3 DEF Named
  <2>6. /\ DOMAIN tree = DOMAIN t.prior.tree
        /\ \A p \in DOMAIN tree : /\ DOMAIN tree[p] = DOMAIN t.prior.tree[p]
                                  /\ "object" \in DOMAIN t.prior.tree[p] =>
                                        tree[p].object = t.prior.tree[p].object
    OBVIOUS
  <2> HIDE DEF tree
  <2>7. /\ IsDaemon(u) /\ u.outbox = t.outbox /\ u.stable = t.stable /\ u.cursor = t.cursor
        /\ u.epoch = t.epoch /\ u.prior.ns = t.prior.ns /\ u.prior.docs = t.prior.docs
        /\ u.prior.tree = tree /\ u.mode = t.mode /\ u.sent = t.sent
    BY <2>4 DEF DaemonOK, IsDaemon, IsTables
  <2> HIDE DEF u
  <2>8. PriorOK(u.stable, u.prior)
    BY <2>4, <2>6, <2>7 DEF DaemonOK, PriorOK
  <2>9. DaemonOK(l, d, u)
    BY <2>4, <2>7, <2>8 DEF DaemonOK
  <2> QED  BY <2>1, <2>9
<1> QED  BY <1>1, <1>2

\* What apply_scan writes keeps the invariant of a daemon.
LEMMA AfterScanOK ==
    ASSUME NEW l, NEW d, NEW s, DaemonOK(l, d, s), NEW scope
    PROVE  DaemonOK(l, d, AfterScan(d, s, scope))
<1> DEFINE large == TooLarge(s, Changed(s, scope) \cup New(s, scope))
           f == [p \in large \cup (DOMAIN s.ignored \ GoneIgnored(s, scope)) |->
                    IF p \in large THEN [stat |-> s.disk[p].stat, reason |-> "TooLarge"]
                    ELSE s.ignored[p]]
           t == [s EXCEPT !.ignored = f]
<1>1. AfterScan(d, s, scope) = RemoveMissing(d, t, GonePrior(s, scope))
  BY DEF AfterScan
<1> HIDE DEF f
<1>2. Beside(s, t)
  BY OtherBeside DEF DaemonOK
<1> HIDE DEF t
<1>3. DaemonOK(l, d, t)
  BY <1>2, BesideOK
<1> QED  BY <1>1, <1>3, RemoveMissingOK

\* The paths to read are finitely many.
LEMMA ReadsOfSeq ==
    ASSUME NEW s, IsDaemon(s), NEW scope
    PROVE  IsSeq(ReadsOf(s, scope))
<1> DEFINE C == Changed(s, scope) \ TooLarge(s, Changed(s, scope))
           N == New(s, scope) \ TooLarge(s, New(s, scope))
<1>1. C \subseteq DOMAIN s.disk /\ N \subseteq DOMAIN s.disk
  BY DEF Changed, New, Observed
<1>2. ReadsOf(s, scope) = SortedPaths(C) \o SortedPaths(N)
  BY DEF ReadsOf
<1> HIDE DEF C, N
<1>3. IsFiniteSet(C) /\ IsFiniteSet(N)
  BY <1>1, FS_Subset DEF IsDaemon
<1>4. IsSeq(SortedPaths(C)) /\ IsSeq(SortedPaths(N))
  BY <1>3, SortedPathsFacts
<1> QED  BY <1>2, <1>4, SeqConcat

-----------------------------------------------------------------------------
(* Reading and staging files.                                              *)

\* A staged row of daemon d with stable tables t.
RowOK(d, t, row) ==
    /\ row.object # <<>>
    /\ row.send \in BOOLEAN
    /\ IsDoc(row.update) /\ \A id \in DOMAIN row.update.ins : id[1] = d
    /\ ~row.send => row.update = EmptyDoc
    /\ DOMAIN row.doc.ins \subseteq DOMAIN Lookup(t.docs, row.object).ins \cup DOMAIN row.update.ins
    /\ row.doc.del \subseteq Lookup(t.docs, row.object).del \cup row.update.del

\* A capture inserts ids of the daemon that makes it.
LEMMA CaptureFacts ==
    ASSUME NEW d, NEW doc, NEW text
    PROVE  LET u == Capture(d, doc, text)
           IN  IsDoc(u) /\ \A id \in DOMAIN u.ins : id[1] = d
<1> DEFINE old     == Text(doc)
           added   == UNION {{<<w, k>> : k \in Count(old, w) + 1 .. text[w]} : w \in DOMAIN text}
           clock   == Cardinality({i \in DOMAIN doc.ins : i[1] = d})
           nth(n)  == CHOOSE a \in added : Cardinality({b \in added : OpLess(b, a)}) = n - 1
           removed == UNION {FirstIds(CopiesOf(doc, w), old[w] - Count(text, w)) :
                                w \in DOMAIN old}
           ids     == {<<d, clock + n>> : n \in 1 .. Cardinality(added)}
           ins     == [i \in ids |-> nth(i[2] - clock)[1]]
           u == Capture(d, doc, text)
<1>1. u = [ins |-> ins, del |-> doc.del \cup removed]
  BY Zenon DEF Capture
<1>2. \A id \in ids : id[1] = d
  <2> HIDE DEF clock, added
  <2> QED  OBVIOUS
<1> HIDE DEF ids, nth, clock, removed, u
<1>3. DOMAIN ins = ids /\ ins = [i \in DOMAIN ins |-> ins[i]]
  OBVIOUS
<1> HIDE DEF ins
<1>4. u.ins = ins /\ u = [ins |-> u.ins, del |-> u.del]
  BY <1>1
<1>5. IsDoc(u) /\ \A id \in DOMAIN u.ins : id[1] = d
  BY <1>2, <1>3, <1>4 DEF IsDoc
<1> QED  BY <1>5 DEF u

\* The operations of a document after an update.
LEMMA ApplyFacts ==
    ASSUME NEW doc, NEW update
    PROVE  /\ DOMAIN Apply(doc, update).ins = DOMAIN doc.ins \cup DOMAIN update.ins
           /\ Apply(doc, update).del = doc.del \cup update.del
BY DEF Apply

\* The row of a file whose object is known.
LEMMA StageExistingOK ==
    ASSUME NEW l, NEW d, NEW s, DaemonOK(l, d, s), NEW p, NEW kind, NEW row, NEW claim,
           row.object # <<>>
    PROVE  RowOK(d, s.stable, StageExisting(d, s, p, kind, row, claim))
<1> DEFINE doc == Lookup(s.prior.docs, row.object)
           update == Capture(d, doc, s.disk[p].text)
           known == Lookup(s.stable.docs, row.object)
           same == Text(doc) = s.disk[p].text
           r == StageExisting(d, s, p, kind, row, claim)
<1>1. /\ r.object = row.object /\ r.send = ~same
      /\ r.doc = IF same THEN doc ELSE Apply(doc, update)
      /\ r.update = IF same THEN EmptyDoc ELSE update
  BY DEF StageExisting, StagedRow
<1>3. DocWithin(doc, known)
  <2>1. CASE row.object \in DOMAIN s.prior.docs
    BY <2>1 DEF DaemonOK, PriorOK, Lookup
  <2>2. CASE row.object \notin DOMAIN s.prior.docs
    <3>1. doc = EmptyDoc
      BY <2>2 DEF Lookup
    <3> QED  BY <3>1, EmptyDocFacts DEF DocWithin
  <2> QED  BY <2>1, <2>2
<1> HIDE DEF doc, known, r
<1>4. IsDoc(update) /\ \A id \in DOMAIN update.ins : id[1] = d
  BY CaptureFacts
<1> HIDE DEF update
<1>5. /\ DOMAIN Apply(doc, update).ins = DOMAIN doc.ins \cup DOMAIN update.ins
      /\ Apply(doc, update).del = doc.del \cup update.del
  BY ApplyFacts
<1>6. CASE same
  BY <1>1, <1>3, <1>6, EmptyDocFacts DEF RowOK, DocWithin, r, known
<1>7. CASE ~same
  BY <1>1, <1>3, <1>4, <1>5, <1>7 DEF RowOK, DocWithin, r, known
<1> QED  BY <1>6, <1>7

\* The row of a file with a new object: its text is sent.
LEMMA StageNewOK ==
    ASSUME NEW d, NEW s, NEW p
    PROVE  RowOK(d, s.stable, StageNew(d, s, p))
<1> DEFINE doc == Capture(d, EmptyDoc, s.disk[p].text)
           r == StageNew(d, s, p)
<1>1. r.object = <<d, s.ids + 1>> /\ r.send = TRUE /\ r.doc = doc /\ r.update = doc
  BY DEF StageNew, StagedRow
<1>2. IsDoc(doc) /\ \A id \in DOMAIN doc.ins : id[1] = d
  BY CaptureFacts
<1> HIDE DEF doc, r
<1>3. r.object # <<>>
  BY <1>1
<1> QED  BY <1>1, <1>2, <1>3 DEF RowOK, r

\* A reused tombstone is a row of prior.
LEMMA ReusableRows ==
    ASSUME NEW s, NEW p
    PROVE  Reusable(s, p) \subseteq DOMAIN s.prior.tree
BY DEF Reusable, Tombstones

\* So every staged row is one that may be committed.
LEMMA StageOK ==
    ASSUME NEW l, NEW d, NEW s, DaemonOK(l, d, s), NEW p
    PROVE  RowOK(d, s.stable, Stage(d, s, p))
<1>1. \A x \in DOMAIN s.prior.tree : s.prior.tree[x].object # <<>>
  BY DEF DaemonOK, PriorOK
<1>2. CASE p \in LivePrior(s)
  <2>1. p \in DOMAIN s.prior.tree
    BY <1>2 DEF LivePrior
  <2> QED  BY <1>1, <1>2, <2>1, StageExistingOK DEF Stage
<1>3. CASE p \notin LivePrior(s) /\ Reusable(s, p) # {}
  <2> DEFINE x == CHOOSE x \in Reusable(s, p) : TRUE
  <2>1. x \in DOMAIN s.prior.tree
    BY <1>3, ReusableRows
  <2>2. Stage(d, s, p) = StageExisting(d, s, p, "Resurrect", s.prior.tree[x], <<d, s.ids + 2>>)
    BY <1>3 DEF Stage
  <2> HIDE DEF x
  <2> QED  BY <1>1, <2>1, <2>2, StageExistingOK
<1>4. CASE p \notin LivePrior(s) /\ Reusable(s, p) = {}
  BY <1>4, StageNewOK DEF Stage
<1> QED  BY <1>2, <1>3, <1>4

\* Put keeps a domain finite.
LEMMA PutFinite ==
    ASSUME NEW f, NEW x, NEW v, IsFiniteSet(DOMAIN f)
    PROVE  IsFiniteSet(DOMAIN Put(f, x, v))
BY FS_AddElement DEF Put

\* Taking a file for the daemon's own write leaves prior behind stable: the document
\* of the intent is the one stable has.
LEMMA RealignOK ==
    ASSUME NEW l, NEW d, NEW s, DaemonOK(l, d, s), NEW p, OwnWrites(s, p) # {}
    PROVE  /\ DaemonOK(l, d, Realign(s, p))
           /\ Realign(s, p).outbox = s.outbox /\ Realign(s, p).stable = s.stable
<1> DEFINE i == CHOOSE i \in OwnWrites(s, p) : TRUE
           row == PriorRow(i.object, s.stable.tree[p].claim, s.disk[p])
           t == [s EXCEPT !.prior.docs = Put(@, i.object, i.doc), !.prior.tree = Put(@, p, row)]
<1>1. i.object \in DOMAIN s.stable.docs /\ s.stable.docs[i.object] = i.doc
  <2>1. i \in OwnWrites(s, p)
    OBVIOUS
  <2> QED  BY <2>1 DEF OwnWrites
<1>2. Realign(s, p) = ForgetIntents(t, p)
  BY DEF Realign
<1> HIDE DEF i
<1>3. DOMAIN row = {"object", "claim", "stat", "key", "gone"} /\ row.object = i.object
  BY DEF PriorRow
<1> HIDE DEF row
<1>4. /\ IsDaemon(t) /\ t.outbox = s.outbox /\ t.stable = s.stable /\ t.cursor = s.cursor
      /\ t.epoch = s.epoch /\ t.mode = s.mode /\ t.sent = s.sent /\ t.prior.ns = s.prior.ns
      /\ t.prior.docs = Put(s.prior.docs, i.object, i.doc)
      /\ t.prior.tree = Put(s.prior.tree, p, row)
  BY DEF DaemonOK, IsDaemon, IsTables
<1> HIDE DEF t
<1>5. i.object # <<>>
  BY <1>1 DEF DaemonOK, StableOK, TablesOK
<1>6. DocWithin(i.doc, Lookup(s.stable.docs, i.object))
  BY <1>1 DEF DocWithin, Lookup
<1>7. PriorOK(s.stable, t.prior)
  <2>1. /\ IsFiniteSet(DOMAIN t.prior.tree)
        /\ \A x \in DOMAIN t.prior.tree :
              /\ DOMAIN t.prior.tree[x] = {"object", "claim", "stat", "key", "gone"}
              /\ t.prior.tree[x].object # <<>>
    <3>1. IsFiniteSet(DOMAIN t.prior.tree)
      BY <1>4, PutFinite DEF DaemonOK, PriorOK
    <3>2. \A x \in DOMAIN t.prior.tree : IF x = p THEN t.prior.tree[x] = row
             ELSE x \in DOMAIN s.prior.tree /\ t.prior.tree[x] = s.prior.tree[x]
      BY <1>4 DEF Put
    <3> QED  BY <1>3, <1>5, <3>1, <3>2 DEF DaemonOK, PriorOK
  <2>2. \A o \in DOMAIN t.prior.docs : DocWithin(t.prior.docs[o], Lookup(s.stable.docs, o))
    <3>1. \A o \in DOMAIN t.prior.docs : IF o = i.object THEN t.prior.docs[o] = i.doc
             ELSE o \in DOMAIN s.prior.docs /\ t.prior.docs[o] = s.prior.docs[o]
      BY <1>4 DEF Put
    <3> QED  BY <1>6, <3>1 DEF DaemonOK, PriorOK
  <2>3. NsWithin(t.prior.ns, s.stable.ns)
    BY <1>4 DEF DaemonOK, PriorOK
  <2> QED  BY <2>1, <2>2, <2>3 DEF PriorOK
<1>8. DaemonOK(l, d, t)
  BY <1>4, <1>7 DEF DaemonOK
<1>9. Beside(t, ForgetIntents(t, p))
  BY <1>4, ForgetIntentsBeside
<1> QED  BY <1>2, <1>4, <1>8, <1>9, BesideOK DEF Beside

\* The staged rows of an import that daemon s can commit.
RowsOK(d, s, rows) ==
    IsSeq(rows) /\ \A i \in DOMAIN rows : RowOK(d, s.stable, rows[i])

\* The work record of ReadOne.
WorkOK(l, d, w) ==
    /\ DOMAIN w = {"s", "rows", "rescan"}
    /\ DaemonOK(l, d, w.s)
    /\ RowsOK(d, w.s, w.rows)

\* A read that stages nothing.
LEMMA WorkBeside ==
    ASSUME NEW l, NEW d, NEW w, WorkOK(l, d, w), NEW v, DOMAIN v = DOMAIN w, v.rows = w.rows,
           DaemonOK(l, d, v.s), v.s.outbox = w.s.outbox, v.s.stable = w.s.stable
    PROVE  WorkOK(l, d, v)
BY DEF WorkOK, RowsOK

\* One read, with its faults, its ignored files, own writes and staged rows.
LEMMA ReadOneOK ==
    ASSUME NEW l, NEW d, NEW w, WorkOK(l, d, w), NEW p
    PROVE  WorkOK(l, d, ReadOne(d, w, p))
<1> DEFINE s      == w.s
           denied == FaultsOn(s, "denied", p)
           racing == FaultsOn(s, "changed", p)
           v      == ReadOne(d, w, p)
           clear  == [s EXCEPT !.ignored = Without(@, {p})]
           staged == [s EXCEPT !.ignored = Without(@, {p}), !.ids = @ + 2]
<1>1. DOMAIN w = {"s", "rows", "rescan"} /\ DaemonOK(l, d, s) /\ IsDaemon(s)
  BY DEF WorkOK, DaemonOK
<1>2. CASE denied # {}
  <2> DEFINE t == Ignore(Taken(s, denied), p, "PermissionDenied")
  <2>1. v = [w EXCEPT !.s = t]
    BY <1>2 DEF ReadOne
  <2>2. Beside(s, Taken(s, denied))
    BY <1>1, TakenBeside
  <2>3. Beside(Taken(s, denied), t)
    BY <2>2, IgnoreBeside DEF Beside
  <2>4. Beside(s, t)
    BY <2>2, <2>3, BesideTrans
  <2> HIDE DEF t, v
  <2>5. DOMAIN v = DOMAIN w /\ v.rows = w.rows /\ v.s = t
    BY <1>1, <2>1
  <2>6. DaemonOK(l, d, t) /\ t.outbox = s.outbox /\ t.stable = s.stable
    BY <1>1, <2>4, BesideOK DEF Beside
  <2>7. WorkOK(l, d, v)
    BY <2>5, <2>6, WorkBeside
  <2> QED  BY <2>7 DEF v
<1>3. CASE denied = {} /\ racing # {}
  <2> DEFINE t == ReplaceFile(Taken(s, racing), p, Replacement(racing), "text")
  <2>1. v = [w EXCEPT !.s = t, !.rescan = TRUE]
    BY <1>3 DEF ReadOne
  <2>2. Beside(s, Taken(s, racing))
    BY <1>1, TakenBeside
  <2>3. Beside(Taken(s, racing), t)
    BY <2>2, ReplaceFileBeside DEF Beside
  <2>4. Beside(s, t)
    BY <2>2, <2>3, BesideTrans
  <2> HIDE DEF t, v
  <2>5. DOMAIN v = DOMAIN w /\ v.rows = w.rows /\ v.s = t
    BY <1>1, <2>1
  <2>6. DaemonOK(l, d, t) /\ t.outbox = s.outbox /\ t.stable = s.stable
    BY <1>1, <2>4, BesideOK DEF Beside
  <2>7. WorkOK(l, d, v)
    BY <2>5, <2>6, WorkBeside
  <2> QED  BY <2>7 DEF v
<1>4. CASE denied = {} /\ racing = {} /\ s.disk[p].kind = "binary"
  <2> DEFINE t == Ignore(s, p, "NonUtf8")
  <2>1. v = [w EXCEPT !.s = t]
    BY <1>4 DEF ReadOne
  <2>4. Beside(s, t)
    BY <1>1, IgnoreBeside
  <2> HIDE DEF t, v
  <2>5. DOMAIN v = DOMAIN w /\ v.rows = w.rows /\ v.s = t
    BY <1>1, <2>1
  <2>6. DaemonOK(l, d, t) /\ t.outbox = s.outbox /\ t.stable = s.stable
    BY <1>1, <2>4, BesideOK DEF Beside
  <2>7. WorkOK(l, d, v)
    BY <2>5, <2>6, WorkBeside
  <2> QED  BY <2>7 DEF v
<1>5. CASE /\ denied = {} /\ racing = {} /\ s.disk[p].kind # "binary"
           /\ OwnWrites(s, p) # {} /\ s.mode = "sync"
  <2> DEFINE t == Realign(clear, p)
  <2>1. v = [w EXCEPT !.s = t]
    BY <1>5 DEF ReadOne
  <2>2. Beside(s, clear)
    BY <1>1, OtherBeside
  <2>3. /\ clear.intents = s.intents /\ clear.disk = s.disk
    BY <1>1 DEF IsDaemon
  <2>4. DaemonOK(l, d, clear) /\ clear.outbox = s.outbox /\ clear.stable = s.stable
    BY <1>1, <2>2, BesideOK DEF Beside
  <2> HIDE DEF clear
  <2>5. OwnWrites(clear, p) = OwnWrites(s, p)
    BY <2>3, <2>4 DEF OwnWrites
  <2>6. DaemonOK(l, d, t) /\ t.outbox = s.outbox /\ t.stable = s.stable
    BY <1>5, <2>4, <2>5, RealignOK
  <2> HIDE DEF t, v
  <2>7. DOMAIN v = DOMAIN w /\ v.rows = w.rows /\ v.s = t
    BY <1>1, <2>1
  <2>8. WorkOK(l, d, v)
    BY <2>6, <2>7, WorkBeside
  <2> QED  BY <2>8 DEF v
<1>6. CASE /\ denied = {} /\ racing = {} /\ s.disk[p].kind # "binary"
           /\ ~(OwnWrites(s, p) # {} /\ s.mode = "sync")
  <2> DEFINE row == IF s.mode = "sync" THEN Stage(d, s, p) ELSE StageNew(d, s, p)
             rows == Append(w.rows, row)
  <2>1. v = [w EXCEPT !.s = staged, !.rows = rows]
    BY <1>6 DEF ReadOne
  <2>2. Beside(s, staged)
    BY <1>1, OtherBeside
  <2> HIDE DEF staged
  <2>3. DaemonOK(l, d, staged) /\ staged.outbox = s.outbox /\ staged.stable = s.stable
    BY <1>1, <2>2, BesideOK DEF Beside
  <2>4. RowOK(d, s.stable, row)
    BY <1>1, StageOK, StageNewOK
  <2> HIDE DEF row
  <2>5. IsSeq(rows) /\ Range(rows) = Range(w.rows) \cup {row}
    BY SeqAppend DEF WorkOK, RowsOK
  <2> HIDE DEF rows
  <2>6. \A x \in Range(rows) : RowOK(d, s.stable, x)
    BY <2>4, <2>5 DEF WorkOK, RowsOK, Range
  <2>7. \A i \in DOMAIN rows : rows[i] \in Range(rows)
    BY DEF Range
  <2>8. RowsOK(d, staged, rows)
    BY <2>3, <2>5, <2>6, <2>7 DEF RowsOK
  <2> HIDE DEF v
  <2>9. DOMAIN v = DOMAIN w /\ v.rows = rows /\ v.s = staged
    BY <1>1, <2>1
  <2>10. WorkOK(l, d, v)
    BY <1>1, <2>3, <2>8, <2>9 DEF WorkOK
  <2> QED  BY <2>10 DEF v
<1> QED  BY <1>2, <1>3, <1>4, <1>5, <1>6

\* All reads, by induction along the fold.
LEMMA ReadAllOK ==
    ASSUME NEW l, NEW d, NEW w, WorkOK(l, d, w), NEW q, IsSeq(q)
    PROVE  WorkOK(l, d, ReadAll(d, w, q))
<1>a. PICK h : ReadRun(d, w, q, h)
  BY ReadFold
<1>1. /\ h[0] = w /\ \A i \in 1 .. Len(q) : h[i] = ReadOne(d, h[i - 1], q[i])
      /\ ReadAll(d, w, q) = h[Len(q)]
  BY <1>a, Zenon DEF ReadRun
<1>2. Len(q) \in Nat
  BY SeqLen
<1> DEFINE S == {i \in Nat : WorkOK(l, d, h[i])}
<1>3. 0 \in S
  BY <1>1
<1>4. ASSUME NEW i \in 0 .. Len(q) - 1, i \in S PROVE i + 1 \in S
  <2>1. i + 1 \in 1 .. Len(q) /\ i + 1 \in Nat /\ (i + 1) - 1 = i
    BY <1>2
  <2>2. h[i + 1] = ReadOne(d, h[i], q[i + 1])
    BY <1>1, <2>1
  <2>3. WorkOK(l, d, h[i + 1])
    BY <1>4, <2>2, ReadOneOK
  <2> QED  BY <2>1, <2>3
<1> HIDE DEF S
<1>5. Len(q) \in S
  BY <1>2, <1>3, <1>4, UpTo
<1> QED  BY <1>1, <1>5 DEF S
-----------------------------------------------------------------------------
(* Committing an import.                                                   *)

\* A staged row stays good when the tables grow.
LEMMA RowGrown ==
    ASSUME NEW d, NEW t, NEW t2, NEW row, RowOK(d, t, row), Grown(t, t2)
    PROVE  RowOK(d, t2, row)
<1>1. DocWithin(Lookup(t.docs, row.object), Lookup(t2.docs, row.object))
  BY DEF Grown
<1> QED  BY <1>1 DEF RowOK, DocWithin

\* Growth is transitive.
LEMMA GrownTrans ==
    ASSUME NEW t, NEW t1, NEW t2, Grown(t, t1), Grown(t1, t2)
    PROVE  Grown(t, t2)
<1>1. NsWithin(t.ns, t2.ns)
  BY DEF Grown, NsWithin
<1>2. ASSUME NEW o PROVE DocWithin(Lookup(t.docs, o), Lookup(t2.docs, o))
  <2>1. DocWithin(Lookup(t.docs, o), Lookup(t1.docs, o))
        /\ DocWithin(Lookup(t1.docs, o), Lookup(t2.docs, o))
    BY DEF Grown
  <2> QED  BY <2>1 DEF DocWithin
<1> QED  BY <1>1, <1>2 DEF Grown

\* t is a daemon whose stable tables have all that those of s have.
Advanced(l, d, s, t) == DaemonOK(l, d, t) /\ Grown(s.stable, t.stable)

\* The fields of a daemon after CommitRow.
LEMMA CommitRowFields ==
    ASSUME NEW d, NEW s, IsDaemon(s), NEW row, NEW t, t = CommitRow(d, s, row)
    PROVE  /\ IsDaemon(t) /\ t.epoch = s.epoch /\ t.cursor = s.cursor
           /\ t.mode = s.mode /\ t.sent = s.sent
           /\ t.outbox = IF row.send THEN Append(s.outbox, TextMessage(d, row.object, row.update))
                         ELSE s.outbox
           /\ t.prior.ns = s.prior.ns
           /\ t.prior.docs = Put(s.prior.docs, row.object, row.doc)
           /\ t.prior.tree = Put(s.prior.tree, row.path, PriorRow(row.object, row.claim,
                                                                  s.disk[row.path]))
           /\ t.stable.ns = s.stable.ns /\ t.stable.tree = s.stable.tree
           /\ t.stable.docs = Put(s.stable.docs, row.object,
                                  Apply(Lookup(s.stable.docs, row.object), row.update))
BY DEF CommitRow, IsDaemon, IsTables

\* A committed row reaches stable, prior and outbox together.
LEMMA CommitRowOK ==
    ASSUME NEW l, LogOK(l), NEW d, NEW s, DaemonOK(l, d, s),
           NEW row, RowOK(d, s.stable, row)
    PROVE  Advanced(l, d, s, CommitRow(d, s, row))
<1> DEFINE t == CommitRow(d, s, row)
           m == TextMessage(d, row.object, row.update)
           file == PriorRow(row.object, row.claim, s.disk[row.path])
<1>1. t = CommitRow(d, s, row)
  OBVIOUS
<1> HIDE DEF t
<1>2. /\ m.origin = d /\ m.object = row.object /\ m.update = row.update
  BY DEF TextMessage
<1>3. DOMAIN file = {"object", "claim", "stat", "key", "gone"} /\ file.object = row.object
  BY DEF PriorRow
<1> HIDE DEF m, file
<1>4. /\ IsDaemon(t) /\ t.epoch = s.epoch /\ t.cursor = s.cursor
      /\ t.mode = s.mode /\ t.sent = s.sent
      /\ t.outbox = IF row.send THEN Append(s.outbox, m) ELSE s.outbox
      /\ t.prior.ns = s.prior.ns
      /\ t.prior.docs = Put(s.prior.docs, row.object, row.doc)
      /\ t.prior.tree = Put(s.prior.tree, row.path, file)
      /\ t.stable.ns = s.stable.ns /\ t.stable.tree = s.stable.tree
      /\ t.stable.docs = Put(s.stable.docs, row.object,
                             Apply(Lookup(s.stable.docs, row.object), row.update))
  BY <1>1, CommitRowFields DEF DaemonOK, m, file
<1>5. TextMerged(s.stable, row.object, row.update, t.stable)
  BY <1>4 DEF TextMerged, Edited
<1>6. IsSeq(s.outbox) /\ StableOK(l, d, s.outbox, s.cursor, s.stable) /\ row.object # <<>>
  BY DEF DaemonOK, StableOK, OutboxOK, RowOK
<1>7. StableOK(l, d, t.outbox, t.cursor, t.stable) /\ SentOK(l, t.mode, t.outbox, t.sent)
  <2>1. CASE row.send = TRUE
    <3>1. t.outbox = Append(s.outbox, m)
      BY <1>4, <2>1
    <3>2. IsMessage(d, m)
      BY <1>2, <1>6 DEF IsMessage, RowOK
    <3>3. TextMerged(s.stable, m.object, m.update, t.stable) /\ m.object # <<>>
      BY <1>2, <1>5, <1>6
    <3>4. StableOK(l, d, t.outbox, t.cursor, t.stable)
      BY <1>4, <1>6, <3>1, <3>2, <3>3, StableSend
    <3>5. SentOK(l, t.mode, t.outbox, t.sent)
      BY <1>4, <1>6, <3>1, SentAppend DEF DaemonOK
    <3> QED  BY <3>4, <3>5
  <2>2. CASE row.send = FALSE
    <3>1. t.outbox = s.outbox /\ row.update = EmptyDoc
      BY <1>4, <2>2 DEF RowOK
    <3>2. StableOK(l, d, t.outbox, t.cursor, t.stable)
      BY <1>4, <1>5, <1>6, <3>1, StableQuiet
    <3> QED  BY <1>4, <3>1, <3>2 DEF DaemonOK
  <2> QED  BY <2>1, <2>2 DEF RowOK
<1>8. Grown(s.stable, t.stable)
  BY <1>5, GrownText
<1>9. PriorOK(t.stable, s.prior) /\ EpochOK(t.stable, t.epoch)
  BY <1>4, <1>8, GrownPrior, GrownEpoch DEF DaemonOK
<1>10. DocWithin(row.doc, Lookup(t.stable.docs, row.object))
  <2>1. IsEdit(s.stable.docs, row.object, row.update, t.stable.docs)
    BY <1>5, EditedFacts DEF TextMerged
  <2>2. Lookup(t.stable.docs, row.object) = t.stable.docs[row.object]
    BY <2>1 DEF IsEdit, Lookup
  <2> QED  BY <2>1, <2>2 DEF IsEdit, RowOK, DocWithin
<1>11. PriorOK(t.stable, t.prior)
  <2>1. IsFiniteSet(DOMAIN t.prior.tree)
    BY <1>4, <1>9, PutFinite DEF PriorOK
  <2>2. \A x \in DOMAIN t.prior.tree : IF x = row.path THEN t.prior.tree[x] = file
           ELSE x \in DOMAIN s.prior.tree /\ t.prior.tree[x] = s.prior.tree[x]
    BY <1>4 DEF Put
  <2>3. \A x \in DOMAIN t.prior.tree :
              /\ DOMAIN t.prior.tree[x] = {"object", "claim", "stat", "key", "gone"}
              /\ t.prior.tree[x].object # <<>>
    BY <1>3, <1>6, <1>9, <2>2 DEF PriorOK
  <2>4. \A o \in DOMAIN t.prior.docs : IF o = row.object THEN t.prior.docs[o] = row.doc
           ELSE o \in DOMAIN s.prior.docs /\ t.prior.docs[o] = s.prior.docs[o]
    BY <1>4 DEF Put
  <2>5. \A o \in DOMAIN t.prior.docs : DocWithin(t.prior.docs[o], Lookup(t.stable.docs, o))
    BY <1>9, <1>10, <2>4 DEF PriorOK
  <2> QED  BY <1>4, <1>9, <2>1, <2>3, <2>5 DEF PriorOK
<1>12. DaemonOK(l, d, t)
  BY <1>4, <1>7, <1>9, <1>11 DEF DaemonOK
<1>13. Advanced(l, d, s, t)
  BY <1>8, <1>12 DEF Advanced
<1> QED  BY <1>13 DEF t

\* All rows, by induction along the fold.
LEMMA CommitRowsOK ==
    ASSUME NEW l, LogOK(l), NEW d, NEW s, DaemonOK(l, d, s), NEW rows, RowsOK(d, s, rows)
    PROVE  DaemonOK(l, d, CommitRows(d, s, rows))
<1>0. IsSeq(rows)
  BY DEF RowsOK
<1>1. Len(rows) \in Nat /\ DOMAIN rows = 1 .. Len(rows)
  BY <1>0, SeqLen
<1>a. PICK h : RowRun(d, s, rows, h)
  BY <1>0, RowFold
<1>2. /\ h[0] = s /\ \A i \in 1 .. Len(rows) : h[i] = CommitRow(d, h[i - 1], rows[i])
      /\ CommitRows(d, s, rows) = h[Len(rows)]
  BY <1>a, Zenon DEF RowRun
<1> DEFINE S == {i \in Nat : Advanced(l, d, s, h[i])}
<1>3. 0 \in S
  <2>1. Grown(s.stable, s.stable)
    BY GrownSame
  <2> QED  BY <1>2, <2>1 DEF Advanced
<1>4. ASSUME NEW i \in 0 .. Len(rows) - 1, i \in S PROVE i + 1 \in S
  <2>1. i + 1 \in 1 .. Len(rows) /\ i + 1 \in Nat /\ (i + 1) - 1 = i
    BY <1>1
  <2> DEFINE x == h[i]
             y == h[i + 1]
             row == rows[i + 1]
  <2>2. y = CommitRow(d, x, row)
    BY <1>2, <2>1
  <2>3. Advanced(l, d, s, x)
    BY <1>4
  <2>4. RowOK(d, s.stable, row)
    BY <1>1, <2>1 DEF RowsOK
  <2> HIDE DEF x, y
  <2>5. RowOK(d, x.stable, row)
    BY <2>3, <2>4, RowGrown DEF Advanced
  <2>6. Advanced(l, d, x, y)
    BY <2>2, <2>3, <2>5, CommitRowOK DEF Advanced
  <2>7. Advanced(l, d, s, y)
    BY <2>3, <2>6, GrownTrans DEF Advanced
  <2> QED  BY <2>1, <2>7 DEF y
<1> HIDE DEF S
<1>5. Len(rows) \in S
  BY <1>1, <1>3, <1>4, UpTo
<1> QED  BY <1>2, <1>5 DEF S, Advanced

\* The namespace update of an import is well formed.
LEMMA StagedNamespaceFacts ==
    ASSUME NEW d, NEW s, NEW rows, RowsOK(d, s, rows)
    PROVE  IsNamespace(StagedNamespace(rows))
<1> DEFINE ns == StagedNamespace(rows)
           I == {i \in DOMAIN rows : rows[i].kind # "Update"}
           C == {Claim(rows[i].claim, rows[i].object, rows[i].path) : i \in I}
<1>1. ns.claims = C /\ ns = [objects |-> ns.objects, claims |-> ns.claims, removed |-> ns.removed]
  BY DEF StagedNamespace
<1>2. IsFiniteSet(C)
  <2>1. Len(rows) \in Nat /\ DOMAIN rows = 1 .. Len(rows)
    BY SeqLen DEF RowsOK
  <2>2. IsFiniteSet(1 .. Len(rows))
    BY <2>1, FS_Interval
  <2>3. IsFiniteSet(I)
    BY <2>1, <2>2, FS_Subset
  <2> DEFINE f == [i \in I |-> Claim(rows[i].claim, rows[i].object, rows[i].path)]
  <2>4. f \in Surjection(I, C)
    BY DEF Surjection
  <2> HIDE DEF f, I, C
  <2> QED  BY <2>3, <2>4, FS_Surjection
<1>3. \A c \in C : \E j \in DOMAIN rows : c.object = rows[j].object
  BY DEF Claim
<1> HIDE DEF ns, C
<1>4. \A c \in ns.claims : c.object # <<>>
  BY <1>1, <1>3 DEF RowsOK, RowOK
<1> QED  BY <1>1, <1>2, <1>4 DEF IsNamespace, ns

\* The namespace update of an import and then its rows.
LEMMA CommitImportOK ==
    ASSUME NEW l, LogOK(l), NEW d, NEW s, DaemonOK(l, d, s), NEW rows, RowsOK(d, s, rows)
    PROVE  DaemonOK(l, d, CommitImport(d, s, rows))
<1> DEFINE ns == StagedNamespace(rows)
           named == IF ns.claims = {} THEN s ELSE LocalNamespaceUpdate(d, s, ns)
<1>1. CommitImport(d, s, rows) = CommitRows(d, named, rows)
  BY DEF CommitImport
<1>2. IsNamespace(ns)
  BY StagedNamespaceFacts
<1> HIDE DEF ns
<1>3. Advanced(l, d, s, named)
  <2>1. CASE ns.claims = {}
    <3>1. Grown(s.stable, s.stable)
      BY GrownSame
    <3>2. named = s
      BY <2>1
    <3> HIDE DEF named
    <3> QED  BY <3>1, <3>2 DEF Advanced
  <2>2. CASE ns.claims # {}
    <3>1. Named(l, d, s, LocalNamespaceUpdate(d, s, ns))
      BY <1>2, <2>2, LocalNsOK
    <3>2. named = LocalNamespaceUpdate(d, s, ns)
      BY <2>2
    <3> HIDE DEF named
    <3> QED  BY <3>1, <3>2 DEF Named, Advanced
  <2> QED  BY <2>1, <2>2
<1> HIDE DEF named
<1>4. RowsOK(d, named, rows)
  BY <1>3, RowGrown DEF RowsOK, Advanced
<1> QED  BY <1>1, <1>3, <1>4, CommitRowsOK DEF Advanced

\* A whole scan with its import.
LEMMA ScanAndImportOK ==
    ASSUME NEW l, LogOK(l), NEW d, NEW s, DaemonOK(l, d, s), NEW scope
    PROVE  DaemonOK(l, d, ScanAndImport(d, s, scope))
<1> DEFINE s1 == [s EXCEPT !.scan = {}]
           s2 == AfterScan(d, s1, scope)
           start == [s |-> s2, rows |-> <<>>, rescan |-> FALSE]
           w == ReadAll(d, start, ReadsOf(s, scope))
           done == CommitImport(d, w.s, w.rows)
<1>1. ScanAndImport(d, s, scope) = IF w.rescan THEN [done EXCEPT !.scan = {Full}] ELSE done
  BY DEF ScanAndImport
<1>2. IsDaemon(s)
  BY DEF DaemonOK
<1>3. DaemonOK(l, d, s1)
  BY <1>2, OtherBeside, BesideOK
<1> HIDE DEF s1
<1>4. DaemonOK(l, d, s2)
  BY <1>3, AfterScanOK
<1> HIDE DEF s2
<1>5. WorkOK(l, d, start)
  <2>1. RowsOK(d, s2, <<>>)
    BY EmptyIsSeq DEF RowsOK
  <2>2. start.s = s2 /\ start.rows = <<>> /\ DOMAIN start = {"s", "rows", "rescan"}
    OBVIOUS
  <2> HIDE DEF start
  <2> QED  BY <1>4, <2>1, <2>2 DEF WorkOK
<1> HIDE DEF start
<1>6. IsSeq(ReadsOf(s, scope))
  BY <1>2, ReadsOfSeq
<1>7. WorkOK(l, d, w)
  BY <1>5, <1>6, ReadAllOK
<1> HIDE DEF w
<1>8. DaemonOK(l, d, done)
  BY <1>7, CommitImportOK DEF WorkOK
<1> HIDE DEF done
<1>9. DaemonOK(l, d, [done EXCEPT !.scan = {Full}])
  <2>1. Beside(done, [done EXCEPT !.scan = {Full}])
    BY <1>8, OtherBeside DEF DaemonOK
  <2> QED  BY <1>8, <2>1, BesideOK
<1> QED  BY <1>1, <1>8, <1>9

-----------------------------------------------------------------------------
(* Planning a projection.                                                  *)

\* Every row of the stable tree is of a claimed object.
LEMMA StableTree ==
    ASSUME NEW t, TablesOK(t)
    PROVE  TreeOf(t.tree, t.ns.claims)
<1>1. CASE t.ns = EmptyNamespace
  <2>1. t.tree = <<>>
    BY <1>1 DEF TablesOK
  <2> QED  BY <2>1, EmptyIsSeq, FS_EmptySet DEF TreeOf
<1>2. CASE t.ns # EmptyNamespace
  <2>1. t.tree = Materialize(t.ns) /\ IsFiniteSet(t.ns.claims)
    BY <1>2 DEF TablesOK, IsNamespace
  <2> QED  BY <2>1, MaterializeTree
<1> QED  BY <1>1, <1>2

\* The actions of a plan: each projected document is the one stable has.
LEMMA ActionsOK ==
    ASSUME NEW l, NEW d, NEW s, DaemonOK(l, d, s)
    PROVE  /\ IsSeq(Actions(s))
           /\ \A i \in DOMAIN Actions(s) : ActionOK(s.stable, Actions(s)[i])
<1> DEFINE W == {p \in DOMAIN s.stable.tree : ~UpToDate(s, p)}
           D == LivePrior(s) \ DOMAIN s.stable.tree
           writes == SortedPaths(W)
           deletes == SortedPaths(D)
           ws == [i \in DOMAIN writes |-> Write(s, writes[i])]
           ds == [i \in DOMAIN deletes |-> Delete(s, deletes[i])]
<1>1. Actions(s) = ws \o ds
  BY DEF Actions
<1>2. TreeOf(s.stable.tree, s.stable.ns.claims)
  BY StableTree DEF DaemonOK, StableOK
<1>3. IsFiniteSet(W)
  <2>1. W \in SUBSET DOMAIN s.stable.tree
    OBVIOUS
  <2> QED  BY <1>2, <2>1, FS_Subset DEF TreeOf
<1>4. IsFiniteSet(D)
  <2>1. D \in SUBSET DOMAIN s.prior.tree
    BY DEF LivePrior
  <2> QED  BY <2>1, FS_Subset DEF DaemonOK, PriorOK
<1>5. IsSeq(writes) /\ Range(writes) = W
  BY <1>3, SortedPathsFacts
<1>6. IsSeq(deletes)
  BY <1>4, SortedPathsFacts
<1>7. ASSUME NEW p \in W PROVE ActionOK(s.stable, Write(s, p))
  <2> DEFINE row == s.stable.tree[p]
  <2>1. PICK c \in s.stable.ns.claims : row.object = c.object
    BY <1>2 DEF TreeOf
  <2>2. row.object # <<>>
    BY <2>1 DEF DaemonOK, StableOK, TablesOK, IsNamespace
  <2>3. /\ DOMAIN Write(s, p) = {"op", "path", "object", "claim", "doc", "before"}
        /\ Write(s, p).object = row.object /\ Write(s, p).doc = Lookup(s.stable.docs, row.object)
    BY DEF Write
  <2> QED  BY <2>2, <2>3 DEF ActionOK, DocWithin
<1>8. ASSUME NEW p PROVE ActionOK(s.stable, Delete(s, p))
  <2>1. /\ DOMAIN Delete(s, p) = {"op", "path", "object", "claim", "doc", "before"}
        /\ Delete(s, p).op = "delete"
    BY DEF Delete
  <2> QED  BY <2>1 DEF ActionOK
<1> HIDE DEF writes, deletes, W, D
<1>9. /\ Len(writes) \in Nat /\ DOMAIN writes = 1 .. Len(writes)
      /\ Len(deletes) \in Nat /\ DOMAIN deletes = 1 .. Len(deletes)
  BY <1>5, <1>6, SeqLen
<1>10. IsSeq(ws) /\ IsSeq(ds)
  <2>1. /\ ws = [i \in 1 .. Len(writes) |-> ws[i]]
        /\ ds = [i \in 1 .. Len(deletes) |-> ds[i]]
    BY <1>9
  <2> HIDE DEF ws, ds
  <2> QED  BY <1>9, <2>1, SeqOfFunction
<1>11. \A a \in Range(ws) : ActionOK(s.stable, a)
  <2> SUFFICES ASSUME NEW i \in DOMAIN writes PROVE ActionOK(s.stable, Write(s, writes[i]))
    BY DEF Range
  <2>1. writes[i] \in W
    BY <1>5 DEF Range
  <2> QED  BY <1>7, <2>1
<1>12. \A a \in Range(ds) : ActionOK(s.stable, a)
  BY <1>8 DEF Range
<1> HIDE DEF ws, ds
<1> DEFINE all == ws \o ds
<1>13. IsSeq(all) /\ Range(all) = Range(ws) \cup Range(ds)
  BY <1>10, SeqConcat
<1> HIDE DEF all
<1>14. \A i \in DOMAIN all : all[i] \in Range(all)
  BY DEF Range
<1>15. \A i \in DOMAIN all : ActionOK(s.stable, all[i])
  BY <1>11, <1>12, <1>13, <1>14
<1>16. Actions(s) = all
  BY <1>1 DEF all
<1> QED  BY <1>13, <1>15, <1>16

\* A new epoch beside the same tables.
LEMMA NewEpoch ==
    ASSUME NEW l, NEW d, NEW s, DaemonOK(l, d, s), NEW t, IsDaemon(t),
           t.prior = s.prior, t.stable = s.stable, t.outbox = s.outbox, t.cursor = s.cursor,
           t.mode = s.mode, t.sent = s.sent,
           EpochOK(s.stable, t.epoch)
    PROVE  DaemonOK(l, d, t)
BY DEF DaemonOK

\* PlanProjection records the namespace stable has.
LEMMA PlanOK ==
    ASSUME NEW l, NEW d, NEW s, DaemonOK(l, d, s), Actions(s) # <<>>
    PROVE  DaemonOK(l, d, PlanProjection(s))
<1> DEFINE e == [todo |-> Actions(s), done |-> <<>>, ns |-> s.stable.ns]
           x == UpsertIntents(s.intents, Actions(s))
           t == [s EXCEPT !.intents = x, !.epoch = e]
<1>1. PlanProjection(s) = t
  BY DEF PlanProjection
<1>2. e.todo = Actions(s) /\ e.done = <<>> /\ e.ns = s.stable.ns /\ DOMAIN e = {"todo", "done", "ns"}
  OBVIOUS
<1> HIDE DEF e, x
<1>3. EpochOK(s.stable, e)
  BY <1>2, ActionsOK, EmptyIsSeq DEF EpochOK, NsWithin
<1>4. /\ IsDaemon(t) /\ t.prior = s.prior /\ t.stable = s.stable /\ t.outbox = s.outbox
      /\ t.cursor = s.cursor /\ t.epoch = e /\ t.mode = s.mode /\ t.sent = s.sent
  BY <1>2 DEF DaemonOK, IsDaemon, IsTables
<1> HIDE DEF t
<1>5. DaemonOK(l, d, t)
  BY <1>3, <1>4, NewEpoch
<1> QED  BY <1>1, <1>5

\* Dropping the guards of a clone changes no document.
LEMMA UnguardedOK ==
    ASSUME NEW l, NEW d, NEW s, DaemonOK(l, d, s)
    PROVE  DaemonOK(l, d, Unguarded(s))
<1>1. CASE ~s.clobber
  BY <1>1 DEF Unguarded
<1>2. CASE s.clobber
  <2> DEFINE q == s.epoch.todo
             r == [i \in DOMAIN q |-> IF q[i].op = "write" THEN [q[i] EXCEPT !.before = Anything]
                                      ELSE q[i]]
             t == [s EXCEPT !.epoch.todo = r]
  <2>1. Unguarded(s) = t
    BY <1>2 DEF Unguarded
  <2>2. IsSeq(q) /\ \A i \in DOMAIN q : ActionOK(s.stable, q[i])
    BY DEF DaemonOK, EpochOK
  <2>3. Len(q) \in Nat /\ DOMAIN q = 1 .. Len(q)
    BY <2>2, SeqLen
  <2>4. /\ DOMAIN r = DOMAIN q /\ r = [i \in 1 .. Len(q) |-> r[i]]
    BY <2>3
  <2>5. ASSUME NEW i \in DOMAIN q PROVE ActionOK(s.stable, r[i])
    <3>1. DOMAIN q[i] = {"op", "path", "object", "claim", "doc", "before"}
      BY <2>2 DEF ActionOK
    <3>2. DOMAIN r[i] = DOMAIN q[i] /\ r[i].op = q[i].op /\ r[i].object = q[i].object
          /\ r[i].doc = q[i].doc
      BY <3>1
    <3> HIDE DEF r
    <3> QED  BY <2>2, <3>2 DEF ActionOK
  <2> HIDE DEF r
  <2>6. IsSeq(r) /\ Len(r) = Len(q)
    BY <2>3, <2>4, SeqOfFunction
  <2>7. q # <<>> => r # <<>>
    BY <2>2, <2>3, <2>4, <2>6, EmptyIsSeq, SeqEmptyLen
  <2>8. /\ IsDaemon(t) /\ t.prior = s.prior /\ t.stable = s.stable /\ t.outbox = s.outbox
        /\ t.cursor = s.cursor /\ t.epoch.todo = r /\ t.epoch.done = s.epoch.done
        /\ t.epoch.ns = s.epoch.ns /\ t.mode = s.mode /\ t.sent = s.sent
    BY DEF DaemonOK, IsDaemon, IsTables
  <2>9. s.epoch = NoEpoch => t.epoch = NoEpoch
    <3> SUFFICES ASSUME s.epoch = NoEpoch PROVE t.epoch = NoEpoch
      OBVIOUS
    <3>1. q = <<>>
      BY DEF NoEpoch
    <3>2. r = <<>>
      BY <2>6, <3>1, EmptyIsSeq, SeqEmptyLen
    <3>3. t.epoch = [s.epoch EXCEPT !.todo = <<>>]
      BY <3>2 DEF DaemonOK, IsDaemon
    <3> HIDE DEF t
    <3> QED  BY <3>3 DEF NoEpoch
  <2> HIDE DEF t
  <2>10. EpochOK(s.stable, t.epoch)
    BY <2>4, <2>5, <2>6, <2>7, <2>8, <2>9 DEF DaemonOK, EpochOK
  <2>11. DaemonOK(l, d, t)
    BY <2>8, <2>10, NewEpoch
  <2> QED  BY <2>1, <2>11
<1> QED  BY <1>1, <1>2

-----------------------------------------------------------------------------
(* Carrying out a projection.                                              *)

\* The tables of prior are replaced and nothing else of what the invariant is about.
LEMMA NewPrior ==
    ASSUME NEW l, NEW d, NEW s, DaemonOK(l, d, s), NEW t, IsDaemon(t),
           t.stable = s.stable, t.outbox = s.outbox, t.cursor = s.cursor, t.epoch = s.epoch,
           t.mode = s.mode, t.sent = s.sent,
           PriorOK(s.stable, t.prior)
    PROVE  DaemonOK(l, d, t)
BY DEF DaemonOK

\* t is a daemon whose stable tables and outbox are those of s.
Kept(l, d, s, t) ==
    DaemonOK(l, d, t) /\ t.stable = s.stable /\ t.outbox = s.outbox

\* An action carried out goes to prior; what it projected was in stable when the epoch
\* was planned and stable has only grown since.
LEMMA CommitActionOK ==
    ASSUME NEW l, NEW d, NEW s, DaemonOK(l, d, s),
           NEW done, ActionOK(s.stable, done.action)
    PROVE  Kept(l, d, s, CommitAction(s, done))
<1> DEFINE a == done.action
           file == PriorRow(a.object, a.claim, done.file)
           docs == Put(s.prior.docs, a.object, a.doc)
           tree == Put(s.prior.tree, a.path, file)
           w == [s EXCEPT !.prior.docs = docs, !.prior.tree = tree]
           rest == [s.prior.tree EXCEPT ![a.path].gone = s.clock + 1]
           x == [s EXCEPT !.clock = @ + 1, !.prior.tree = rest]
           t == IF a.op = "write" THEN w ELSE x
<1>0. IsDaemon(s) /\ PriorOK(s.stable, s.prior)
  BY DEF DaemonOK
<1>1. CommitAction(s, done) = ForgetIntents(t, a.path)
  BY <1>0 DEF CommitAction, IsDaemon, IsTables
<1>2. ASSUME a.op = "write" PROVE Kept(l, d, s, t)
  <2>1. DOMAIN file = {"object", "claim", "stat", "key", "gone"} /\ file.object = a.object
    BY DEF PriorRow
  <2> HIDE DEF file
  <2>2. \A p \in DOMAIN tree : IF p = a.path THEN tree[p] = file
           ELSE p \in DOMAIN s.prior.tree /\ tree[p] = s.prior.tree[p]
    BY DEF Put
  <2>3. \A o \in DOMAIN docs : IF o = a.object THEN docs[o] = a.doc
           ELSE o \in DOMAIN s.prior.docs /\ docs[o] = s.prior.docs[o]
    BY DEF Put
  <2>4. IsFiniteSet(DOMAIN tree)
    BY <1>0, PutFinite DEF PriorOK
  <2> HIDE DEF docs, tree
  <2>5. /\ IsDaemon(w) /\ w.stable = s.stable /\ w.outbox = s.outbox /\ w.cursor = s.cursor
        /\ w.epoch = s.epoch /\ w.prior.ns = s.prior.ns /\ w.prior.docs = docs
        /\ w.prior.tree = tree /\ w.mode = s.mode /\ w.sent = s.sent
    BY <1>0 DEF IsDaemon, IsTables
  <2>6. a.object # <<>> /\ DocWithin(a.doc, Lookup(s.stable.docs, a.object))
    BY <1>2 DEF ActionOK
  <2>7. t = w
    BY <1>2
  <2> HIDE DEF w, t, a
  <2>8. \A p \in DOMAIN tree : DOMAIN tree[p] = {"object", "claim", "stat", "key", "gone"}
                               /\ tree[p].object # <<>>
    BY <1>0, <2>1, <2>2, <2>6 DEF PriorOK
  <2>9. \A o \in DOMAIN docs : DocWithin(docs[o], Lookup(s.stable.docs, o))
    BY <1>0, <2>3, <2>6 DEF PriorOK
  <2>10. PriorOK(s.stable, w.prior)
    BY <1>0, <2>4, <2>5, <2>8, <2>9 DEF PriorOK
  <2>11. Kept(l, d, s, w)
    BY <2>5, <2>10, NewPrior DEF Kept
  <2> QED  BY <2>7, <2>11
<1>3. ASSUME a.op # "write" PROVE Kept(l, d, s, t)
  <2>1. /\ DOMAIN rest = DOMAIN s.prior.tree
        /\ \A p \in DOMAIN rest : /\ DOMAIN rest[p] = DOMAIN s.prior.tree[p]
                                  /\ "object" \in DOMAIN s.prior.tree[p] =>
                                        rest[p].object = s.prior.tree[p].object
    OBVIOUS
  <2> HIDE DEF rest
  <2>2. /\ IsDaemon(x) /\ x.stable = s.stable /\ x.outbox = s.outbox /\ x.cursor = s.cursor
        /\ x.epoch = s.epoch /\ x.prior.ns = s.prior.ns /\ x.prior.docs = s.prior.docs
        /\ x.prior.tree = rest /\ x.mode = s.mode /\ x.sent = s.sent
    BY <1>0 DEF IsDaemon, IsTables
  <2>3. t = x
    BY <1>3
  <2> HIDE DEF x, t, a
  <2>4. PriorOK(s.stable, x.prior)
    BY <1>0, <2>1, <2>2 DEF PriorOK
  <2>5. Kept(l, d, s, x)
    BY <2>2, <2>4, NewPrior DEF Kept
  <2> QED  BY <2>3, <2>5
<1> HIDE DEF t
<1>4. Kept(l, d, s, t)
  BY <1>2, <1>3
<1>5. Beside(t, ForgetIntents(t, a.path))
  BY <1>4, ForgetIntentsBeside DEF Kept, DaemonOK
<1> HIDE DEF a
<1>6. DaemonOK(l, d, ForgetIntents(t, a.path))
  BY <1>4, <1>5, BesideOK DEF Kept
<1>7. Kept(l, d, s, ForgetIntents(t, a.path))
  BY <1>4, <1>5, <1>6 DEF Kept, Beside
<1> QED  BY <1>1, <1>7

\* All actions of an epoch, by induction along the fold.
LEMMA CommitActionsOK ==
    ASSUME NEW l, NEW d, NEW s, DaemonOK(l, d, s), NEW q, IsSeq(q),
           \A i \in DOMAIN q : ActionOK(s.stable, q[i].action)
    PROVE  DaemonOK(l, d, CommitActions(s, q))
<1>a. PICK h : ActionRun(s, q, h)
  BY ActionFold
<1>1. /\ h[0] = s /\ \A i \in 1 .. Len(q) : h[i] = CommitAction(h[i - 1], q[i])
      /\ CommitActions(s, q) = h[Len(q)]
  BY <1>a, Zenon DEF ActionRun
<1>2. Len(q) \in Nat /\ DOMAIN q = 1 .. Len(q)
  BY SeqLen
<1> DEFINE S == {i \in Nat : Kept(l, d, s, h[i])}
<1>3. 0 \in S
  BY <1>1 DEF Kept
<1>4. ASSUME NEW i \in 0 .. Len(q) - 1, i \in S PROVE i + 1 \in S
  <2>1. i + 1 \in 1 .. Len(q) /\ i + 1 \in Nat /\ (i + 1) - 1 = i
    BY <1>2
  <2>2. h[i + 1] = CommitAction(h[i], q[i + 1])
    BY <1>1, <2>1
  <2>3. Kept(l, d, s, h[i])
    BY <1>4
  <2>4. ActionOK(h[i].stable, q[i + 1].action)
    BY <1>2, <2>1, <2>3 DEF Kept
  <2>5. Kept(l, d, h[i], h[i + 1])
    BY <2>2, <2>3, <2>4, CommitActionOK DEF Kept
  <2>6. Kept(l, d, s, h[i + 1])
    BY <2>3, <2>5 DEF Kept
  <2> QED  BY <2>1, <2>6
<1> HIDE DEF S
<1>5. Len(q) \in S
  BY <1>2, <1>3, <1>4, UpTo
<1> QED  BY <1>1, <1>5 DEF S, Kept

\* The committed epoch: prior takes the namespace the plan was made from.
LEMMA CommitEpochOK ==
    ASSUME NEW l, NEW d, NEW s, IsDaemon(s), NEW o, DaemonOK(l, d, o),
           s.stable = o.stable, s.outbox = o.outbox, s.cursor = o.cursor, s.prior = o.prior,
           s.mode = o.mode, s.sent = o.sent,
           NsWithin(s.epoch.ns, s.stable.ns), IsSeq(s.epoch.done),
           \A i \in DOMAIN s.epoch.done : ActionOK(s.stable, s.epoch.done[i].action)
    PROVE  DaemonOK(l, d, CommitEpoch(s))
<1> DEFINE t == [s EXCEPT !.prior.ns = s.epoch.ns, !.epoch = NoEpoch]
<1>1. CommitEpoch(s) = CommitActions(t, s.epoch.done)
  BY DEF CommitEpoch
<1>2. EpochOK(s.stable, NoEpoch) /\ DOMAIN NoEpoch = {"todo", "done", "ns"}
  BY NoEpochOK
<1>3. /\ IsDaemon(t) /\ t.stable = s.stable /\ t.outbox = s.outbox /\ t.cursor = s.cursor
      /\ t.epoch = NoEpoch /\ t.prior.ns = s.epoch.ns /\ t.prior.docs = s.prior.docs
      /\ t.prior.tree = s.prior.tree /\ t.mode = s.mode /\ t.sent = s.sent
  BY <1>2 DEF IsDaemon, IsTables
<1> HIDE DEF t
<1>4. PriorOK(t.stable, t.prior)
  BY <1>3 DEF PriorOK, DaemonOK
<1>5. DaemonOK(l, d, t)
  BY <1>2, <1>3, <1>4 DEF DaemonOK
<1>6. \A i \in DOMAIN s.epoch.done : ActionOK(t.stable, s.epoch.done[i].action)
  BY <1>3
<1> QED  BY <1>1, <1>5, <1>6, CommitActionsOK

\* An action that succeeds, and ends the epoch if it was the last.
LEMMA SucceedOK ==
    ASSUME NEW l, NEW d, NEW s, DaemonOK(l, d, s), s.epoch.todo # <<>>,
           NEW a, a = Head(s.epoch.todo), NEW file
    PROVE  DaemonOK(l, d, Succeed(s, a, file))
<1> DEFINE marked == {IF i.path = a.path /\ a.op = "write" /\ i.text = Text(a.doc)
                      THEN [i EXCEPT !.applied = file.stat] ELSE i : i \in s.intents}
           todo == Tail(s.epoch.todo)
           entry == [action |-> a, file |-> file]
           done == Append(s.epoch.done, entry)
           t == [s EXCEPT !.intents = marked, !.epoch.todo = todo, !.epoch.done = done]
<1>1. Succeed(s, a, file) = IF t.epoch.todo = <<>> THEN CommitEpoch(t) ELSE t
  BY DEF Succeed, DaemonOK, IsDaemon
<1>2. IsDaemon(s) /\ EpochOK(s.stable, s.epoch)
  BY DEF DaemonOK
<1>3. entry.action = a
  OBVIOUS
<1> HIDE DEF entry
<1>4. /\ IsSeq(todo) /\ a = s.epoch.todo[1] /\ 1 \in DOMAIN s.epoch.todo
      /\ \A i \in DOMAIN todo : i + 1 \in DOMAIN s.epoch.todo /\ todo[i] = s.epoch.todo[i + 1]
  BY <1>2, SeqTail DEF EpochOK
<1> HIDE DEF todo
<1>5. ActionOK(s.stable, a)
      /\ \A i \in DOMAIN todo : ActionOK(s.stable, todo[i])
  BY <1>2, <1>4 DEF EpochOK
<1>6. IsSeq(done) /\ Range(done) = Range(s.epoch.done) \cup {entry}
  BY <1>2, SeqAppend DEF EpochOK
<1> HIDE DEF done
<1>7. \A i \in DOMAIN done : done[i] \in Range(done)
  BY DEF Range
<1>8. \A e \in Range(s.epoch.done) : ActionOK(s.stable, e.action)
  BY <1>2 DEF EpochOK, Range
<1>9. \A i \in DOMAIN done : ActionOK(s.stable, done[i].action)
  BY <1>3, <1>5, <1>6, <1>7, <1>8
<1> HIDE DEF marked
<1>10. /\ IsDaemon(t) /\ t.prior = s.prior /\ t.stable = s.stable /\ t.outbox = s.outbox
       /\ t.cursor = s.cursor /\ t.epoch.todo = todo /\ t.epoch.done = done
       /\ t.epoch.ns = s.epoch.ns /\ t.mode = s.mode /\ t.sent = s.sent
  BY <1>2 DEF IsDaemon, IsTables
<1> HIDE DEF t
<1>11. CASE todo = <<>>
  <2>1. DaemonOK(l, d, CommitEpoch(t))
    BY <1>2, <1>6, <1>9, <1>10, CommitEpochOK DEF EpochOK
  <2> QED  BY <1>1, <1>10, <1>11, <2>1
<1>12. CASE todo # <<>>
  <2>1. EpochOK(s.stable, t.epoch)
    BY <1>2, <1>4, <1>5, <1>6, <1>9, <1>10, <1>12 DEF EpochOK
  <2>2. DaemonOK(l, d, t)
    BY <1>10, <2>1, NewEpoch
  <2> QED  BY <1>1, <1>10, <1>12, <2>2
<1> QED  BY <1>11, <1>12

\* A conflict drops the epoch and leaves the tables alone.
LEMMA InvalidateOK ==
    ASSUME NEW l, NEW d, NEW s, DaemonOK(l, d, s), NEW a
    PROVE  DaemonOK(l, d, Invalidate(s, a))
<1> DEFINE f == Without(s.disk, {SwapPath(a.path)})
           x == Coalesce(s.scan, Full)
           t == [s EXCEPT !.epoch = NoEpoch, !.scan = x, !.disk = f]
<1>1. Invalidate(s, a) = t
  BY DEF Invalidate
<1>2. IsFiniteSet(DOMAIN f)
  BY WithoutFacts DEF DaemonOK, IsDaemon
<1> HIDE DEF f, x
<1>3. DOMAIN NoEpoch = {"todo", "done", "ns"}
  BY NoEpochOK
<1>4. /\ IsDaemon(t) /\ t.prior = s.prior /\ t.stable = s.stable /\ t.epoch = NoEpoch
      /\ t.outbox = s.outbox /\ t.cursor = s.cursor /\ t.mode = s.mode /\ t.sent = s.sent
  BY <1>2, <1>3 DEF DaemonOK, IsDaemon, IsTables
<1> HIDE DEF t
<1>a. SentOK(l, t.mode, t.outbox, t.sent)
  BY <1>4 DEF DaemonOK
<1>5. DaemonOK(l, d, t)
  BY <1>4, <1>a, DropEpoch
<1> QED  BY <1>1, <1>5

\* A change of the files before the epoch is dropped.
LEMMA InvalidateBeside ==
    ASSUME NEW l, NEW d, NEW s, DaemonOK(l, d, s), NEW t, Beside(s, t), NEW a
    PROVE  DaemonOK(l, d, Invalidate(t, a))
<1>1. DaemonOK(l, d, t)
  BY BesideOK
<1> QED  BY <1>1, InvalidateOK

\* A change of the files before an action succeeds.
LEMMA SucceedBeside ==
    ASSUME NEW l, NEW d, NEW s, DaemonOK(l, d, s), s.epoch.todo # <<>>,
           NEW a, a = Head(s.epoch.todo), NEW t, Beside(s, t), NEW file
    PROVE  DaemonOK(l, d, Succeed(t, a, file))
<1>1. DaemonOK(l, d, t) /\ t.epoch = s.epoch
  BY BesideOK DEF Beside
<1> QED  BY <1>1, SucceedOK

\* guarded_write in all its outcomes.
LEMMA GuardedWriteOK ==
    ASSUME NEW l, NEW d, NEW s, DaemonOK(l, d, s), s.epoch.todo # <<>>,
           NEW a, a = Head(s.epoch.todo)
    PROVE  DaemonOK(l, d, GuardedWrite(s, a))
<1> DEFINE p       == a.path
           leak    == FaultsOn(s, "leak", p)
           before  == FaultsOn(s, "before_swap", p)
           after   == FaultsOn(s, "after_swap", p)
           applied == p \in DOMAIN s.disk /\ s.disk[p].kind = "text" /\ s.disk[p].text = Text(a.doc)
           written == IF applied THEN s ELSE WriteFile(s, p, Text(a.doc), "text")
           leaked  == WriteFile(Taken(s, leak), TempPath(p), Replacement(leak), "text")
           early   == ReplaceFile(Taken(s, before), p, Replacement(before), "text")
           late    == ReplaceFile(Taken(written, after), p, Replacement(after), "text")
<1>1. GuardedWrite(s, a) =
          IF leak # {} THEN Invalidate(leaked, a)
          ELSE IF before # {} THEN Invalidate(early, a)
          ELSE IF ~applied /\ ~GuardHolds(s, a) THEN Invalidate(s, a)
          ELSE IF after # {} THEN Invalidate(late, a)
          ELSE Succeed(written, a, written.disk[p])
  BY DEF GuardedWrite
<1>2. IsDaemon(s)
  BY DEF DaemonOK
<1>3. Beside(s, s)
  BY <1>2 DEF Beside
<1>4. Beside(s, written)
  BY <1>2, <1>3, WriteFileBeside
<1> HIDE DEF written
<1>5. Beside(s, leaked)
  <2>1. Beside(s, Taken(s, leak))
    BY <1>2, TakenBeside
  <2>a. IsDaemon(Taken(s, leak))
    BY <2>1 DEF Beside
  <2>2. Beside(Taken(s, leak), leaked)
    BY <2>a, WriteFileBeside
  <2> HIDE DEF leaked
  <2> QED  BY <2>1, <2>2, BesideTrans
<1>6. Beside(s, early)
  <2>1. Beside(s, Taken(s, before))
    BY <1>2, TakenBeside
  <2>a. IsDaemon(Taken(s, before))
    BY <2>1 DEF Beside
  <2>2. Beside(Taken(s, before), early)
    BY <2>a, ReplaceFileBeside
  <2> HIDE DEF early
  <2> QED  BY <2>1, <2>2, BesideTrans
<1>7. Beside(s, late)
  <2>1. Beside(written, Taken(written, after))
    BY <1>4, TakenBeside DEF Beside
  <2>a. IsDaemon(Taken(written, after))
    BY <2>1 DEF Beside
  <2>2. Beside(Taken(written, after), late)
    BY <2>a, ReplaceFileBeside
  <2> HIDE DEF late
  <2> QED  BY <1>4, <2>1, <2>2, BesideTrans
<1> HIDE DEF leaked, early, late
<1>8. /\ DaemonOK(l, d, Invalidate(leaked, a)) /\ DaemonOK(l, d, Invalidate(early, a))
      /\ DaemonOK(l, d, Invalidate(s, a)) /\ DaemonOK(l, d, Invalidate(late, a))
  BY <1>3, <1>5, <1>6, <1>7, InvalidateBeside
<1>9. DaemonOK(l, d, Succeed(written, a, written.disk[p]))
  BY <1>4, SucceedBeside
<1> HIDE DEF leak, before, after, applied, p
<1> QED  BY <1>1, <1>8, <1>9

\* guarded_delete in both its outcomes.
LEMMA GuardedDeleteOK ==
    ASSUME NEW l, NEW d, NEW s, DaemonOK(l, d, s), s.epoch.todo # <<>>,
           NEW a, a = Head(s.epoch.todo)
    PROVE  DaemonOK(l, d, GuardedDelete(s, a))
<1>1. Beside(s, DeleteFile(s, a.path))
  BY DeleteFileBeside DEF DaemonOK
<1>2. DaemonOK(l, d, Succeed(DeleteFile(s, a.path), a, s.disk[a.path]))
  BY <1>1, SucceedBeside
<1>3. DaemonOK(l, d, Invalidate(s, a))
  BY InvalidateOK
<1> QED  BY <1>2, <1>3 DEF GuardedDelete

\* The next action of an epoch.
LEMMA PerformOK ==
    ASSUME NEW l, NEW d, NEW s, DaemonOK(l, d, s), s.epoch # NoEpoch
    PROVE  DaemonOK(l, d, Perform(s))
<1>1. s.epoch.todo # <<>>
  BY DEF DaemonOK, EpochOK
<1> DEFINE a == Head(s.epoch.todo)
<1>2. Perform(s) = IF a.op = "write" THEN GuardedWrite(s, a) ELSE GuardedDelete(s, a)
  BY DEF Perform
<1>3. a = Head(s.epoch.todo)
  OBVIOUS
<1> HIDE DEF a
<1>4. DaemonOK(l, d, GuardedWrite(s, a)) /\ DaemonOK(l, d, GuardedDelete(s, a))
  BY <1>1, <1>3, GuardedWriteOK, GuardedDeleteOK
<1> QED  BY <1>2, <1>4

-----------------------------------------------------------------------------
(* The log.                                                                *)

\* t is s after message m.
Applied(d, s, m, t) ==
    /\ IsDaemon(t) /\ t.prior = s.prior /\ t.epoch = s.epoch /\ t.outbox = s.outbox
    /\ t.cursor = s.cursor + 1 /\ t.mode = s.mode /\ t.sent = s.sent
    /\ IF m.origin = d THEN t.stable = s.stable
       ELSE IF m.object # <<>> THEN TextMerged(s.stable, m.object, m.update, t.stable)
       ELSE Merged(s.stable, m, t.stable)

\* The fields of a daemon after ApplyMessage and the step of its cursor.
LEMMA ApplyFields ==
    ASSUME NEW d, NEW s, IsDaemon(s), NEW m
    PROVE  Applied(d, s, m, [ApplyMessage(d, s, m) EXCEPT !.cursor = @ + 1])
<1> DEFINE t == [ApplyMessage(d, s, m) EXCEPT !.cursor = @ + 1]
<1>1. CASE m.origin = d
  BY <1>1 DEF ApplyMessage, IsDaemon, IsTables, Applied
<1>2. CASE m.origin # d /\ m.object # <<>>
  <2> DEFINE docs == Put(s.stable.docs, m.object, Apply(Lookup(s.stable.docs, m.object), m.update))
             u == [s EXCEPT !.stable.docs = docs, !.cursor = @ + 1]
  <2>1. t = u
    BY <1>2 DEF ApplyMessage, IsDaemon, IsTables
  <2>2. docs = Edited(s.stable.docs, m.object, m.update)
    BY DEF Edited
  <2> HIDE DEF docs
  <2>3. /\ IsDaemon(u) /\ u.prior = s.prior /\ u.epoch = s.epoch /\ u.outbox = s.outbox
        /\ u.cursor = s.cursor + 1 /\ u.stable.ns = s.stable.ns
        /\ u.stable.tree = s.stable.tree /\ u.stable.docs = docs
        /\ u.mode = s.mode /\ u.sent = s.sent
    BY DEF IsDaemon, IsTables
  <2> HIDE DEF u, t
  <2>4. Applied(d, s, m, u)
    BY <1>2, <2>2, <2>3 DEF TextMerged, Applied
  <2> QED  BY <2>1, <2>4 DEF t
<1>3. CASE m.origin # d /\ m.object = <<>>
  <2> DEFINE ns == Merge(s.stable.ns, m.update)
             tree == Materialize(ns)
             u == [s EXCEPT !.stable.ns = ns, !.stable.tree = tree, !.cursor = @ + 1]
  <2>1. t = u
    BY <1>3 DEF ApplyMessage, IsDaemon, IsTables
  <2>2. tree = Materialize(ns)
    OBVIOUS
  <2> HIDE DEF tree
  <2>3. ns = Merge(s.stable.ns, m.update)
    OBVIOUS
  <2> HIDE DEF ns
  <2>4. /\ IsDaemon(u) /\ u.prior = s.prior /\ u.epoch = s.epoch /\ u.outbox = s.outbox
        /\ u.cursor = s.cursor + 1 /\ u.stable.ns = ns
        /\ u.stable.tree = tree /\ u.stable.docs = s.stable.docs
        /\ u.mode = s.mode /\ u.sent = s.sent
    BY DEF IsDaemon, IsTables
  <2> HIDE DEF u, t
  <2>5. Applied(d, s, m, u)
    BY <1>3, <2>2, <2>3, <2>4 DEF Merged, Applied
  <2> QED  BY <2>1, <2>5 DEF t
<1> QED  BY <1>1, <1>2, <1>3

\* Ingesting the next record of the log.
LEMMA IngestOK ==
    ASSUME NEW d, NEW s, LogOK(log), DaemonOK(log, d, s), s.cursor < Len(log)
    PROVE  DaemonOK(log, d, ApplyNext(d, s))
<1> DEFINE m == log[s.cursor + 1]
           t == [ApplyMessage(d, s, m) EXCEPT !.cursor = @ + 1]
<1>1. ApplyNext(d, s) = t
  BY DEF ApplyNext
<1>2. IsDaemon(s) /\ IsSeq(log) /\ s.cursor \in Nat /\ s.cursor + 1 \in DOMAIN log
  <2>1. IsDaemon(s) /\ IsSeq(log) /\ s.cursor \in 0 .. Len(log)
    BY DEF DaemonOK, StableOK, LogOK
  <2>2. Len(log) \in Nat /\ DOMAIN log = 1 .. Len(log)
    BY <2>1, SeqLen
  <2> QED  BY <2>1, <2>2
<1>a. Applied(d, s, m, t)
  BY <1>2, ApplyFields
<1> HIDE DEF t
<1>b. m = log[s.cursor + 1]
  OBVIOUS
<1> HIDE DEF m
<1>3. /\ IsDaemon(t) /\ t.prior = s.prior /\ t.epoch = s.epoch /\ t.outbox = s.outbox
      /\ t.cursor = s.cursor + 1 /\ t.mode = s.mode /\ t.sent = s.sent
      /\ IF m.origin = d THEN t.stable = s.stable
         ELSE IF m.object # <<>> THEN TextMerged(s.stable, m.object, m.update, t.stable)
              ELSE Merged(s.stable, m, t.stable)
  BY <1>a DEF Applied
<1>4. StableOK(log, d, s.outbox, s.cursor, s.stable)
  BY DEF DaemonOK
<1>5. StableOK(log, d, t.outbox, t.cursor, t.stable)
  BY <1>b, <1>3, <1>4, StableIngest
<1>6. Grown(s.stable, t.stable)
  BY <1>3, GrownSame, GrownText, GrownNs
<1>8. PriorOK(t.stable, t.prior) /\ EpochOK(t.stable, t.epoch)
  BY <1>3, <1>6, GrownPrior, GrownEpoch DEF DaemonOK
<1>9. DaemonOK(log, d, t)
  BY <1>3, <1>5, <1>8 DEF DaemonOK
<1> QED  BY <1>1, <1>9

-----------------------------------------------------------------------------
(* The controller and changes of mode.                                     *)

\* A process that ends or begins forgets its epoch and what it has sent.
LEMMA OverOK ==
    ASSUME NEW l, NEW d, NEW s, DaemonOK(l, d, s), NEW mode
    PROVE  DaemonOK(l, d, Over(s, mode))
<1> DEFINE t == Over(s, mode)
<1>1. DOMAIN NoEpoch = {"todo", "done", "ns"}
  BY NoEpochOK
<1>2. /\ IsDaemon(t) /\ t.prior = s.prior /\ t.stable = s.stable /\ t.epoch = NoEpoch
      /\ t.outbox = s.outbox /\ t.cursor = s.cursor /\ t.sent = 0
  BY <1>1 DEF Over, DaemonOK, IsDaemon, IsTables
<1> HIDE DEF t
<1>3. SentOK(l, t.mode, t.outbox, t.sent)
  BY <1>2, SentNothing DEF DaemonOK, StableOK, OutboxOK
<1>4. DaemonOK(l, d, t)
  BY <1>2, <1>3, DropEpoch
<1> QED  BY <1>4 DEF t

\* No command of the controller touches the tables.
LEMMA DoOK ==
    ASSUME NEW l, NEW d, NEW s, DaemonOK(l, d, s), NEW c, c.cmd \in Commands
    PROVE  DaemonOK(l, d, Do(s, c))
<1>1. IsDaemon(s)
  BY DEF DaemonOK
<1>2. CASE c.cmd \in {"start", "init", "clone"}
  <2>1. ASSUME NEW mode
        PROVE  /\ DaemonOK(l, d, Over(s, mode))
               /\ \A x : DaemonOK(l, d, [Over(s, mode) EXCEPT !.scan = x])
               /\ \A x : DaemonOK(l, d, [Over(s, mode) EXCEPT !.clobber = x])
    <3> DEFINE u == Over(s, mode)
    <3>1. DaemonOK(l, d, u)
      BY OverOK
    <3> HIDE DEF u
    <3>2. \A x : Beside(u, [u EXCEPT !.scan = x]) /\ Beside(u, [u EXCEPT !.clobber = x])
      BY <3>1, OtherBeside DEF DaemonOK
    <3>3. \A x : DaemonOK(l, d, [u EXCEPT !.scan = x]) /\ DaemonOK(l, d, [u EXCEPT !.clobber = x])
      BY <3>1, <3>2, BesideOK
    <3> QED  BY <3>1, <3>3 DEF u
  <2>2. CASE c.cmd = "start"
    <3>1. Do(s, c) = [Over(s, "sync") EXCEPT !.scan = {Full}]
      BY <2>2 DEF Do, Started
    <3>2. DaemonOK(l, d, [Over(s, "sync") EXCEPT !.scan = {Full}])
      BY <2>1
    <3> QED  BY <3>1, <3>2, Zenon
  <2>3. CASE c.cmd = "init"
    <3>1. Do(s, c) = Over(s, "init")
      BY <2>3 DEF Do
    <3> QED  BY <2>1, <3>1
  <2>4. CASE c.cmd = "clone"
    <3>1. Do(s, c) = [Over(s, "clone") EXCEPT !.clobber = c.clobber]
      BY <2>4 DEF Do
    <3>2. DaemonOK(l, d, [Over(s, "clone") EXCEPT !.clobber = c.clobber])
      BY <2>1
    <3> QED  BY <3>1, <3>2, Zenon
  <2> QED  BY <1>2, <2>2, <2>3, <2>4
<1>3. CASE c.cmd \notin {"start", "init", "clone"}
  <2> SUFFICES Beside(s, Do(s, c))
    BY BesideOK
  <2>1. CASE c.cmd = "write"
    <3>1. Do(s, c) = WriteFile(s, c.path, c.text, c.kind)
      BY <2>1 DEF Do
    <3> QED  BY <1>1, <3>1, WriteFileBeside
  <2>2. CASE c.cmd = "replace"
    <3>1. Do(s, c) = ReplaceFile(s, c.path, c.text, "text")
      BY <2>2 DEF Do
    <3> QED  BY <1>1, <3>1, ReplaceFileBeside
  <2>3. CASE c.cmd = "append"
    <3>1. Do(s, c) = AddToFile(s, c.path, c.words)
      BY <2>3 DEF Do
    <3> QED  BY <1>1, <3>1, AddToFileBeside
  <2>4. CASE c.cmd = "delete"
    <3>1. Do(s, c) = DeleteFile(s, c.path)
      BY <2>4 DEF Do
    <3> QED  BY <1>1, <3>1, DeleteFileBeside
  <2>5. CASE c.cmd = "rename"
    <3>1. Do(s, c) = RenameFile(s, c.path, c.to)
      BY <2>5 DEF Do
    <3> QED  BY <1>1, <3>1, RenameFileBeside
  <2>6. CASE c.cmd = "scan"
    <3>1. Do(s, c) = [s EXCEPT !.scan = Coalesce(s.scan, c.scope)]
      BY <2>6 DEF Do
    <3>2. Beside(s, [s EXCEPT !.scan = Coalesce(s.scan, c.scope)])
      BY <1>1, OtherBeside
    <3> QED  BY <3>1, <3>2, Zenon
  <2>7. CASE c.cmd = "inject"
    <3>1. Do(s, c) = [s EXCEPT !.faults = s.faults \cup {c.fault}]
      BY <2>7 DEF Do
    <3>2. Beside(s, [s EXCEPT !.faults = s.faults \cup {c.fault}])
      BY <1>1, OtherBeside
    <3> QED  BY <3>1, <3>2, Zenon
  <2>8. CASE c.cmd = "link"
    <3>1. Do(s, c) = [s EXCEPT !.link = c.link]
      BY <2>8 DEF Do
    <3>2. Beside(s, [s EXCEPT !.link = c.link])
      BY <1>1, OtherBeside
    <3> QED  BY <3>1, <3>2, Zenon
  <2> QED  BY <1>3, <2>1, <2>2, <2>3, <2>4, <2>5, <2>6, <2>7, <2>8 DEF Commands
<1> QED  BY <1>2, <1>3

\* Changes of mode within a bootstrap and at its end.
LEMMA SetMode ==
    ASSUME NEW l, NEW d, NEW s, DaemonOK(l, d, s), NEW mode, mode # "sync"
    PROVE  /\ DaemonOK(l, d, [s EXCEPT !.mode = mode])
           /\ \A x : DaemonOK(l, d, [s EXCEPT !.mode = mode, !.tail = x])
<1>1. IsDaemon(s) /\ SentOK(l, s.mode, s.outbox, s.sent)
  BY DEF DaemonOK
<1>2. SentOK(l, mode, s.outbox, s.sent)
  BY <1>1 DEF SentOK
<1>3. ASSUME NEW t, t.mode = mode, IsDaemon(t), t.prior = s.prior, t.stable = s.stable,
             t.epoch = s.epoch, t.outbox = s.outbox, t.cursor = s.cursor, t.sent = s.sent
      PROVE  DaemonOK(l, d, t)
  BY <1>2, <1>3 DEF DaemonOK
<1>4. DaemonOK(l, d, [s EXCEPT !.mode = mode])
  <2> DEFINE t == [s EXCEPT !.mode = mode]
  <2>1. /\ t.mode = mode /\ IsDaemon(t) /\ t.prior = s.prior /\ t.stable = s.stable
        /\ t.epoch = s.epoch /\ t.outbox = s.outbox /\ t.cursor = s.cursor /\ t.sent = s.sent
    BY <1>1 DEF IsDaemon, IsTables
  <2> HIDE DEF t
  <2>2. DaemonOK(l, d, t)
    BY <1>3, <2>1
  <2> QED  BY <2>2 DEF t
<1>5. ASSUME NEW x PROVE DaemonOK(l, d, [s EXCEPT !.mode = mode, !.tail = x])
  <2> DEFINE t == [s EXCEPT !.mode = mode, !.tail = x]
  <2>1. /\ t.mode = mode /\ IsDaemon(t) /\ t.prior = s.prior /\ t.stable = s.stable
        /\ t.epoch = s.epoch /\ t.outbox = s.outbox /\ t.cursor = s.cursor /\ t.sent = s.sent
    BY <1>1 DEF IsDaemon, IsTables
  <2> HIDE DEF t
  <2>2. DaemonOK(l, d, t)
    BY <1>3, <2>1
  <2> QED  BY <2>2 DEF t
<1> QED  BY <1>4, <1>5

\* Another daemon appends a message to the log.
LEMMA OtherAppends ==
    ASSUME NEW l, LogOK(l), NEW d, NEW m, IsMessage(d, m), NEW e, e # d, NEW s,
           DaemonOK(l, e, s)
    PROVE  DaemonOK(Append(l, m), e, s)
<1> DEFINE l2 == Append(l, m)
<1>1. StableOK(l2, e, s.outbox, s.cursor, s.stable)
  BY AppendOther DEF DaemonOK
<1>2. SentOK(l2, s.mode, s.outbox, s.sent)
  BY SentLonger DEF DaemonOK, LogOK
<1> HIDE DEF l2
<1>3. DaemonOK(l2, e, s)
  BY <1>1, <1>2 DEF DaemonOK
<1> QED  BY <1>3 DEF l2

\* The outbox and what is sent of it change, and nothing else the invariant is about.
LEMMA NewOutbox ==
    ASSUME NEW l, NEW k, NEW d, NEW s, DaemonOK(l, d, s), NEW t, IsDaemon(t),
           t.prior = s.prior, t.stable = s.stable, t.epoch = s.epoch,
           StableOK(k, d, t.outbox, t.cursor, t.stable), SentOK(k, t.mode, t.outbox, t.sent)
    PROVE  DaemonOK(k, d, t)
BY DEF DaemonOK

-----------------------------------------------------------------------------
(* Steps of the specification.                                             *)

\* A step of one daemon that leaves the log alone.
LEMMA DaemonStep ==
    ASSUME SharedInv, NEW d \in Daemons, NEW t, DaemonOK(log, d, t), Becomes(d, t),
           log' = log, work' = work, part' = part, pc' \in [Daemons -> Nat]
    PROVE  SharedInv'
<1> DEFINE D == DOMAIN Workload(work).start
<1>1. /\ Daemons = D /\ daemon = [e \in D |-> daemon[e]]
  BY DEF SharedInv, ScriptOK, Daemons
<1>2. daemon' = [e \in D |-> IF e = d THEN t ELSE daemon[e]]
  BY <1>1 DEF Becomes
<1>3. Daemons' = D /\ daemon' = [e \in D |-> daemon'[e]]
  BY <1>2 DEF Daemons
<1>4. ScriptOK'
  BY <1>1, <1>3 DEF SharedInv, ScriptOK
<1> HIDE DEF D
<1>5. \A e \in D : DaemonOK(log, e, daemon'[e])
  BY <1>1, <1>2 DEF SharedInv
<1> QED  BY <1>3, <1>4, <1>5 DEF SharedInv

\* A step of one daemon that appends one of its messages.
LEMMA AppendStep ==
    ASSUME SharedInv, NEW d \in Daemons, NEW m, IsMessage(d, m), NEW t,
           DaemonOK(Append(log, m), d, t), Becomes(d, t), log' = Append(log, m),
           UNCHANGED scriptVars
    PROVE  SharedInv'
<1> DEFINE D == DOMAIN Workload(work).start
           l == Append(log, m)
<1>1. /\ Daemons = D /\ daemon = [e \in D |-> daemon[e]]
  BY DEF SharedInv, ScriptOK, Daemons
<1>2. daemon' = [e \in D |-> IF e = d THEN t ELSE daemon[e]]
  BY <1>1 DEF Becomes
<1>3. Daemons' = D /\ daemon' = [e \in D |-> daemon'[e]]
  BY <1>2 DEF Daemons
<1>4. ScriptOK'
  BY <1>1, <1>3 DEF SharedInv, ScriptOK, scriptVars
<1> HIDE DEF D
<1>5. LogOK(log) /\ m.origin = d
  BY DEF SharedInv, IsMessage
<1>6. LogOK(l)
  BY <1>5, LogLonger
<1>7. \A e \in D : e # d => DaemonOK(l, e, daemon[e])
  BY <1>1, <1>5, OtherAppends DEF SharedInv
<1>8. log' = l /\ DaemonOK(l, d, t)
  OBVIOUS
<1> HIDE DEF l
<1>9. \A e \in D : DaemonOK(log', e, daemon'[e])
  BY <1>2, <1>7, <1>8
<1> QED  BY <1>3, <1>4, <1>6, <1>8, <1>9 DEF SharedInv

\* A new database on an empty log.
LEMMA FreshOK ==
    ASSUME NEW d, NEW mode, NEW files, IsFiniteSet(DOMAIN files)
    PROVE  DaemonOK(<<>>, d, Fresh(mode, files))
<1> DEFINE s == Fresh(mode, files)
           t == [ns |-> EmptyNamespace, tree |-> <<>>, docs |-> <<>>]
<1>1. /\ DOMAIN s = {"disk", "clock", "ids", "faults", "prior", "stable", "intents", "epoch",
                   "ignored", "outbox", "sent", "cursor", "tail", "scan", "mode", "clobber", "link"}
      /\ DOMAIN s.disk = DOMAIN files
      /\ s.prior = t /\ s.stable = t /\ s.epoch = NoEpoch /\ s.outbox = <<>> /\ s.cursor = 0
      /\ s.sent = 0
  BY DEF Fresh
<1> HIDE DEF s
<1>2. t.ns = EmptyNamespace /\ t.tree = <<>> /\ t.docs = <<>> /\ IsTables(t)
  BY DEF IsTables
<1> HIDE DEF t
<1>3. EpochOK(t, NoEpoch) /\ DOMAIN NoEpoch = {"todo", "done", "ns"}
  BY NoEpochOK
<1>4. IsDaemon(s)
  BY <1>1, <1>2, <1>3 DEF IsDaemon
<1>5. /\ IsSeq(<<>>) /\ DOMAIN <<>> = {} /\ Len(<<>>) = 0 /\ Range(<<>>) = {}
  BY EmptyIsSeq
<1>6. /\ EmptyNamespace.objects = {} /\ EmptyNamespace.claims = {} /\ EmptyNamespace.removed = {}
      /\ IsNamespace(EmptyNamespace)
  BY FS_EmptySet DEF EmptyNamespace, IsNamespace
<1>7. TablesOK(t)
  <2>1. t.docs = [o \in DOMAIN t.docs |-> t.docs[o]]
    BY <1>2, <1>5
  <2> QED  BY <1>2, <1>5, <1>6, <2>1 DEF TablesOK
<1>8. Known(<<>>, d, <<>>, 0) = {}
  BY <1>5 DEF Known
<1>9. Reflects({}, t)
  BY <1>2, <1>5, <1>6 DEF Reflects, About
<1>10. StableOK(<<>>, d, <<>>, 0, t)
  <2>1. OutboxOK(d, <<>>)
    BY <1>5 DEF OutboxOK
  <2>2. 0 \in 0 .. Len(<<>>)
    BY <1>5
  <2>3. WordsOK(<<>>, <<>>, t)
    BY <1>2, <1>5 DEF WordsOK
  <2>4. Reflects(Known(<<>>, d, <<>>, 0), t)
    BY <1>8, <1>9
  <2> QED  BY <1>7, <2>1, <2>2, <2>3, <2>4 DEF StableOK
<1>11. SentOK(<<>>, s.mode, <<>>, 0)
  BY <1>5, SentNothing
<1>12. PriorOK(t, t)
  BY <1>2, <1>5, FS_EmptySet DEF PriorOK, NsWithin
<1>13. DaemonOK(<<>>, d, s)
  BY <1>1, <1>3, <1>4, <1>10, <1>11, <1>12 DEF DaemonOK
<1> QED  BY <1>13 DEF s

\* The invariant holds at first.
LEMMA SharedInit == Init => SharedInv
<1> SUFFICES ASSUME Init PROVE SharedInv
  OBVIOUS
<1> DEFINE w == Workload(work)
<1>1. work \in Scripts /\ daemon = w.start /\ log = <<>> /\ part = 1 /\ pc = [d \in Daemons |-> 0]
  BY DEF Init
<1>2. IsWorkload(w)
  BY <1>1, ScriptsAssumption
<1> HIDE DEF w
<1>3. ScriptOK
  BY <1>1, <1>2 DEF ScriptOK, IsWorkload, w, Daemons
<1>4. ASSUME NEW d \in Daemons PROVE DaemonOK(log, d, daemon[d])
  <2> DEFINE s == w.start[d]
             files == [p \in DOMAIN s.disk |-> s.disk[p].text]
  <2>1. IsFiniteSet(DOMAIN s.disk) /\ s = Fresh(s.mode, files)
    BY <1>1, <1>2, <1>4 DEF IsWorkload, Daemons
  <2>2. DOMAIN files = DOMAIN s.disk
    OBVIOUS
  <2>3. daemon[d] = s
    BY <1>1
  <2> HIDE DEF s, files
  <2>4. DaemonOK(<<>>, d, Fresh(s.mode, files))
    BY <2>1, <2>2, FreshOK
  <2> QED  BY <1>1, <2>1, <2>3, <2>4
<1>5. LogOK(log)
  BY <1>1, EmptyIsSeq DEF LogOK
<1> QED  BY <1>3, <1>4, <1>5 DEF SharedInv

\* A step of an engine that leaves the log alone.
LEMMA EngineBecomes ==
    ASSUME SharedInv, NEW d \in Daemons, NEW t, DaemonOK(log, d, t), Becomes(d, t),
           log' = log, UNCHANGED scriptVars
    PROVE  SharedInv'
<1>1. work' = work /\ part' = part /\ pc' \in [Daemons -> Nat]
  BY DEF SharedInv, ScriptOK, scriptVars
<1> QED  BY <1>1, DaemonStep

\* The steps of a syncing daemon: import,
LEMMA ImportStep ==
    ASSUME SharedInv, NEW d \in Daemons, Import(d), UNCHANGED scriptVars
    PROVE  SharedInv'
<1> DEFINE s == daemon[d]
           scope == IF s.scan = {} THEN Full ELSE CHOOSE x \in s.scan : TRUE
           t == ScanAndImport(d, s, scope)
<1>1. LogOK(log) /\ DaemonOK(log, d, s)
  BY DEF SharedInv
<1>2. Becomes(d, t) /\ log' = log
  BY DEF Import
<1> HIDE DEF s, scope
<1>3. DaemonOK(log, d, t)
  BY <1>1, ScanAndImportOK
<1> QED  BY <1>2, <1>3, EngineBecomes

\* planning a projection,
LEMMA PlanStep ==
    ASSUME SharedInv, NEW d \in Daemons, Plan(d), UNCHANGED scriptVars
    PROVE  SharedInv'
<1> DEFINE s == daemon[d]
           t == PlanProjection(s)
<1>1. DaemonOK(log, d, s)
  BY DEF SharedInv
<1>2. Actions(s) # <<>> /\ Becomes(d, t) /\ log' = log
  BY DEF Plan
<1> HIDE DEF s
<1>3. DaemonOK(log, d, t)
  BY <1>1, <1>2, PlanOK
<1> QED  BY <1>2, <1>3, EngineBecomes

\* carrying out an action,
LEMMA ActStep ==
    ASSUME SharedInv, NEW d \in Daemons, Act(d), UNCHANGED scriptVars
    PROVE  SharedInv'
<1> DEFINE s == daemon[d]
           t == Perform(s)
<1>1. DaemonOK(log, d, s)
  BY DEF SharedInv
<1>2. s.epoch # NoEpoch /\ Becomes(d, t) /\ log' = log
  BY DEF Act
<1> HIDE DEF s
<1>3. DaemonOK(log, d, t)
  BY <1>1, <1>2, PerformOK
<1> QED  BY <1>2, <1>3, EngineBecomes

\* publishing: the head of the outbox goes to the log and is trimmed,
LEMMA PublishStep ==
    ASSUME SharedInv, NEW d \in Daemons, Publish(d), UNCHANGED scriptVars
    PROVE  SharedInv'
<1> DEFINE s == daemon[d]
           q == s.outbox
           m == Head(q)
           l == Append(log, m)
           t == [s EXCEPT !.outbox = Tail(q)]
<1>1. s.mode = "sync" /\ q # <<>> /\ Becomes(d, t) /\ log' = l
  BY DEF Publish
<1>2. LogOK(log) /\ DaemonOK(log, d, s)
  BY DEF SharedInv
<1>3. /\ IsDaemon(s) /\ IsSeq(q) /\ OutboxOK(d, q) /\ s.sent = 0
      /\ StableOK(log, d, q, s.cursor, s.stable) /\ IsSeq(log)
  BY <1>1, <1>2 DEF DaemonOK, StableOK, OutboxOK, SentOK, LogOK
<1>4. /\ IsDaemon(t) /\ t.prior = s.prior /\ t.stable = s.stable /\ t.epoch = s.epoch
      /\ t.outbox = Tail(q) /\ t.cursor = s.cursor /\ t.mode = s.mode /\ t.sent = s.sent
  BY <1>3 DEF IsDaemon, IsTables
<1> HIDE DEF t, s
<1>5. /\ m = q[1] /\ 1 \in DOMAIN q /\ IsSeq(Tail(q)) /\ Dropped(q, 1, Tail(q))
  <2>1. /\ IsSeq(Tail(q)) /\ m = q[1] /\ 1 \in DOMAIN q
        /\ \A i \in DOMAIN Tail(q) : i + 1 \in DOMAIN q /\ Tail(q)[i] = q[i + 1]
    BY <1>1, <1>3, SeqTail
  <2>2. Len(q) \in Nat /\ DOMAIN q = 1 .. Len(q)
    BY <1>3, SeqLen
  <2>3. DOMAIN Tail(q) = 1 .. Len(q) - 1
    BY <1>1, <1>3, TailDomain
  <2>4. \A i \in DOMAIN q : i > 1 => i - 1 \in DOMAIN Tail(q)
    BY <2>2, <2>3
  <2>5. \A j \in DOMAIN Tail(q) : 1 + j = j + 1
    BY <2>2, <2>3
  <2>6. 1 \in 0 .. Len(q)
    BY <2>1, <2>2
  <2> QED  BY <2>1, <2>4, <2>5, <2>6 DEF Dropped
<1>6. IsMessage(d, m) /\ m.origin = d
  BY <1>3, <1>5 DEF OutboxOK, IsMessage
<1>7. StableOK(l, d, q, s.cursor, s.stable)
  <2>1. \A j \in 1 .. 1 - 1 : q[j] \in Range(log)
    OBVIOUS
  <2> QED  BY <1>2, <1>3, <1>5, <2>1, AppendSelf
<1>8. LogOK(l) /\ m \in Range(l)
  BY <1>2, <1>3, <1>6, LogLonger, SeqAppend
<1> HIDE DEF l
<1>9. StableOK(l, d, t.outbox, t.cursor, t.stable)
  <2>1. \A i \in 1 .. 1 : q[i] \in Range(l)
    BY <1>5, <1>8
  <2> QED  BY <1>4, <1>5, <1>7, <1>8, <2>1, TrimSelf
<1>10. SentOK(l, t.mode, t.outbox, t.sent)
  BY <1>3, <1>4, <1>5, SentNothing
<1>11. DaemonOK(l, d, t)
  BY <1>2, <1>4, <1>9, <1>10, NewOutbox
<1> HIDE DEF m
<1> QED  BY <1>1, <1>6, <1>11, AppendStep DEF l

\* the messages of init, one by one,
LEMMA InitAppendStep ==
    ASSUME SharedInv, NEW d \in Daemons, InitAppend(d), UNCHANGED scriptVars
    PROVE  SharedInv'
<1> DEFINE s == daemon[d]
           q == s.outbox
           k == s.sent + 1
           m == q[k]
           l == Append(log, m)
           t == [s EXCEPT !.sent = k]
<1>1. s.mode = "draining" /\ s.sent < Len(q) /\ log' = l /\ Becomes(d, [s EXCEPT !.sent = @ + 1])
  BY DEF InitAppend
<1>2. LogOK(log) /\ DaemonOK(log, d, s)
  BY DEF SharedInv
<1>3. /\ IsDaemon(s) /\ IsSeq(q) /\ OutboxOK(d, q) /\ SentOK(log, s.mode, q, s.sent)
      /\ StableOK(log, d, q, s.cursor, s.stable) /\ IsSeq(log)
  BY <1>2 DEF DaemonOK, StableOK, OutboxOK, LogOK
<1>a. Becomes(d, t)
  BY <1>1, <1>3 DEF IsDaemon
<1>4. /\ IsDaemon(t) /\ t.prior = s.prior /\ t.stable = s.stable /\ t.epoch = s.epoch
      /\ t.outbox = q /\ t.cursor = s.cursor /\ t.mode = s.mode /\ t.sent = k
  BY <1>3 DEF IsDaemon, IsTables
<1> HIDE DEF t, s
<1>5. /\ k \in DOMAIN q /\ k \in 0 .. Len(q)
      /\ \A j \in 1 .. k - 1 : q[j] \in Range(log)
      /\ \A j \in 1 .. k : j = k \/ j \in 1 .. k - 1
  <2>1. Len(q) \in Nat /\ DOMAIN q = 1 .. Len(q) /\ s.sent \in Nat
    BY <1>3, SeqLen DEF SentOK
  <2>2. 1 .. k - 1 = 1 .. s.sent
    BY <2>1
  <2> QED  BY <1>1, <1>3, <2>1, <2>2 DEF SentOK
<1> HIDE DEF k
<1>6. IsMessage(d, m) /\ m.origin = d
  BY <1>3, <1>5 DEF OutboxOK, IsMessage
<1>7. StableOK(l, d, t.outbox, t.cursor, t.stable)
  BY <1>2, <1>3, <1>4, <1>5, AppendSelf
<1>8. Range(l) = Range(log) \cup {m}
  BY <1>3, SeqAppend
<1> HIDE DEF l
<1>9. SentOK(l, t.mode, t.outbox, t.sent)
  BY <1>1, <1>4, <1>5, <1>8 DEF SentOK
<1>10. DaemonOK(l, d, t)
  BY <1>2, <1>4, <1>7, <1>9, NewOutbox
<1> HIDE DEF m
<1> QED  BY <1>1, <1>a, <1>6, <1>10, AppendStep DEF l

\* which are trimmed when all are on the log,
LEMMA InitTrimStep ==
    ASSUME SharedInv, NEW d \in Daemons, InitTrim(d), UNCHANGED scriptVars
    PROVE  SharedInv'
<1> DEFINE s == daemon[d]
           q == s.outbox
           t == [s EXCEPT !.outbox = <<>>, !.sent = 0]
<1>1. s.sent = Len(q) /\ log' = log /\ Becomes(d, t)
  BY DEF InitTrim
<1>2. LogOK(log) /\ DaemonOK(log, d, s)
  BY DEF SharedInv
<1>3. /\ IsDaemon(s) /\ IsSeq(q) /\ SentOK(log, s.mode, q, s.sent)
      /\ StableOK(log, d, q, s.cursor, s.stable)
  BY <1>2 DEF DaemonOK, StableOK, OutboxOK
<1>4. /\ IsDaemon(t) /\ t.prior = s.prior /\ t.stable = s.stable /\ t.epoch = s.epoch
      /\ t.outbox = <<>> /\ t.cursor = s.cursor /\ t.sent = 0
  BY <1>3 DEF IsDaemon, IsTables
<1> HIDE DEF t, s
<1>5. Dropped(q, Len(q), <<>>)
  <2>1. Len(q) \in Nat /\ DOMAIN q = 1 .. Len(q)
    BY <1>3, SeqLen
  <2>2. \A i \in DOMAIN q : ~(i > Len(q))
    BY <2>1
  <2> QED  BY <2>1, <2>2, EmptyIsSeq DEF Dropped
<1>6. StableOK(log, d, t.outbox, t.cursor, t.stable)
  <2>1. \A i \in 1 .. Len(q) : q[i] \in Range(log)
    BY <1>1, <1>3 DEF SentOK
  <2> QED  BY <1>2, <1>3, <1>4, <1>5, <2>1, TrimSelf
<1>7. SentOK(log, t.mode, t.outbox, t.sent)
  BY <1>4, EmptyIsSeq, SentNothing
<1>8. DaemonOK(log, d, t)
  BY <1>2, <1>4, <1>6, <1>7, NewOutbox
<1> QED  BY <1>1, <1>8, EngineBecomes

\* and the end of init;
LEMMA InitDrainedStep ==
    ASSUME SharedInv, NEW d \in Daemons, InitDrained(d), UNCHANGED scriptVars
    PROVE  SharedInv'
<1> DEFINE s == daemon[d]
           t == [s EXCEPT !.mode = "done"]
<1>1. DaemonOK(log, d, s)
  BY DEF SharedInv
<1>2. Becomes(d, t) /\ log' = log
  BY DEF InitDrained
<1> HIDE DEF s
<1>3. DaemonOK(log, d, t)
  BY <1>1, SetMode
<1> QED  BY <1>2, <1>3, EngineBecomes

\* ingesting, also during a clone.
LEMMA IngestStep ==
    ASSUME SharedInv, NEW d \in Daemons, Ingest(d) \/ ClonePull(d), UNCHANGED scriptVars
    PROVE  SharedInv'
<1> DEFINE s == daemon[d]
           t == ApplyNext(d, s)
<1>1. LogOK(log) /\ DaemonOK(log, d, s)
  BY DEF SharedInv
<1>2. s.cursor < Len(log) /\ Becomes(d, t) /\ log' = log
  BY DEF Ingest, ClonePull
<1> HIDE DEF s
<1>3. DaemonOK(log, d, t)
  BY <1>1, <1>2, IngestOK
<1> QED  BY <1>2, <1>3, EngineBecomes

\* A bootstrap that fails.
LEMMA FailStep ==
    ASSUME SharedInv, NEW d \in Daemons, NEW reason, Fail(d, reason), log' = log,
           UNCHANGED scriptVars
    PROVE  SharedInv'
<1> DEFINE s == daemon[d]
           t == Over(s, reason)
<1>1. DaemonOK(log, d, s)
  BY DEF SharedInv
<1>2. Becomes(d, t)
  BY DEF Fail
<1> HIDE DEF s
<1>3. DaemonOK(log, d, t)
  BY <1>1, OverOK
<1> QED  BY <1>2, <1>3, EngineBecomes

\* The import of init.
LEMMA InitImportStep ==
    ASSUME SharedInv, NEW d \in Daemons, InitImport(d), UNCHANGED scriptVars
    PROVE  SharedInv'
<1> DEFINE s == daemon[d]
           u == ScanAndImport(d, s, Full)
           t == [u EXCEPT !.mode = "draining"]
<1>1. LogOK(log) /\ DaemonOK(log, d, s)
  BY DEF SharedInv
<1>2. log' = log /\ (Becomes(d, t) \/ Fail(d, "refused"))
  BY DEF InitImport
<1> HIDE DEF s
<1>3. DaemonOK(log, d, u)
  BY <1>1, ScanAndImportOK
<1> HIDE DEF u
<1>4. DaemonOK(log, d, t)
  BY <1>3, SetMode
<1> HIDE DEF t
<1> QED  BY <1>2, <1>4, EngineBecomes, FailStep

\* The start of a clone,
LEMMA CloneStartStep ==
    ASSUME SharedInv, NEW d \in Daemons, CloneStart(d), UNCHANGED scriptVars
    PROVE  SharedInv'
<1> DEFINE s == daemon[d]
           t == [s EXCEPT !.mode = "pulling", !.tail = Len(log)]
<1>1. DaemonOK(log, d, s)
  BY DEF SharedInv
<1>2. log' = log /\ (Becomes(d, t) \/ Fail(d, "refused") \/ Fail(d, "failed"))
  BY DEF CloneStart
<1> HIDE DEF s
<1>3. DaemonOK(log, d, t)
  BY <1>1, SetMode
<1> HIDE DEF t
<1> QED  BY <1>2, <1>3, EngineBecomes, FailStep

\* its plan
LEMMA ClonePlanStep ==
    ASSUME SharedInv, NEW d \in Daemons, ClonePlan(d), UNCHANGED scriptVars
    PROVE  SharedInv'
<1> DEFINE s == daemon[d]
           u == PlanProjection(s)
           v == [u EXCEPT !.mode = "projecting"]
           t == Unguarded(v)
           x == [s EXCEPT !.mode = "done"]
<1>1. DaemonOK(log, d, s)
  BY DEF SharedInv
<1>2. log' = log /\ IF Actions(s) = <<>> THEN Becomes(d, x) ELSE Becomes(d, t)
  BY DEF ClonePlan
<1> HIDE DEF s
<1>3. CASE Actions(s) = <<>>
  <2>1. DaemonOK(log, d, x)
    BY <1>1, SetMode
  <2> HIDE DEF x
  <2> QED  BY <1>2, <1>3, <2>1, EngineBecomes
<1>4. CASE Actions(s) # <<>>
  <2>1. DaemonOK(log, d, u)
    BY <1>1, <1>4, PlanOK
  <2> HIDE DEF u
  <2>2. DaemonOK(log, d, v)
    BY <2>1, SetMode
  <2> HIDE DEF v
  <2>3. DaemonOK(log, d, t)
    BY <2>2, UnguardedOK
  <2> HIDE DEF t
  <2> QED  BY <1>2, <1>4, <2>3, EngineBecomes
<1> QED  BY <1>3, <1>4

\* and its writes.
LEMMA CloneActStep ==
    ASSUME SharedInv, NEW d \in Daemons, CloneAct(d), UNCHANGED scriptVars
    PROVE  SharedInv'
<1> DEFINE s == daemon[d]
           t == Perform(s)
           failed == [t EXCEPT !.mode = "failed"]
           ended == [t EXCEPT !.mode = "done"]
<1>1. DaemonOK(log, d, s)
  BY DEF SharedInv
<1>2. log' = log /\ s.epoch # NoEpoch /\ (Becomes(d, t) \/ Becomes(d, failed) \/ Becomes(d, ended))
  BY DEF CloneAct
<1> HIDE DEF s
<1>3. DaemonOK(log, d, t)
  BY <1>1, <1>2, PerformOK
<1> HIDE DEF t
<1>4. DaemonOK(log, d, failed) /\ DaemonOK(log, d, ended)
  BY <1>3, SetMode
<1> HIDE DEF failed, ended
<1> QED  BY <1>2, <1>3, <1>4, EngineBecomes

\* A command of the controller.
LEMMA CommandStep ==
    ASSUME SharedInv, NEW d \in Daemons, Command(d)
    PROVE  SharedInv'
<1> DEFINE w == Workload(work)
           k == pc[d] + 1
           ops == w.parts[part].ops[d]
           t == Do(daemon[d], ops[k])
<1>1. /\ ~(part > Len(w.parts)) /\ pc[d] < Len(ops) /\ Becomes(d, t)
      /\ pc' = [pc EXCEPT ![d] = @ + 1] /\ log' = log /\ work' = work /\ part' = part
  BY DEF Command, Finished, Parts
<1>2. /\ IsWorkload(w) /\ d \in DOMAIN w.start /\ part \in Nat \ {0} /\ pc \in [Daemons -> Nat]
  BY ScriptsAssumption DEF SharedInv, ScriptOK, Daemons
<1> HIDE DEF w
<1>3. part \in 1 .. Len(w.parts)
  <2>1. Len(w.parts) \in Nat
    BY <1>2 DEF IsWorkload
  <2> QED  BY <1>1, <1>2, <2>1
<1>4. Len(ops) \in Nat /\ \A j \in 1 .. Len(ops) : ops[j].cmd \in Commands
  BY <1>2, <1>3 DEF IsWorkload
<1> HIDE DEF ops
<1>5. pc[d] \in Nat /\ k \in 1 .. Len(ops)
  BY <1>1, <1>2, <1>4
<1> HIDE DEF k
<1>6. DaemonOK(log, d, t)
  BY <1>4, <1>5, DoOK DEF SharedInv
<1> HIDE DEF t
<1>7. pc' \in [Daemons -> Nat]
  BY <1>1, <1>2
<1> QED  BY <1>1, <1>6, <1>7, DaemonStep

\* The end of a part.
LEMMA EndPartStep ==
    ASSUME SharedInv, EndPart
    PROVE  SharedInv'
<1>1. /\ part' = part + 1 /\ pc' = [d \in Daemons |-> 0]
      /\ daemon' = daemon /\ log' = log /\ work' = work
  BY DEF EndPart
<1>2. Daemons' = Daemons
  BY <1>1 DEF Daemons
<1>3. ScriptOK'
  BY <1>1, <1>2 DEF SharedInv, ScriptOK
<1> QED  BY <1>1, <1>2, <1>3 DEF SharedInv

\* Every step keeps the invariant.
LEMMA SharedNext == SharedInv /\ [Next]_vars => SharedInv'
<1> SUFFICES ASSUME SharedInv, [Next]_vars PROVE SharedInv'
  OBVIOUS
<1>1. ASSUME NEW d \in Daemons, Engine(d) PROVE SharedInv'
  <2>1. UNCHANGED scriptVars
    BY <1>1 DEF Engine
  <2>2. CASE Import(d)
    BY <2>1, <2>2, ImportStep
  <2>3. CASE Plan(d)
    BY <2>1, <2>3, PlanStep
  <2>4. CASE Act(d)
    BY <2>1, <2>4, ActStep
  <2>5. CASE InitImport(d)
    BY <2>1, <2>5, InitImportStep
  <2>6. CASE InitAppend(d) \/ InitTrim(d) \/ InitDrained(d)
    BY <2>1, <2>6, InitAppendStep, InitTrimStep, InitDrainedStep
  <2>7. CASE InitDisconnected(d) \/ CloneDisconnected(d)
    <3>1. Fail(d, "failed") /\ log' = log
      BY <2>7 DEF InitDisconnected, CloneDisconnected
    <3> QED  BY <2>1, <3>1, FailStep
  <2>8. CASE CloneStart(d)
    BY <2>1, <2>8, CloneStartStep
  <2>9. CASE ClonePull(d)
    BY <2>1, <2>9, IngestStep
  <2>10. CASE ClonePlan(d)
    BY <2>1, <2>10, ClonePlanStep
  <2>11. CASE CloneAct(d)
    BY <2>1, <2>11, CloneActStep
  <2> QED  BY <1>1, <2>2, <2>3, <2>4, <2>5, <2>6, <2>7, <2>8, <2>9, <2>10, <2>11
             DEF Engine, Bootstrapping
<1>2. ASSUME NEW d \in Daemons, Writer(d) PROVE SharedInv'
  BY <1>2, PublishStep DEF Writer
<1>3. ASSUME NEW d \in Daemons, Reader(d) PROVE SharedInv'
  BY <1>3, IngestStep DEF Reader
<1>4. CASE Controller
  BY <1>4, EndPartStep, CommandStep DEF Controller
<1>5. CASE UNCHANGED vars
  BY <1>5 DEF vars, SharedInv, ScriptOK, Daemons
<1> QED  BY <1>1, <1>2, <1>3, <1>4, <1>5 DEF Next, Idle
-----------------------------------------------------------------------------
\* Whatever the workloads, the tables of a daemon are at all times what the messages it
\* knows add up to, with prior and the epoch under way behind stable: imports,
\* projections, conflicts, faults, partitions, restarts and bootstraps included.
THEOREM SharedInvariant == Spec => []SharedInv
BY SharedInit, SharedNext, PTL DEF Spec

\* PriorBehindStable for all workloads: an import never captures against a claim, a
\* removal or an operation that stable does not have, also after an epoch that was
\* planned before other messages came in.
THEOREM PriorBehind == Spec => []PriorBehindStable
<1>1. SharedInv => PriorBehindStable
  BY DEF SharedInv, DaemonOK, PriorOK, PriorBehindStable, NsWithin, DocWithin
<1> QED  BY <1>1, SharedInvariant, PTL

\* A daemon that has sent and applied everything knows the whole log.
LEMMA KnownAll ==
    ASSUME NEW l, IsSeq(l), NEW d
    PROVE  Known(l, d, <<>>, Len(l)) = Range(l)
<1>1. Len(l) \in Nat /\ DOMAIN l = 1 .. Len(l)
  BY SeqLen
<1>2. {i \in DOMAIN l : i <= Len(l) \/ l[i].origin = d} = DOMAIN l
  BY <1>1
<1> QED  BY <1>2, EmptyIsSeq DEF Known, Range

\* There is one first message.
LEMMA FirstWord ==
    ASSUME NEW l, IsSeq(l), NEW o, NEW id, NEW w, NEW v,
           FirstSays(l, o, id, w), FirstSays(l, o, id, v)
    PROVE  w = v
<1>1. PICK i \in DOMAIN l : /\ Says(l[i], o, id) /\ l[i].update.ins[id] = w
                            /\ \A j \in 1 .. i - 1 : ~Says(l[j], o, id)
  BY DEF FirstSays
<1>2. PICK k \in DOMAIN l : /\ Says(l[k], o, id) /\ l[k].update.ins[id] = v
                            /\ \A j \in 1 .. k - 1 : ~Says(l[j], o, id)
  BY DEF FirstSays
<1>3. i \in Nat /\ k \in Nat /\ i >= 1 /\ k >= 1
  BY SeqLen
<1>4. i = k
  BY <1>1, <1>2, <1>3
<1> QED  BY <1>1, <1>2, <1>4

\* a is what the messages of the log say about object o.
DocOf(l, o, a) ==
    /\ IsDoc(a)
    /\ DOMAIN a.ins = UNION {DOMAIN m.update.ins : m \in About(Range(l), o)}
    /\ a.del = UNION {m.update.del : m \in About(Range(l), o)}
    /\ \A id \in DOMAIN a.ins : FirstSays(l, o, id, a.ins[id])

\* A document nobody wrote to is empty.
LEMMA LookupOK ==
    ASSUME NEW l, LogOK(l), NEW d, NEW t, StableOK(l, d, <<>>, Len(l), t), NEW o, o # <<>>
    PROVE  DocOf(l, o, Lookup(t.docs, o))
<1> DEFINE K == Range(l)
           a == Lookup(t.docs, o)
<1>1. Reflects(K, t)
  BY KnownAll DEF StableOK, LogOK
<1> HIDE DEF K
<1>2. CASE o \in DOMAIN t.docs
  <2>1. a = t.docs[o] /\ IsDoc(t.docs[o])
    BY <1>2 DEF Lookup, StableOK, TablesOK
  <2>2. /\ DOMAIN t.docs[o].ins = UNION {DOMAIN m.update.ins : m \in About(K, o)}
        /\ t.docs[o].del = UNION {m.update.del : m \in About(K, o)}
    BY <1>1, <1>2 DEF Reflects
  <2>3. ASSUME NEW id \in DOMAIN t.docs[o].ins PROVE FirstSays(l, o, id, t.docs[o].ins[id])
    <3>1. \A w : ~FirstSays(<<>>, o, id, w)
      BY EmptyIsSeq DEF FirstSays
    <3> QED  BY <1>2, <2>3, <3>1 DEF StableOK, WordsOK
  <2> QED  BY <2>1, <2>2, <2>3 DEF K, DocOf
<1>3. CASE o \notin DOMAIN t.docs
  <2>1. a = EmptyDoc
    BY <1>3 DEF Lookup
  <2>2. About(K, o) = {}
    BY <1>1, <1>3 DEF Reflects, About
  <2> HIDE DEF a
  <2>3. /\ IsDoc(a) /\ DOMAIN a.ins = {} /\ a.del = {}
    BY <2>1, EmptyDocFacts
  <2>4. DocOf(l, o, a)
    BY <2>2, <2>3 DEF K, DocOf
  <2> QED  BY <2>4 DEF a
<1> QED  BY <1>2, <1>3

\* Daemons that know the whole log have the same tables, where a document that is not
\* there counts as an empty one.
LEMMA SameTables ==
    ASSUME NEW l, LogOK(l), NEW d, NEW t, NEW e, NEW u,
           StableOK(l, d, <<>>, Len(l), t), StableOK(l, e, <<>>, Len(l), u)
    PROVE  /\ t.ns = u.ns /\ t.tree = u.tree
           /\ \A o : o # <<>> => Lookup(t.docs, o) = Lookup(u.docs, o)
<1>0. IsSeq(l)
  BY DEF LogOK
<1> DEFINE K == Range(l)
<1>1. Reflects(K, t) /\ Reflects(K, u)
  BY <1>0, KnownAll DEF StableOK
<1> HIDE DEF K
<1>2. IsNamespace(t.ns) /\ IsNamespace(u.ns)
  BY DEF StableOK, TablesOK
<1>3. t.ns = u.ns
  BY <1>1, <1>2 DEF Reflects, IsNamespace
<1>4. t.tree = u.tree
  BY <1>3 DEF StableOK, TablesOK
<1>5. ASSUME NEW o, o # <<>> PROVE Lookup(t.docs, o) = Lookup(u.docs, o)
  <2> DEFINE a == Lookup(t.docs, o)
             b == Lookup(u.docs, o)
  <2>0. DocOf(l, o, a) /\ DocOf(l, o, b)
    BY <1>5, LookupOK
  <2> HIDE DEF a, b
  <2>1. /\ IsDoc(a) /\ IsDoc(b) /\ DOMAIN a.ins = DOMAIN b.ins /\ a.del = b.del
        /\ \A id \in DOMAIN a.ins : FirstSays(l, o, id, a.ins[id])
        /\ \A id \in DOMAIN b.ins : FirstSays(l, o, id, b.ins[id])
    BY <2>0 DEF DocOf
  <2>2. \A id \in DOMAIN a.ins : a.ins[id] = b.ins[id]
    BY <1>0, <2>1, FirstWord
  <2>3. a.ins = b.ins
    BY <2>1, <2>2 DEF IsDoc
  <2>4. a = b
    BY <2>1, <2>3, Zenon DEF IsDoc
  <2> QED  BY <2>4 DEF a, b
<1> QED  BY <1>3, <1>4, <1>5

\* SameLogSameState for all workloads: daemons that have sent and applied everything
\* agree on namespace, tree and documents, whichever way their own and the others'
\* updates were interleaved, with what an interrupted init sends twice, and also if an
\* id should have been used twice.
THEOREM SameLog == Spec => []SameLogSameState
<1>1. SharedInv => SameLogSameState
  <2> SUFFICES ASSUME SharedInv, NEW d \in Daemons, NEW e \in Daemons, Caught(d), Caught(e)
               PROVE  LET s == daemon[d].stable
                          t == daemon[e].stable
                      IN  /\ s.ns = t.ns /\ s.tree = t.tree
                          /\ \A o \in DOMAIN s.docs \cup DOMAIN t.docs :
                                Lookup(s.docs, o) = Lookup(t.docs, o)
    BY Zenon DEF SameLogSameState
  <2>1. LogOK(log) /\ DaemonOK(log, d, daemon[d]) /\ DaemonOK(log, e, daemon[e])
    BY DEF SharedInv
  <2>2. /\ daemon[d].outbox = <<>> /\ daemon[d].cursor = Len(log)
        /\ daemon[e].outbox = <<>> /\ daemon[e].cursor = Len(log)
    BY DEF Caught
  <2>3. /\ StableOK(log, d, <<>>, Len(log), daemon[d].stable)
        /\ StableOK(log, e, <<>>, Len(log), daemon[e].stable)
    BY <2>1, <2>2 DEF DaemonOK
  <2>4. \A o \in DOMAIN daemon[d].stable.docs \cup DOMAIN daemon[e].stable.docs : o # <<>>
    BY <2>3 DEF StableOK, TablesOK
  <2> QED  BY <2>1, <2>3, <2>4, SameTables
<1> QED  BY <1>1, SharedInvariant, PTL
=============================================================================
