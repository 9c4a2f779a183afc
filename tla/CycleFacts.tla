----------------------------- MODULE CycleFacts -----------------------------
(***************************************************************************)
(* Facts about the operators the cycle is built from: documents, their     *)
(* text and its capture, queues of results, and steps of the engine.       *)
(***************************************************************************)
EXTENDS CycleInvariant, FiniteSetTheorems, TLAPS

-----------------------------------------------------------------------------
(* Documents.                                                              *)

\* A finite set has subsets of every smaller size.
LEMMA SubsetOfSize ==
    ASSUME NEW S, IsFiniteSet(S), NEW k \in Nat, k <= Cardinality(S)
    PROVE  \E C \in SUBSET S : Cardinality(C) = k
PROOF
<1> DEFINE n == Cardinality(S)
<1>1. n \in Nat /\ ExistsBijection(1 .. n, S)
  BY FS_CardinalityType
<1>2. PICK f : f \in Bijection(1 .. n, S)
  BY <1>1 DEF ExistsBijection
<1> DEFINE C == {f[i] : i \in 1 .. k}
           g == [i \in 1 .. k |-> f[i]]
<1> HIDE DEF n
<1>3. k <= n
  BY DEF n
<1>4. 1 .. k \subseteq 1 .. n
  BY <1>1, <1>3
<1>5. f \in [1 .. n -> S] /\ \A i, j \in 1 .. n : f[i] = f[j] => i = j
  BY <1>2 DEF Bijection, Injection, Surjection, IsInjective
<1>6. g \in Bijection(1 .. k, C)
  BY <1>4, <1>5 DEF Bijection, Injection, Surjection, IsInjective
<1>7. ExistsBijection(1 .. k, C)
  BY <1>6 DEF ExistsBijection
<1>8. Cardinality(C) = k
  BY <1>7, FS_CountingElements
<1>9. C \in SUBSET S
  BY <1>4, <1>5
<1> QED
  BY <1>8, <1>9

\* The operations of a document, by their parts.
LEMMA OpParts ==
    ASSUME NEW doc \in Docs, NEW op \in doc
    PROVE  /\ op = <<op[1], op[2], op[3]>>
           /\ op[1] \in Words /\ op[2] \in Nat /\ op[3] \in {"ins", "del"}
PROOF
<1> op \in Words \X Nat \X {"ins", "del"}
  BY DEF Docs
<1> QED
  OBVIOUS

\* What is inserted, as membership of the document.
LEMMA InsertedIs ==
    ASSUME NEW doc \in Docs, NEW w, NEW c
    PROVE  c \in Inserted(doc, w) <=> <<w, c, "ins">> \in doc
PROOF
<1>1. ASSUME c \in Inserted(doc, w) PROVE <<w, c, "ins">> \in doc
  <2>1. PICK op \in doc : op[1] = w /\ op[3] = "ins" /\ op[2] = c
    BY <1>1 DEF Inserted
  <2> QED
    BY <2>1, OpParts
<1>2. ASSUME <<w, c, "ins">> \in doc PROVE c \in Inserted(doc, w)
  BY <1>2 DEF Inserted
<1> QED
  BY <1>1, <1>2

\* A well-formed document shows each word a finite number of times.
LEMMA DocFinite ==
    ASSUME NEW doc \in Docs, WellFormed(doc), NEW w \in Words
    PROVE  /\ IsFiniteSet(Inserted(doc, w)) /\ IsFiniteSet(Visible(doc, w))
           /\ Inserted(doc, w) \subseteq Nat
           /\ Text(doc)[w] = Cardinality(Visible(doc, w)) /\ Text(doc)[w] \in Nat
PROOF
<1>1. Copies(doc, w) \in Nat /\ Inserted(doc, w) \ {0} = 1 .. Copies(doc, w)
  BY DEF WellFormed
<1>2. IsFiniteSet(Inserted(doc, w) \ {0})
  <2>1. IsFiniteSet(1 .. Copies(doc, w))
    BY <1>1, FS_Interval, 1 \in Int, Copies(doc, w) \in Int
  <2> QED
    BY <2>1, <1>1
<1>3. IsFiniteSet((Inserted(doc, w) \ {0}) \cup {0})
  BY <1>2, FS_AddElement
<1>4. Inserted(doc, w) \subseteq (Inserted(doc, w) \ {0}) \cup {0}
  OBVIOUS
<1>5. IsFiniteSet(Inserted(doc, w))
  BY <1>3, <1>4, FS_Subset
<1>6. Visible(doc, w) \subseteq Inserted(doc, w)
  BY DEF Visible
<1>7. IsFiniteSet(Visible(doc, w))
  BY <1>5, <1>6, FS_Subset
<1>8. Cardinality(Visible(doc, w)) \in Nat
  BY <1>7, FS_CardinalityType
<1>9. Inserted(doc, w) \subseteq Nat
  BY <1>1
<1> QED
  BY <1>5, <1>7, <1>8, <1>9 DEF Text

\* The text of a well-formed document is a text.
LEMMA TextType ==
    ASSUME NEW doc \in Docs, WellFormed(doc)
    PROVE  Text(doc) \in Texts
PROOF
<1>1. \A w \in Words : Cardinality(Visible(doc, w)) \in Nat
  BY DocFinite
<1> QED
  BY <1>1 DEF Text, Texts

\* The empty document.
LEMMA EmptyDoc == {} \in Docs /\ WellFormed({}) /\ Text({}) = NoWords
PROOF
<1>1. \A w : Inserted({}, w) = {} /\ Visible({}, w) = {}
  BY DEF Inserted, Visible
<1>2. \A w : Copies({}, w) = 0
  BY <1>1, FS_EmptySet DEF Copies
<1>3. WellFormed({})
  BY <1>1, <1>2 DEF WellFormed
<1>4. Text({}) = NoWords
  BY <1>1, FS_EmptySet DEF Text, NoWords
<1> QED
  BY <1>3, <1>4 DEF Docs

\* A later document with no own operations that the earlier one lacks is well
\* formed too, and shows at least the same words.
LEMMA LaterDoc ==
    ASSUME NEW d \in Docs, NEW e \in Docs, WellFormed(d), d \subseteq e, Own(e) \subseteq d
    PROVE  /\ WellFormed(e)
           /\ \A w \in Words : Text(e)[w] >= Text(d)[w]
PROOF
<1>1. ASSUME NEW w \in Words PROVE Inserted(e, w) \ {0} = Inserted(d, w) \ {0}
  <2>1. ASSUME NEW c \in Inserted(e, w) \ {0} PROVE c \in Inserted(d, w)
    <3>1. <<w, c, "ins">> \in e
      BY <2>1, InsertedIs
    <3>2. <<w, c, "ins">> \in Own(e)
      BY <3>1, <2>1 DEF Own
    <3> QED
      BY <3>2, InsertedIs
  <2>2. ASSUME NEW c \in Inserted(d, w) PROVE c \in Inserted(e, w)
    BY <2>2, InsertedIs
  <2> QED
    BY <2>1, <2>2
<1>2. \A w \in Words : Copies(e, w) = Copies(d, w)
  BY <1>1 DEF Copies
<1>3. ASSUME NEW op \in e, op[3] = "del" PROVE op \in d /\ op[2] \in Inserted(e, op[1])
  <2>1. op \in d
    BY <1>3 DEF Own
  <2>2. op[2] \in Inserted(d, op[1])
    BY <2>1, <1>3 DEF WellFormed
  <2> QED
    BY <2>1, <2>2, InsertedIs
<1>4. WellFormed(e)
  BY <1>1, <1>2, <1>3 DEF WellFormed
<1>5. ASSUME NEW w \in Words PROVE Text(e)[w] >= Text(d)[w]
  <2>1. Visible(d, w) \subseteq Visible(e, w)
    <3> SUFFICES ASSUME NEW c \in Visible(d, w) PROVE c \in Visible(e, w)
      OBVIOUS
    <3>1. <<w, c, "ins">> \in d /\ <<w, c, "del">> \notin d
      BY InsertedIs DEF Visible
    <3>2. <<w, c, "del">> \notin e
      BY <3>1, <1>3
    <3> QED
      BY <3>1, <3>2, InsertedIs DEF Visible
  <2>2. Cardinality(Visible(d, w)) <= Cardinality(Visible(e, w))
    BY <2>1, <1>4, DocFinite, FS_Subset
  <2> QED
    BY <2>2, <1>4, DocFinite
<1> QED
  BY <1>4, <1>5
-----------------------------------------------------------------------------
(* Capture.                                                                *)

\* The insertions that stay are as many as the text has, or all.
LEMMA KeptFacts ==
    ASSUME NEW doc \in Docs, WellFormed(doc), NEW w \in Words, NEW n \in Nat
    PROVE  /\ Kept(doc, w, n) \subseteq Visible(doc, w)
           /\ n < Text(doc)[w] => Cardinality(Kept(doc, w, n)) = n
           /\ n >= Text(doc)[w] => Kept(doc, w, n) = Visible(doc, w)
PROOF
<1> DEFINE V == Visible(doc, w)
           t == Text(doc)[w]
           k == IF n < t THEN n ELSE t
<1>1. IsFiniteSet(V) /\ t = Cardinality(V) /\ t \in Nat
  BY DocFinite
<1>2. Kept(doc, w, n) = CHOOSE C \in SUBSET V : Cardinality(C) = k
  BY DEF Kept
<1> HIDE DEF V, t
<1>3. k \in Nat /\ k <= Cardinality(V)
  BY <1>1
<1> HIDE DEF k
<1>4. \E C \in SUBSET V : Cardinality(C) = k
  BY <1>1, <1>3, SubsetOfSize
<1>5. Kept(doc, w, n) \in SUBSET V /\ Cardinality(Kept(doc, w, n)) = k
  BY <1>2, <1>4
<1>6. n < t => Cardinality(Kept(doc, w, n)) = n
  BY <1>5 DEF k
<1>7. ASSUME n >= t PROVE Kept(doc, w, n) = V
  <2>1. Cardinality(V) = Cardinality(Kept(doc, w, n))
    BY <1>1, <1>5, <1>7 DEF k
  <2> QED
    BY <2>1, <1>1, <1>5, FS_Subset
<1> QED
  BY <1>5, <1>6, <1>7 DEF V, t

\* What a capture consists of, by word.
LEMMA CaptureOps ==
    ASSUME NEW doc \in Docs, WellFormed(doc), NEW text \in Texts
    PROVE  /\ Capture(doc, text) \in Docs
           /\ Capture(doc, text) \subseteq Own(Capture(doc, text))
           /\ \A w \in Words : \A c :
                 /\ <<w, c, "ins">> \in Capture(doc, text) <=>
                       c \in NextClocks(doc, w, text[w] - Text(doc)[w])
                 /\ <<w, c, "del">> \in Capture(doc, text) <=>
                       c \in Visible(doc, w) \ Kept(doc, w, text[w])
PROOF
<1> DEFINE S == [w \in Words |-> {<<w, c, "ins">> : c \in NextClocks(doc, w, text[w] - Text(doc)[w])}
               \cup {<<w, c, "del">> : c \in Visible(doc, w) \ Kept(doc, w, text[w])}]
           N == [w \in Words |-> NextClocks(doc, w, text[w] - Text(doc)[w])]
           D == [w \in Words |-> Visible(doc, w) \ Kept(doc, w, text[w])]
           U == UNION {S[w] : w \in Words}
<1>1. Capture(doc, text) = U
  BY DEF Capture
<1>2. ASSUME NEW w \in Words
      PROVE  N[w] \subseteq Nat \ {0} /\ D[w] \subseteq Nat
  <2>1. Copies(doc, w) \in Nat /\ Text(doc)[w] \in Nat /\ text[w] \in Nat
    BY DocFinite DEF WellFormed, Texts
  <2>2. N[w] \subseteq Nat \ {0}
    BY <2>1 DEF NextClocks
  <2>3. D[w] \subseteq Nat
    BY DocFinite DEF Visible
  <2> QED
    BY <2>2, <2>3
<1>s. \A w \in Words : S[w] = {<<w, c, "ins">> : c \in N[w]} \cup {<<w, c, "del">> : c \in D[w]}
  OBVIOUS
<1> HIDE DEF N, D, S
<1>3. ASSUME NEW op \in U
      PROVE  \E w \in Words : \/ \E c \in N[w] : op = <<w, c, "ins">>
                              \/ \E c \in D[w] : op = <<w, c, "del">>
  <2>1. PICK w \in Words : op \in S[w]
    OBVIOUS
  <2> QED
    BY <2>1, <1>s
<1>4. U \in Docs
  BY <1>2, <1>3 DEF Docs
<1>5. U \subseteq Own(U)
  BY <1>2, <1>3 DEF Own
<1>6. ASSUME NEW w \in Words, NEW c
      PROVE  /\ <<w, c, "ins">> \in U <=> c \in N[w]
             /\ <<w, c, "del">> \in U <=> c \in D[w]
  <2>1. c \in N[w] => <<w, c, "ins">> \in U
    BY <1>s
  <2>2. c \in D[w] => <<w, c, "del">> \in U
    BY <1>s
  <2>3. <<w, c, "ins">> \in U => c \in N[w]
    BY <1>3
  <2>4. <<w, c, "del">> \in U => c \in D[w]
    BY <1>3
  <2> QED
    BY <2>1, <2>2, <2>3, <2>4
<1> QED
  BY <1>1, <1>4, <1>5, <1>6 DEF N, D

\* After a capture the document shows the text that was captured, and is well
\* formed: no clock is used twice, nothing is removed that was not there.
LEMMA CaptureExact ==
    ASSUME NEW doc \in Docs, WellFormed(doc), NEW text \in Texts
    PROVE  /\ doc \cup Capture(doc, text) \in Docs
           /\ WellFormed(doc \cup Capture(doc, text))
           /\ Text(doc \cup Capture(doc, text)) = text
PROOF
<1> DEFINE u == Capture(doc, text)
           new == doc \cup u
           m == [w \in Words |-> Copies(doc, w)]
           t == [w \in Words |-> Text(doc)[w]]
           N == [w \in Words |-> NextClocks(doc, w, text[w] - Text(doc)[w])]
           K == [w \in Words |-> Kept(doc, w, text[w])]
<1>1. u \in Docs /\ new \in Docs
  BY CaptureOps DEF Docs
<1>2. \A w \in Words : \A c : /\ <<w, c, "ins">> \in u <=> c \in N[w]
                              /\ <<w, c, "del">> \in u <=> c \in Visible(doc, w) \ K[w]
  <2> SUFFICES ASSUME NEW w \in Words, NEW c
               PROVE  /\ <<w, c, "ins">> \in u <=> c \in N[w]
                      /\ <<w, c, "del">> \in u <=> c \in Visible(doc, w) \ K[w]
    OBVIOUS
  <2> QED
    BY CaptureOps
<1>3. \A w \in Words : /\ m[w] \in Nat /\ t[w] \in Nat /\ text[w] \in Nat
                       /\ Inserted(doc, w) \ {0} = 1 .. m[w]
                       /\ t[w] = Cardinality(Visible(doc, w))
                       /\ IsFiniteSet(Visible(doc, w))
                       /\ Inserted(doc, w) \subseteq Nat
  BY DocFinite DEF WellFormed, Texts
<1>4. \A w \in Words : N[w] = m[w] + 1 .. m[w] + (text[w] - t[w])
  BY DEF NextClocks
<1>5. \A w \in Words : \A c : c \in Inserted(doc, w) <=> <<w, c, "ins">> \in doc
  BY InsertedIs
<1>6. \A w \in Words : \A c : c \in Inserted(new, w) <=> <<w, c, "ins">> \in new
  BY InsertedIs, <1>1
<1>k. \A w \in Words : /\ K[w] \subseteq Visible(doc, w)
                       /\ text[w] < t[w] => Cardinality(K[w]) = text[w]
                       /\ text[w] >= t[w] => K[w] = Visible(doc, w)
  BY KeptFacts, <1>3
<1>d. \A op \in doc : op[3] = "del" => op[2] \in Inserted(doc, op[1])
  BY DEF WellFormed
<1> HIDE DEF u, m, t, N, K
<1>7. \A w \in Words : Inserted(new, w) = Inserted(doc, w) \cup N[w]
  BY <1>2, <1>5, <1>6
<1>8. ASSUME NEW w \in Words
      PROVE  Copies(new, w) \in Nat /\ Inserted(new, w) \ {0} = 1 .. Copies(new, w)
  <2> DEFINE a == m[w]
             b == IF text[w] < t[w] THEN m[w] ELSE m[w] + (text[w] - t[w])
  <2>1. a \in Nat /\ b \in Nat /\ N[w] = a + 1 .. b
    BY <1>3, <1>4
  <2>2. b >= a /\ Inserted(doc, w) \ {0} = 1 .. a
    BY <1>3
  <2> HIDE DEF a, b
  <2>3. 0 \notin a + 1 .. b /\ 1 .. b = (1 .. a) \cup (a + 1 .. b)
    BY <2>1, <2>2
  <2>4. Inserted(new, w) \ {0} = 1 .. b
    BY <2>1, <2>2, <2>3, <1>7
  <2>5. Cardinality(1 .. b) = b
    BY <2>1, FS_Interval, 1 \in Int, b \in Int
  <2> QED
    BY <2>1, <2>4, <2>5 DEF Copies
<1>9. ASSUME NEW op \in new, op[3] = "del" PROVE op[2] \in Inserted(new, op[1])
  <2>0. op = <<op[1], op[2], op[3]>> /\ op[1] \in Words
    BY <1>1, OpParts
  <2>1. CASE op \in doc
    BY <2>0, <2>1, <1>7, <1>9, <1>d
  <2>2. CASE op \in u
    <3>1. op[2] \in Visible(doc, op[1])
      BY <2>0, <2>2, <1>2, <1>9
    <3> QED
      BY <3>1, <2>0, <1>7 DEF Visible
  <2> QED
    BY <2>1, <2>2
<1>10. ASSUME NEW w \in Words PROVE Visible(new, w) = K[w] \cup N[w]
  <2>1. ASSUME NEW c \in Visible(new, w) PROVE c \in K[w] \cup N[w]
    <3>1. c \in Inserted(new, w) /\ <<w, c, "del">> \notin new
      BY DEF Visible
    <3>2. c \in Visible(doc, w) \cup N[w]
      BY <3>1, <1>7 DEF Visible
    <3> QED
      BY <3>1, <3>2, <1>2
  <2>2. ASSUME NEW c \in K[w] PROVE c \in Visible(new, w)
    <3>1. c \in Inserted(doc, w) /\ <<w, c, "del">> \notin doc
      BY <1>k DEF Visible
    <3>2. <<w, c, "del">> \notin u
      BY <1>2
    <3> QED
      BY <3>1, <3>2, <1>7 DEF Visible
  <2>3. ASSUME NEW c \in N[w] PROVE c \in Visible(new, w)
    <3>1. c \notin Inserted(doc, w)
      BY <1>3, <1>4
    <3>2. <<w, c, "del">> \notin doc
      <4>1. <<w, c, "del">>[1] = w /\ <<w, c, "del">>[2] = c /\ <<w, c, "del">>[3] = "del"
        OBVIOUS
      <4> QED
        BY <4>1, <3>1, <1>d
    <3>3. <<w, c, "del">> \notin u
      BY <3>1, <1>2 DEF Visible
    <3> QED
      BY <3>2, <3>3, <1>7 DEF Visible
  <2> QED
    BY <2>1, <2>2, <2>3
<1>11. ASSUME NEW w \in Words PROVE Cardinality(Visible(new, w)) = text[w]
  <2>1. CASE text[w] < t[w]
    <3>1. N[w] = {}
      BY <2>1, <1>3, <1>4
    <3> QED
      BY <3>1, <2>1, <1>10, <1>k
  <2>2. CASE text[w] >= t[w]
    <3> DEFINE a == m[w] + 1
               b == m[w] + (text[w] - t[w])
    <3>1. a \in Int /\ b \in Int /\ N[w] = a .. b /\ b >= a - 1
      BY <2>2, <1>3, <1>4
    <3>2. b - a + 1 = text[w] - t[w]
      BY <1>3
    <3> HIDE DEF a, b
    <3>3. IsFiniteSet(N[w]) /\ Cardinality(N[w]) = text[w] - t[w]
      BY <3>1, <3>2, FS_Interval
    <3>4. K[w] \cap N[w] = {}
      <4>1. K[w] \subseteq Inserted(doc, w)
        BY <1>k DEF Visible
      <4>2. Inserted(doc, w) \cap N[w] = {}
        BY <1>3, <1>4
      <4> QED
        BY <4>1, <4>2
    <3>5. IsFiniteSet(K[w]) /\ Cardinality(K[w]) = t[w]
      BY <2>2, <1>3, <1>k
    <3>6. Cardinality(K[w] \cup N[w]) = t[w] + (text[w] - t[w]) - 0
      BY <3>3, <3>4, <3>5, FS_Union, FS_EmptySet
    <3>7. t[w] + (text[w] - t[w]) - 0 = text[w]
      BY <1>3
    <3> QED
      BY <3>6, <3>7, <1>10
  <2> QED
    BY <2>1, <2>2, <1>3
<1>12. WellFormed(new)
  BY <1>8, <1>9 DEF WellFormed
<1>13. Text(new) = text
  BY <1>11 DEF Text, Texts
<1> QED
  BY <1>1, <1>12, <1>13 DEF u

\* A capture removes a word only where the text has less of it.
LEMMA CaptureRemoves ==
    ASSUME NEW doc \in Docs, WellFormed(doc), NEW text \in Texts,
           NEW op \in Capture(doc, text), op[3] = "del"
    PROVE  op[1] \in Words /\ text[op[1]] < Text(doc)[op[1]]
PROOF
<1>1. op = <<op[1], op[2], "del">> /\ op[1] \in Words
  BY CaptureOps, OpParts
<1> DEFINE w == op[1]
<1>2. op[2] \in Visible(doc, w) \ Kept(doc, w, text[w])
  BY <1>1, CaptureOps
<1>3. text[w] \in Nat /\ Text(doc)[w] \in Nat
  BY <1>1, DocFinite DEF Texts
<1>4. text[w] >= Text(doc)[w] => Kept(doc, w, text[w]) = Visible(doc, w)
  BY <1>1, <1>3, KeptFacts
<1> QED
  BY <1>1, <1>2, <1>3, <1>4
-----------------------------------------------------------------------------
(* Queues of results.                                                      *)

\* A result at the end of a queue.
LEMMA AppendResult ==
    ASSUME NEW q \in Seq(RequestType), NEW r \in RequestType, Results(q, r.type, Len(q)),
           r.path \notin PathsOf(q, Len(q))
    PROVE  /\ Append(q, r) \in Seq(RequestType) /\ Len(Append(q, r)) = Len(q) + 1
           /\ Results(Append(q, r), r.type, Len(q) + 1)
           /\ PathsOf(Append(q, r), Len(q) + 1) = PathsOf(q, Len(q)) \cup {r.path}
PROOF
<1> DEFINE n == Len(q)
           a == Append(q, r)
<1>1. n \in Nat /\ a \in Seq(RequestType) /\ Len(a) = n + 1
  OBVIOUS
<1>2. a[n + 1] = r /\ \A i \in 1 .. n : a[i] = q[i]
  OBVIOUS
<1>3. \A i \in 1 .. n : q[i].path # r.path /\ q[i].type = r.type
  BY DEF PathsOf, Results
<1>4. \A i, j \in 1 .. n : q[i].path = q[j].path => i = j
  BY DEF Results
<1> HIDE DEF n, a
<1>5. \A i \in 1 .. n + 1 : i \in 1 .. n \/ i = n + 1
  BY <1>1
<1>6. Results(a, r.type, n + 1)
  BY <1>2, <1>3, <1>4, <1>5 DEF Results
<1>7. 1 .. n \subseteq 1 .. n + 1 /\ n + 1 \in 1 .. n + 1
  BY <1>1
<1>8. PathsOf(a, n + 1) = PathsOf(q, n) \cup {r.path}
  BY <1>2, <1>5, <1>7 DEF PathsOf
<1> QED
  BY <1>1, <1>6, <1>8 DEF n, a

\* Any request at the end of a queue leaves the results before it as they were.
LEMMA AppendCommit ==
    ASSUME NEW q \in Seq(RequestType), NEW r \in RequestType
    PROVE  /\ Append(q, r) \in Seq(RequestType) /\ Len(Append(q, r)) = Len(q) + 1
           /\ Append(q, r)[Len(q) + 1] = r
           /\ \A i \in 1 .. Len(q) : Append(q, r)[i] = q[i]
           /\ \A type : Results(q, type, Len(q)) => Results(Append(q, r), type, Len(q))
           /\ PathsOf(Append(q, r), Len(q)) = PathsOf(q, Len(q))
PROOF
<1>1. \A i \in 1 .. Len(q) : Append(q, r)[i] = q[i]
  OBVIOUS
<1>2. \A type : Results(q, type, Len(q)) => Results(Append(q, r), type, Len(q))
  BY <1>1 DEF Results
<1>3. PathsOf(Append(q, r), Len(q)) = PathsOf(q, Len(q))
  BY <1>1 DEF PathsOf
<1> QED
  BY <1>1, <1>2, <1>3

\* A queue whose first result is taken.
LEMMA TailResults ==
    ASSUME NEW q \in Seq(RequestType), NEW type, NEW n \in 1 .. Len(q), Results(q, type, n)
    PROVE  /\ Tail(q) \in Seq(RequestType) /\ Len(Tail(q)) = Len(q) - 1
           /\ Head(q) = q[1] /\ Head(q) \in RequestType /\ Head(q).type = type
           /\ \A i \in 1 .. Len(q) - 1 : Tail(q)[i] = q[i + 1]
           /\ Results(Tail(q), type, n - 1)
           /\ PathsOf(Tail(q), n - 1) = PathsOf(q, n) \ {Head(q).path}
           /\ Head(q).path \in PathsOf(q, n)
PROOF
<1> DEFINE m == Len(q)
           t == Tail(q)
<1>1. m \in Nat /\ n \in 1 .. m /\ q # <<>>
  OBVIOUS
<1>2. t \in Seq(RequestType) /\ Len(t) = m - 1 /\ Head(q) = q[1] /\ Head(q) \in RequestType
  BY <1>1
<1>3. \A i \in 1 .. m - 1 : t[i] = q[i + 1]
  BY <1>1
<1> HIDE DEF m, t
<1>4. 1 \in 1 .. n /\ n - 1 \in Nat
  BY <1>1
<1>5. \A i \in 1 .. n - 1 : i + 1 \in 1 .. n /\ i \in 1 .. m - 1
  BY <1>1
<1>6. \A i \in 1 .. n : q[i].type = type
  BY DEF Results
<1>7. \A i, j \in 1 .. n : q[i].path = q[j].path => i = j
  BY DEF Results
<1>8. Results(t, type, n - 1)
  <2>1. \A i \in 1 .. n - 1 : t[i].type = type
    BY <1>3, <1>5, <1>6
  <2>2. ASSUME NEW i \in 1 .. n - 1, NEW j \in 1 .. n - 1, t[i].path = t[j].path PROVE i = j
    <3>1. i + 1 = j + 1
      BY <1>3, <1>5, <1>7, <2>2
    <3> QED
      BY <3>1, <1>4
  <2> QED
    BY <2>1, <2>2 DEF Results
<1>9. PathsOf(t, n - 1) \subseteq PathsOf(q, n) \ {q[1].path}
  <2> SUFFICES ASSUME NEW i \in 1 .. n - 1 PROVE t[i].path \in PathsOf(q, n) \ {q[1].path}
    BY DEF PathsOf
  <2>1. i + 1 # 1
    BY <1>4
  <2> QED
    BY <2>1, <1>3, <1>4, <1>5, <1>7 DEF PathsOf
<1>10. PathsOf(q, n) \ {q[1].path} \subseteq PathsOf(t, n - 1)
  <2> SUFFICES ASSUME NEW i \in 1 .. n, q[i].path # q[1].path PROVE q[i].path \in PathsOf(t, n - 1)
    BY DEF PathsOf
  <2>1. i - 1 \in 1 .. n - 1 /\ (i - 1) + 1 = i
    BY <1>4
  <2>2. t[i - 1] = q[i]
    BY <2>1, <1>3, <1>5
  <2> QED
    BY <2>1, <2>2 DEF PathsOf
<1>11. q[1].path \in PathsOf(q, n)
  BY <1>4 DEF PathsOf
<1> QED
  BY <1>2, <1>3, <1>4, <1>6, <1>8, <1>9, <1>10, <1>11 DEF m, t

\* Different actions are not more than there are paths.
LEMMA ResultsBound ==
    ASSUME NEW q \in Seq(RequestType), NEW type, NEW n \in 0 .. Len(q), Results(q, type, n),
           PathsOf(q, n) \subseteq Paths
    PROVE  n <= NumPaths
PROOF
<1> DEFINE f == [i \in 1 .. n |-> q[i].path]
<1>1. n \in Nat /\ NumPaths \in Nat
  BY CycleConstants
<1>2. f \in Injection(1 .. n, Paths)
  BY DEF Injection, IsInjective, Results, PathsOf
<1>3. IsFiniteSet(Paths) /\ Cardinality(Paths) = NumPaths
  BY <1>1, CycleConstants, FS_Interval, 1 \in Int, NumPaths \in Int DEF Paths
<1>4. Cardinality(1 .. n) = n
  BY <1>1, FS_Interval, 1 \in Int, n \in Int
<1> HIDE DEF f
<1>5. Cardinality(1 .. n) <= Cardinality(Paths)
  BY <1>2, <1>3, FS_Injection
<1> QED
  BY <1>3, <1>4, <1>5
-----------------------------------------------------------------------------
(* Records.                                                                *)

\* The text without words, and the table of no stats.
LEMMA Blank == NoWords \in Texts /\ [p \in Paths |-> 0] \in Stats /\ 0 \in Nat
BY DEF NoWords, Texts, Stats

\* The records of a state where nothing is under way.
LEMMA EmptyRecords ==
    NoFs \in FsType /\ NoEpoch \in EpochType /\ NoRow \in RowType /\ EngineAtStart \in EngineType
PROOF
<1>1. NoFs \in FsType
  BY Blank DEF NoFs, FsType
<1>2. NoEpoch \in EpochType
  BY Blank, EmptyDoc DEF NoEpoch, EpochType
<1>3. NoRow \in RowType
  BY EmptyDoc DEF NoRow, RowType
<1>4. EngineAtStart \in EngineType
  BY DEF EngineAtStart, EngineType, Phases
<1> QED
  BY <1>1, <1>2, <1>3, <1>4

\* Requests and scans are of their types.
LEMMA RequestTyped ==
    ASSUME NEW type \in RequestTypes, NEW p \in {0} \cup Paths, NEW text \in Texts,
           NEW stat \in Nat, NEW ok \in BOOLEAN
    PROVE  /\ Request(type, p, text, stat, ok) \in RequestType
           /\ Request(type, p, text, stat, ok).type = type
           /\ Request(type, p, text, stat, ok).path = p
           /\ Request(type, p, text, stat, ok).text = text
           /\ Request(type, p, text, stat, ok).stat = stat
           /\ Request(type, p, text, stat, ok).ok = ok
BY Blank DEF Request, RequestType

\* The fields of a scan.
LEMMA ScanTyped ==
    ASSUME NEW scope \in SUBSET Paths
    PROVE  /\ ScanOf(scope) \in FsType
           /\ ScanOf(scope).op = "scan" /\ ScanOf(scope).stage = "asked"
BY EmptyRecords DEF ScanOf, NoFs, FsType

\* The first action of a plan is one of its actions.
LEMMA LeastOfIn ==
    ASSUME NEW S \in SUBSET Paths, S # {}
    PROVE  LeastOf(S) \in S
PROOF
<1> DEFINE R == OpToRel(<, Nat)
<1>1. IsWellFoundedOn(R, Nat)
  BY NatLessThanWellFounded
<1>2. \A p, q \in Nat : <<p, q>> \in R <=> p < q
  BY DEF OpToRel
<1> HIDE DEF R
<1>3. S \subseteq Nat
  BY DEF Paths
<1>4. PICK p \in S : \A q \in S : ~ (<<q, p>> \in R)
  BY <1>1, <1>3, WFMin
<1>5. ASSUME NEW q \in S PROVE p <= q
  <2>1. p \in Nat /\ q \in Nat
    BY <1>3
  <2>2. ~ (q < p)
    BY <2>1, <1>2, <1>4
  <2> QED
    BY <2>1, <2>2
<1> QED
  BY <1>5 DEF LeastOf
-----------------------------------------------------------------------------
(* Steps of the engine.                                                    *)

\* The filesystem request for an action of the plan.
Action(op, p) ==
    [NoFs EXCEPT !.op = op, !.path = p, !.stat = epoch.stat[p],
                 !.text = IF op = "write" THEN Text(epoch.target[p]) ELSE NoWords]

\* The engine that waits for its epoch to be committed.
Committed(e, type, ok, phase) ==
    [Send(e, Request(type, 0, NoWords, 0, ok)) EXCEPT !.phase = phase]

\* Sending a request changes the queue only.
LEMMA SendTyped ==
    ASSUME NEW e \in EngineType, NEW r \in RequestType
    PROVE  /\ Send(e, r) \in EngineType /\ Send(e, r).requests = Append(e.requests, r)
           /\ Send(e, r).phase = e.phase /\ Send(e, r).dirty = e.dirty
           /\ Send(e, r).pending = e.pending /\ Send(e, r).reads = e.reads
           /\ Send(e, r).writes = e.writes /\ Send(e, r).deletes = e.deletes
PROOF
<1> DEFINE q == Append(e.requests, r)
<1>1. q \in Seq(RequestType)
  BY DEF EngineType
<1>2. Send(e, r) = [e EXCEPT !.requests = q]
  BY DEF Send
<1> HIDE DEF q
<1>3. /\ Send(e, r) \in EngineType /\ Send(e, r).requests = q
      /\ Send(e, r).phase = e.phase /\ Send(e, r).dirty = e.dirty
      /\ Send(e, r).pending = e.pending /\ Send(e, r).reads = e.reads
      /\ Send(e, r).writes = e.writes /\ Send(e, r).deletes = e.deletes
  BY <1>1, <1>2 DEF EngineType
<1> QED
  BY <1>3 DEF q

\* drive_phase leaves alone what is busy or has no plan.
LEMMA DriveRests ==
    ASSUME NEW e, NEW f,
           f.op # "none" \/ e.phase \notin {"Importing", "Projecting", "Draining"}
    PROVE  DrivePhase(<<e, f>>) = <<e, f>>
BY DEF DrivePhase

\* drive_phase in an import.
LEMMA DriveImport ==
    ASSUME NEW e, EngineStep(<<e, NoFs>>), e.phase = "Importing"
    PROVE  /\ e.reads # {} => /\ engine' = [e EXCEPT !.reads = @ \ {LeastOf(@)}]
                              /\ fs' = Action("read", LeastOf(e.reads))
           /\ e.reads = {} =>
                 /\ engine' = Committed(e, "CommitImportEpoch", TRUE, "ImportCommitting")
                 /\ fs' = NoFs
BY DEF EngineStep, DrivePhase, Action, Committed, NoFs

\* drive_phase in a projection: writes first, then deletes.
LEMMA DriveProjection ==
    ASSUME NEW e, EngineStep(<<e, NoFs>>), e.phase = "Projecting"
    PROVE  /\ e.writes # {} => /\ engine' = [e EXCEPT !.writes = @ \ {LeastOf(@)}]
                               /\ fs' = Action("write", LeastOf(e.writes))
           /\ (e.writes = {} /\ e.deletes # {}) =>
                 /\ engine' = [e EXCEPT !.deletes = @ \ {LeastOf(@)}]
                 /\ fs' = Action("delete", LeastOf(e.deletes))
           /\ (e.writes = {} /\ e.deletes = {}) =>
                 /\ engine' = Committed(e, "CommitProjectionEpoch", TRUE, "ProjectionCommitting")
                 /\ fs' = NoFs
BY DEF EngineStep, DrivePhase, Action, Committed, NoFs

\* drive_phase after a conflict.
LEMMA DriveDrain ==
    ASSUME NEW e, EngineStep(<<e, NoFs>>), e.phase = "Draining"
    PROVE  /\ engine' = Committed(e, "CommitProjectionEpoch", FALSE, "ProjectionCommitting")
           /\ fs' = NoFs
BY DEF EngineStep, DrivePhase, Committed, NoFs

\* A step at a boundary starts a scan or asks for next work.
LEMMA BoundaryStep ==
    ASSUME NEW e \in EngineType, EngineStep(EnterBoundary(e))
    PROVE  \/ /\ e.pending # {}
              /\ engine' = [e EXCEPT !.phase = "Scanning", !.pending = {}]
              /\ fs' = ScanOf(e.pending)
           \/ /\ e.pending = {}
              /\ engine' = [Send(e, Request("GetNextWork", 0, NoWords, 0, TRUE)) EXCEPT
                               !.phase = "AwaitingNextWork", !.dirty = FALSE]
              /\ fs' = NoFs
PROOF
<1>1. CASE e.pending # {}
  <2> DEFINE s == [e EXCEPT !.phase = "Scanning", !.pending = {}]
  <2>1. EnterBoundary(e) = <<s, ScanOf(e.pending)>>
    BY <1>1 DEF EnterBoundary
  <2>2. ScanOf(e.pending).op # "none"
    BY ScanTyped DEF EngineType
  <2>3. DrivePhase(EnterBoundary(e)) = <<s, ScanOf(e.pending)>>
    BY <2>1, <2>2, DriveRests
  <2> QED
    BY <1>1, <2>3 DEF EngineStep
<1>2. CASE e.pending = {}
  <2> DEFINE s == [Send(e, Request("GetNextWork", 0, NoWords, 0, TRUE)) EXCEPT
                      !.phase = "AwaitingNextWork", !.dirty = FALSE]
  <2>1. EnterBoundary(e) = <<s, NoFs>>
    BY <1>2 DEF EnterBoundary
  <2>2. s.phase = "AwaitingNextWork"
    BY DEF EngineType, Send
  <2>3. DrivePhase(EnterBoundary(e)) = <<s, NoFs>>
    BY <2>1, <2>2, DriveRests
  <2> QED
    BY <1>2, <2>3 DEF EngineStep
<1> QED
  BY <1>1, <1>2
=============================================================================
