------------------------------ MODULE TextDoc ------------------------------
(***************************************************************************)
(* CRDT text documents.  A document is its insertions, a function from     *)
(* operation ids <<client, clock>> to words, and the set of the deleted    *)
(* ids.  A text is a bag of words: a function from words to how often they *)
(* occur.  The order of the words in a text is left out.                   *)
(***************************************************************************)
EXTENDS Integers, Sequences, FiniteSets

EmptyDoc  == [ins |-> <<>>, del |-> {}]
EmptyText == <<>>

LiveIds(doc) == DOMAIN doc.ins \ doc.del

CopiesOf(doc, w) == {i \in LiveIds(doc) : doc.ins[i] = w}

\* get_text
Text(doc) ==
    [w \in {doc.ins[i] : i \in LiveIds(doc)} |-> Cardinality(CopiesOf(doc, w))]

Count(text, w) == IF w \in DOMAIN text THEN text[w] ELSE 0

\* Text with one more copy of each word of a set (an appended or prepended line).
Plus(text, words) ==
    [w \in DOMAIN text \cup words |-> Count(text, w) + IF w \in words THEN 1 ELSE 0]

\* apply_text_update: an id that is already known keeps its word.
Apply(doc, update) ==
    [ins |-> [i \in DOMAIN doc.ins \cup DOMAIN update.ins |->
                 IF i \in DOMAIN doc.ins THEN doc.ins[i] ELSE update.ins[i]],
     del |-> doc.del \cup update.del]

OpLess(i, j) == i[1] < j[1] \/ (i[1] = j[1] /\ i[2] < j[2])

\* The k smallest ids of a set.
FirstIds(S, k) == {i \in S : Cardinality({j \in S : OpLess(j, i)}) < k}

\* capture_text_change: the update that turns doc into text.  Its insertions
\* take the next clocks of the client that doc, and only doc, leaves free; it
\* carries all deletions known to doc.
Capture(client, doc, text) ==
    LET old     == Text(doc)
        added   == UNION {{<<w, k>> : k \in Count(old, w) + 1 .. text[w]} : w \in DOMAIN text}
        clock   == Cardinality({i \in DOMAIN doc.ins : i[1] = client})
        nth(n)  == CHOOSE a \in added : Cardinality({b \in added : OpLess(b, a)}) = n - 1
        removed == UNION {FirstIds(CopiesOf(doc, w), old[w] - Count(text, w)) :
                             w \in DOMAIN old}
    IN  [ins |-> [i \in {<<client, clock + n>> : n \in 1 .. Cardinality(added)} |->
                     nth(i[2] - clock)[1]],
         del |-> doc.del \cup removed]
=============================================================================
