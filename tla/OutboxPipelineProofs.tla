------------------------ MODULE OutboxPipelineProofs ------------------------
(***************************************************************************)
(* Theorems about OutboxPipeline for every value of its constants.         *)
(***************************************************************************)
EXTENDS OutboxPipeline, FiniteSetTheorems, SequenceTheorems, TLAPS

\* The reservation query selects an interval that starts at the oldest
\* unreserved row and is empty only if there is none.
LEMMA SelectedInterval ==
    ASSUME NEW lo \in Nat, NEW mid \in Nat, nextId \in Nat, OutboxShape(lo, mid)
    PROVE  \E end \in mid .. nextId :
              /\ Selected = mid .. end - 1
              /\ (Selected = {}) <=> (mid = nextId)
<1>1. Unreserved = mid .. nextId - 1
  BY DEF Unreserved, OutboxShape
<1>2. ASSUME NEW id \in mid .. nextId - 1
      PROVE  Cardinality({x \in Unreserved : x < id}) = id - mid
  <2>1. {x \in Unreserved : x < id} = mid .. id - 1
    BY <1>1
  <2>2. mid \in Int /\ id \in Int /\ id - 1 \in Int /\ mid <= id
    OBVIOUS
  <2>3. Cardinality(mid .. id - 1) = IF mid > id - 1 THEN 0 ELSE (id - 1) - mid + 1
    BY <2>2, FS_Interval, Zenon
  <2>4. Cardinality(mid .. id - 1) = id - mid
    BY <2>2, <2>3
  <2> QED  BY <2>1, <2>4
<1>3. Selected = {id \in mid .. nextId - 1 : id - mid < BatchSize}
  BY <1>1, <1>2 DEF Selected
<1> DEFINE end == IF mid + BatchSize <= nextId THEN mid + BatchSize ELSE nextId
<1>4. BatchSize \in Nat /\ BatchSize > 0
  BY ConstantsAssumption
<1>5. end \in mid .. nextId
  BY <1>4 DEF OutboxShape
<1>6. Selected = mid .. end - 1
  BY <1>3, <1>4
<1>7. (Selected = {}) <=> (mid = nextId)
  <2>1. mid = end <=> mid = nextId
    BY <1>4, <1>5
  <2>2. (mid .. end - 1 = {}) <=> mid = end
    BY <1>5
  <2> QED  BY <1>6, <2>1, <2>2
<1> QED  BY <1>5, <1>6, <1>7

\* The ends of a non-empty interval of integers.
LEMMA EndsOfInterval ==
    ASSUME NEW a \in Int, NEW b \in Int, a <= b
    PROVE  First(a .. b) = a /\ Last(a .. b) = b
<1>1. \A x \in a .. b : (\A y \in a .. b : x <= y) => x = a
  OBVIOUS
<1>2. \A x \in a .. b : (\A y \in a .. b : y <= x) => x = b
  OBVIOUS
<1>3. a \in a .. b /\ (\A y \in a .. b : a <= y)
  OBVIOUS
<1>4. b \in a .. b /\ (\A y \in a .. b : y <= b)
  OBVIOUS
<1>5. First(a .. b) = a
  BY <1>1, <1>3 DEF First
<1>6. Last(a .. b) = b
  BY <1>2, <1>4 DEF Last
<1> QED  BY <1>5, <1>6

\* A run of ids passes assert_contiguous_outbox_rows.
LEMMA IntervalContiguous ==
    ASSUME NEW a \in Int, NEW b \in Int
    PROVE  Contiguous(a .. b)
BY DEF Contiguous

\* The engine's bookkeeping keeps its record well formed.
LEMMA BookkeepingType ==
    ASSUME NEW e \in EngineType
    PROVE  /\ MaybeStartRead(e) \in EngineType
           /\ MaybeStartRelease(e) \in EngineType
           /\ RequestRead(e) \in EngineType
           /\ RequestRelease(e) \in EngineType
           /\ MarkDisconnected(e) \in EngineType
<1>1. ReadReq \in SemanticRequests /\ ReleaseReq \in SemanticRequests
  BY DEF SemanticRequests
<1>2. ASSUME NEW f \in EngineType
      PROVE  MaybeStartRead(f) \in EngineType /\ MaybeStartRelease(f) \in EngineType
  <2>1. Append(f.requests, ReadReq) \in Seq(SemanticRequests)
    BY <1>1, AppendProperties DEF EngineType
  <2>2. Append(f.requests, ReleaseReq) \in Seq(SemanticRequests)
    BY <1>1, AppendProperties DEF EngineType
  <2> QED  BY <2>1, <2>2 DEF MaybeStartRead, MaybeStartRelease, EngineType
<1>3. [e EXCEPT !.readRequested = TRUE] \in EngineType
  BY DEF EngineType
<1>4. \A f \in EngineType : [f EXCEPT !.releaseRequested = TRUE] \in EngineType
  BY DEF EngineType
<1>5. [e EXCEPT !.link = "Offline", !.reconnectTimer = TRUE,
                !.readRequested = TRUE] \in EngineType
  BY DEF EngineType, LinkStates
<1> QED  BY <1>2, <1>3, <1>4, <1>5 DEF RequestRead, RequestRelease, MarkDisconnected

\* What survives the end of a session: the run of records that did not land.
LEMMA LateAfterType ==
    ASSUME TypeOK
    PROVE  LateAfter \in Seq(Seq(Ids))
<1>1. writer.pending \in Seq(Ids) /\ writer.landed \in Nat
  BY DEF TypeOK, WriterType
<1>2. \A i \in writer.landed + 1 .. Len(writer.pending) : writer.pending[i] \in Ids
  BY <1>1
<1>3. Unlanded \in Seq(Ids)
  BY <1>1, <1>2, SubSeqProperties DEF Unlanded
<1> QED  BY <1>3, AppendProperties DEF LateAfter, TypeOK

\* A writer without a session is a well formed one (run, wait_for_reconnect).
LEMMA WriterInType ==
    ASSUME NEW s \in WriterStates
    PROVE  WriterIn(s) \in WriterType /\ WriterIn(s).landed <= Len(WriterIn(s).pending)
BY EmptySeq DEF WriterIn, WriterType, NoId

\* The engine that run() starts with is well formed.
LEMMA EngineAtStartType == EngineAtStart \in EngineType
BY EmptySeq DEF EngineAtStart, EngineType, LinkStates

\* Init establishes the type invariant and the shape of the outbox.
LEMMA InitShape == Init => TypeOK /\ ShapeInv
<1> SUFFICES ASSUME Init PROVE TypeOK /\ ShapeInv
  OBVIOUS
<1>1. TypeOK
  BY EngineAtStartType, WriterInType, EmptySeq, ConstantsAssumption
     DEF Init, TypeOK, WriterStates
<1>2. OutboxShape(0, 0)
  BY DEF Init, OutboxShape
<1> QED  BY <1>1, <1>2, ConstantsAssumption DEF ShapeInv

\* An action that leaves the table and the id counter alone keeps its shape.
LEMMA ShapeFrame ==
    ASSUME ShapeInv, UNCHANGED <<rows, reserved, nextId>>
    PROVE  ShapeInv'
BY DEF ShapeInv, OutboxShape

\* Taking a request off the mailbox keeps the engine's record well formed.
LEMMA TakeRequestType ==
    ASSUME TypeOK, NEW type, TakeRequest(type)
    PROVE  /\ engine' \in EngineType
           /\ Head(engine.requests) \in SemanticRequests
<1>1. engine.requests \in Seq(SemanticRequests) /\ engine.requests # <<>>
  BY DEF TypeOK, EngineType, TakeRequest
<1>2. Tail(engine.requests) \in Seq(SemanticRequests)
  BY <1>1, HeadTailProperties
<1>3. Head(engine.requests) \in SemanticRequests
  BY <1>1, HeadTailProperties
<1> QED  BY <1>2, <1>3 DEF TakeRequest, TypeOK, EngineType

\* reserve_outbox_messages extends the reserved prefix, and never fails.
LEMMA ReadOutboxShape ==
    ASSUME TypeOK, ShapeInv, ReadOutbox
    PROVE  TypeOK' /\ ShapeInv'
<1>1. PICK lo \in 0 .. MaxId, mid \in 0 .. MaxId : OutboxShape(lo, mid)
  BY DEF ShapeInv
<1>2. lo \in Nat /\ mid \in Nat /\ nextId \in Nat /\ nextId <= MaxId /\ MaxId \in Nat
  BY ConstantsAssumption DEF TypeOK
<1>3. PICK end \in mid .. nextId : /\ Selected = mid .. end - 1
                                   /\ (Selected = {}) <=> (mid = nextId)
  BY <1>1, <1>2, SelectedInterval
<1>4. Contiguous(Selected)
  BY <1>2, <1>3, IntervalContiguous
<1>5. reserved' = lo .. end - 1 /\ rows' = rows /\ nextId' = nextId /\ up' = TRUE
  <2>1. reserved' = reserved \cup Selected
    BY <1>4 DEF ReadOutbox
  <2>2. reserved = lo .. mid - 1 /\ lo <= mid
    BY <1>1 DEF OutboxShape
  <2>3. (lo .. mid - 1) \cup (mid .. end - 1) = lo .. end - 1
    BY <1>2, <1>3, <2>2
  <2> QED  BY <1>3, <1>4, <2>1, <2>2, <2>3 DEF ReadOutbox
<1>6. OutboxShape(lo, end)'
  BY <1>1, <1>2, <1>3, <1>5 DEF OutboxShape
<1>7. ShapeInv'
  <2>1. end \in 0 .. MaxId
    BY <1>2, <1>3
  <2> QED  BY <1>6, <2>1 DEF ShapeInv
<1>8. replies' \in SUBSET SemanticReplies
  <2>1. ASSUME Selected # {}
        PROVE  ReadReply(First(Selected), Last(Selected)) \in SemanticReplies
    <3>1. mid <= end - 1 /\ mid \in Int /\ end - 1 \in Int
      BY <1>2, <1>3, <2>1
    <3>2. First(Selected) = mid /\ Last(Selected) = end - 1
      BY <1>3, <3>1, EndsOfInterval
    <3>3. mid \in Ids /\ end - 1 \in Ids
      BY <1>2, <1>3, <3>1 DEF Ids
    <3> QED  BY <3>2, <3>3 DEF ReadReply, SemanticReplies
  <2> QED  BY <2>1 DEF ReadOutbox, TypeOK, SemanticReplies
<1>9. engine' \in EngineType
  BY TakeRequestType DEF ReadOutbox
<1>10. rows' \in SUBSET Ids /\ reserved' \in SUBSET rows'
  <2>1. rows = lo .. nextId - 1
    BY <1>1 DEF OutboxShape
  <2> QED  BY <1>2, <1>3, <1>5, <2>1 DEF TypeOK
<1>11. TypeOK'
  BY <1>5, <1>8, <1>9, <1>10 DEF ReadOutbox, TypeOK, writerVars, netVars
<1> QED  BY <1>7, <1>11

\* trim_outbox takes rows from the front of the table only.
LEMMA TrimOutboxShape ==
    ASSUME TypeOK, ShapeInv, TrimOutbox
    PROVE  TypeOK' /\ ShapeInv'
<1> DEFINE k == Head(engine.requests).through
           trimmed == {id \in reserved : id <= k}
<1>1. PICK lo \in 0 .. MaxId, mid \in 0 .. MaxId : OutboxShape(lo, mid)
  BY DEF ShapeInv
<1>2. /\ lo \in Nat /\ mid \in Nat /\ nextId \in Nat /\ nextId <= MaxId
      /\ MaxId \in Nat /\ lo <= mid /\ mid <= nextId
      /\ rows = lo .. nextId - 1 /\ reserved = lo .. mid - 1
  BY <1>1, ConstantsAssumption DEF TypeOK, OutboxShape
<1>3. Head(engine.requests) \in SemanticRequests
  BY TakeRequestType DEF TrimOutbox
<1>4. k \in Int
  BY <1>3 DEF SemanticRequests, ReadReq, ReleaseReq, TrimReq, Ids, NoId
<1>5. rows' = rows \ trimmed /\ reserved' = reserved \ trimmed /\ nextId' = nextId
  BY DEF TrimOutbox
<1>6. PICK cut \in lo .. mid : trimmed = lo .. cut - 1
  <2> DEFINE c == IF k < lo THEN lo ELSE IF k < mid THEN k + 1 ELSE mid
  <2>1. c \in lo .. mid
    BY <1>2, <1>4
  <2>2. trimmed = lo .. c - 1
    BY <1>2, <1>4
  <2> QED  BY <2>1, <2>2
<1>7. cut \in Int /\ lo <= cut /\ cut <= mid
  BY <1>2, <1>6
<1>8. rows' = cut .. nextId - 1 /\ reserved' = cut .. mid - 1
  <2>1. (lo .. nextId - 1) \ (lo .. cut - 1) = cut .. nextId - 1
    BY <1>2, <1>7
  <2>2. (lo .. mid - 1) \ (lo .. cut - 1) = cut .. mid - 1
    BY <1>2, <1>7
  <2> QED  BY <1>2, <1>5, <1>6, <2>1, <2>2
<1>9. OutboxShape(cut, mid)'
  BY <1>2, <1>5, <1>7, <1>8 DEF OutboxShape
<1>10. ShapeInv'
  <2>1. cut \in 0 .. MaxId
    BY <1>2, <1>7
  <2> QED  BY <1>9, <2>1 DEF ShapeInv
<1>11. engine' \in EngineType
  BY TakeRequestType DEF TrimOutbox
<1>12. rows' \in SUBSET Ids /\ reserved' \in SUBSET rows'
  BY <1>5 DEF TypeOK
<1>13. TypeOK'
  BY <1>11, <1>12 DEF TrimOutbox, TypeOK, writerVars, netVars
<1> QED  BY <1>10, <1>13

\* What the writer and the stream do to a session keeps it well formed.
LEMMA SessionType ==
    ASSUME TypeOK
    PROVE  /\ WriterAppend => writer' \in WriterType /\ writer'.landed <= Len(writer'.pending)
           /\ UploadDone => writer' \in WriterType /\ writer'.landed <= Len(writer'.pending)
           /\ WriterAck => writer' \in WriterType /\ writer'.landed <= Len(writer'.pending)
           /\ WriterAck => Head(writer.pending) \in Ids
           /\ S2Land => writer' \in WriterType /\ writer'.landed <= Len(writer'.pending)
           /\ S2Land => writer.pending[writer.landed + 1] \in Ids
           /\ S2Retry => writer' \in WriterType /\ writer'.landed <= Len(writer'.pending)
<1>1. /\ writer \in WriterType /\ writer.pending \in Seq(Ids) /\ writer.landed \in Nat
      /\ writer.landed <= Len(writer.pending) /\ Len(writer.pending) \in Nat
  BY LenProperties DEF TypeOK, WriterType
<1>2. \A id \in Ids : /\ Append(writer.pending, id) \in Seq(Ids)
                      /\ Len(Append(writer.pending, id)) = Len(writer.pending) + 1
  BY <1>1, AppendProperties
<1>3. WriterAppend => writer' \in WriterType /\ writer'.landed <= Len(writer'.pending)
  <2> SUFFICES ASSUME WriterAppend
               PROVE  writer' \in WriterType /\ writer'.landed <= Len(writer'.pending)
    OBVIOUS
  <2>1. Head(toWriter) \in WriterRequests /\ Head(toWriter).type = "Append"
    BY HeadTailProperties DEF WriterAppend, WriterReceives, TypeOK
  <2>2. Head(toWriter).id \in Ids
    BY <2>1 DEF WriterRequests, ReconnectReq, AppendReq
  <2>3. Head(toWriter).id + 1 \in 0 .. MaxId
    BY <2>2, ConstantsAssumption DEF Ids
  <2>4. CASE Head(toWriter).id \in Big
    <3>1. writer' = [writer EXCEPT !.expected = Head(toWriter).id + 1,
                                   !.upload = Head(toWriter).id]
      BY <2>4 DEF WriterAppend
    <3> QED  BY <1>1, <2>2, <2>3, <3>1 DEF WriterType
  <2>5. CASE Head(toWriter).id \notin Big
    <3>1. writer' = [writer EXCEPT !.expected = Head(toWriter).id + 1,
                                   !.pending = Append(@, Head(toWriter).id)]
      BY <2>5 DEF WriterAppend
    <3>2. writer' \in WriterType
      BY <1>1, <1>2, <2>2, <2>3, <3>1 DEF WriterType
    <3>3. writer'.landed = writer.landed /\ Len(writer'.pending) = Len(writer.pending) + 1
      BY <1>1, <1>2, <2>2, <3>1 DEF WriterType
    <3> QED  BY <1>1, <3>2, <3>3
  <2> QED  BY <2>4, <2>5
<1>4. UploadDone => writer' \in WriterType /\ writer'.landed <= Len(writer'.pending)
  <2> SUFFICES ASSUME UploadDone
               PROVE  writer' \in WriterType /\ writer'.landed <= Len(writer'.pending)
    OBVIOUS
  <2>1. writer.upload \in Ids
    BY <1>1 DEF UploadDone, WriterType
  <2>2. writer' \in WriterType
    BY <1>1, <1>2, <2>1 DEF UploadDone, WriterType
  <2>3. writer'.landed = writer.landed /\ Len(writer'.pending) = Len(writer.pending) + 1
    BY <1>1, <1>2, <2>1 DEF UploadDone, WriterType
  <2> QED  BY <1>1, <2>2, <2>3
<1>5. ASSUME WriterAck
      PROVE  /\ writer' \in WriterType /\ writer'.landed <= Len(writer'.pending)
             /\ Head(writer.pending) \in Ids
  <2>1. writer.pending # <<>>
    BY <1>1, <1>5 DEF WriterAck
  <2>2. /\ Head(writer.pending) \in Ids /\ Tail(writer.pending) \in Seq(Ids)
        /\ Len(Tail(writer.pending)) = Len(writer.pending) - 1
    BY <1>1, <2>1, HeadTailProperties
  <2>3. writer.landed - 1 \in Nat /\ writer.landed - 1 <= Len(writer.pending) - 1
    BY <1>1, <1>5 DEF WriterAck
  <2> QED  BY <1>1, <1>5, <2>2, <2>3 DEF WriterAck, WriterType
<1>6. ASSUME S2Land
      PROVE  /\ writer' \in WriterType /\ writer'.landed <= Len(writer'.pending)
             /\ writer.pending[writer.landed + 1] \in Ids
  <2>1. writer.landed + 1 \in 1 .. Len(writer.pending)
    BY <1>1, <1>6 DEF S2Land
  <2>2. writer.pending[writer.landed + 1] \in Ids
    BY <1>1, <2>1
  <2>3. writer' \in WriterType
    <3>1. writer' = [writer EXCEPT !.landed = @ + 1]
      BY <1>6 DEF S2Land
    <3>2. writer.landed + 1 \in Nat
      BY <1>1
    <3> QED  BY <1>1, <3>1, <3>2 DEF WriterType
  <2>4. writer'.landed = writer.landed + 1 /\ writer'.pending = writer.pending
    BY <1>1, <1>6 DEF S2Land, WriterType
  <2> QED  BY <1>1, <2>1, <2>2, <2>3, <2>4
<1>7. S2Retry => writer' \in WriterType /\ writer'.landed <= Len(writer'.pending)
  BY <1>1 DEF S2Retry, WriterType
<1> QED  BY <1>3, <1>4, <1>5, <1>6, <1>7

\* Every step preserves the type invariant and the shape of the outbox.
LEMMA NextShape == TypeOK /\ ShapeInv /\ [Next]_vars => TypeOK' /\ ShapeInv'
<1> SUFFICES ASSUME TypeOK, ShapeInv, [Next]_vars
             PROVE  TypeOK' /\ ShapeInv'
  OBVIOUS
<1> USE DEF dbVars, writerVars, netVars
<1>1. ASSUME NEW n \in 1 .. MaxMint, CommitMutation(n)
      PROVE  TypeOK' /\ ShapeInv'
  <2>1. PICK lo \in 0 .. MaxId, mid \in 0 .. MaxId : OutboxShape(lo, mid)
    BY DEF ShapeInv
  <2>2. n \in Nat /\ nextId \in Nat /\ nextId' = nextId + n /\ nextId' <= MaxId
        /\ MaxId \in Nat
    BY <1>1, ConstantsAssumption DEF CommitMutation, TypeOK
  <2>3. rows' = lo .. nextId' - 1
    BY <1>1, <2>1, <2>2 DEF CommitMutation, OutboxShape
  <2>4. OutboxShape(lo, mid)'
    BY <1>1, <2>1, <2>2, <2>3 DEF CommitMutation, OutboxShape
  <2>5. rows' \in SUBSET Ids /\ reserved' \in SUBSET rows'
    BY <1>1, <2>2, <2>3 DEF Ids, TypeOK, CommitMutation
  <2>6. TypeOK'
    BY <1>1, <2>2, <2>5 DEF CommitMutation, TypeOK
  <2> QED  BY <2>1, <2>4, <2>6 DEF ShapeInv
<1>2. CASE ReadOutbox
  BY <1>2, ReadOutboxShape
<1>3. CASE ReleaseOutbox
  <2>1. PICK lo \in 0 .. MaxId, mid \in 0 .. MaxId : OutboxShape(lo, mid)
    BY DEF ShapeInv
  <2>2. OutboxShape(lo, lo)'
    BY <1>3, <2>1 DEF ReleaseOutbox, OutboxShape, TypeOK
  <2>3. engine' \in EngineType
    BY <1>3, TakeRequestType DEF ReleaseOutbox
  <2>4. TypeOK'
    BY <1>3, <2>3 DEF ReleaseOutbox, TypeOK, SemanticReplies
  <2> QED  BY <2>2, <2>4 DEF ShapeInv
<1>4. CASE TrimOutbox
  BY <1>4, TrimOutboxShape
<1>5. CASE OnOutboxReady
  <2>1. RequestRead(engine) \in EngineType
    BY BookkeepingType DEF TypeOK
  <2>2. TypeOK'
    BY <1>5, <2>1 DEF OnOutboxReady, TypeOK
  <2> QED  BY <1>5, <2>2, ShapeFrame DEF OnOutboxReady
<1>6. CASE OnReadReply
  <2>1. PICK r \in replies :
          LET any  == r.first <= r.last
              done == [engine EXCEPT !.readInFlight = FALSE]
              sent == IF any /\ engine.link # "Online"
                      THEN RequestRelease(done) ELSE done
          IN  /\ r.type = "ReadOutbox"
              /\ replies' = replies \ {r}
              /\ toWriter' = IF engine.link = "Online"
                             THEN toWriter \o Appends(r.first, r.last)
                             ELSE toWriter
              /\ engine' = MaybeStartRead([sent EXCEPT !.readRequested = @ \/ any])
    BY <1>6 DEF OnReadReply
  <2>2. r.first \in Int /\ r.last \in Int /\ (r.first <= r.last => r.first \in Ids /\ r.last \in Ids)
    <3>1. \/ r = ReleaseReply \/ r = ReadReply(0, NoId)
          \/ r \in [type : {"ReadOutbox"}, first : Ids, last : Ids \cup {NoId}]
      BY DEF TypeOK, SemanticReplies
    <3>2. r # ReleaseReply
      BY <2>1 DEF ReleaseReply
    <3>3. CASE r = ReadReply(0, NoId)
      BY <3>3 DEF ReadReply, NoId
    <3>4. CASE r \in [type : {"ReadOutbox"}, first : Ids, last : Ids \cup {NoId}]
      <4>1. r.first \in Ids /\ r.last \in Ids \cup {NoId}
        BY <3>4
      <4> QED  BY <4>1, ConstantsAssumption DEF Ids, NoId
    <3> QED  BY <3>1, <3>2, <3>3, <3>4
  <2>3. Appends(r.first, r.last) \in Seq(WriterRequests)
    <3>1. \A i \in 1 .. r.last - r.first + 1 : AppendReq(r.first + i - 1) \in WriterRequests
      <4> SUFFICES ASSUME NEW i \in 1 .. r.last - r.first + 1
                   PROVE  AppendReq(r.first + i - 1) \in WriterRequests
        OBVIOUS
      <4>1. i \in Int /\ 1 <= i /\ i <= r.last - r.first + 1
        BY <2>2
      <4>2. r.first <= r.last
        BY <2>2, <4>1
      <4>3. r.first + i - 1 \in Ids
        BY <2>2, <4>1, <4>2, ConstantsAssumption DEF Ids
      <4> QED  BY <4>3 DEF WriterRequests
    <3>2. CASE r.first <= r.last
      <4>1. r.last - r.first + 1 \in Nat
        BY <2>2, <3>2
      <4> QED  BY <3>1, <4>1, IsASeq DEF Appends
    <3>3. CASE ~(r.first <= r.last)
      <4>1. 1 .. r.last - r.first + 1 = 1 .. 0
        BY <2>2, <3>3
      <4>2. 0 \in Nat /\ (\A i \in 1 .. 0 : AppendReq(r.first + i - 1) \in WriterRequests)
        OBVIOUS
      <4>3. [i \in 1 .. 0 |-> AppendReq(r.first + i - 1)] \in Seq(WriterRequests)
        BY <4>2, IsASeq
      <4> QED  BY <4>1, <4>3 DEF Appends
    <3> QED  BY <3>2, <3>3
  <2>4. toWriter' \in Seq(WriterRequests)
    BY <2>1, <2>3, ConcatProperties DEF TypeOK
  <2>5. \A e \in EngineType, b \in BOOLEAN :
           /\ [e EXCEPT !.readInFlight = b] \in EngineType
           /\ [e EXCEPT !.readRequested = b] \in EngineType
           /\ e.readRequested \in BOOLEAN
    BY DEF EngineType
  <2>6. engine' \in EngineType
    <3> DEFINE any  == r.first <= r.last
               done == [engine EXCEPT !.readInFlight = FALSE]
               sent == IF any /\ engine.link # "Online" THEN RequestRelease(done) ELSE done
    <3>1. done \in EngineType
      BY <2>5 DEF TypeOK
    <3>2. sent \in EngineType
      BY <3>1, BookkeepingType
    <3>3. (sent.readRequested \/ any) \in BOOLEAN
      OBVIOUS
    <3>4. [sent EXCEPT !.readRequested = sent.readRequested \/ any] \in EngineType
      BY <2>5, <3>2, <3>3
    <3>5. engine' = MaybeStartRead([sent EXCEPT !.readRequested = sent.readRequested \/ any])
      BY <2>1
    <3> QED  BY <3>4, <3>5, BookkeepingType
  <2>7. TypeOK'
    BY <1>6, <2>1, <2>4, <2>6 DEF OnReadReply, TypeOK
  <2> QED  BY <1>6, <2>7, ShapeFrame DEF OnReadReply
<1>7. CASE OnReleaseReply
  <2>1. [engine EXCEPT !.releaseInFlight = FALSE] \in EngineType
    BY DEF TypeOK, EngineType
  <2>2. engine' \in EngineType
    BY <1>7, <2>1, BookkeepingType DEF OnReleaseReply
  <2>3. TypeOK'
    BY <1>7, <2>2 DEF OnReleaseReply, TypeOK
  <2> QED  BY <1>7, <2>3, ShapeFrame DEF OnReleaseReply
<1>8. ASSUME NEW type, TakeWriterEvent(type)
      PROVE  fromWriter' \in Seq(WriterResponses) /\ Head(fromWriter) \in WriterResponses
             /\ Head(fromWriter).type = type
  BY <1>8, HeadTailProperties DEF TakeWriterEvent, TypeOK
<1>9. CASE OnConnected
  <2>1. [engine EXCEPT !.link = "Online"] \in EngineType
    BY DEF TypeOK, EngineType, LinkStates
  <2>2. engine' \in EngineType
    BY <1>9, <2>1, BookkeepingType DEF OnConnected
  <2>3. TypeOK'
    BY <1>8, <1>9, <2>2 DEF OnConnected, TypeOK
  <2> QED  BY <1>9, <2>3, ShapeFrame DEF OnConnected
<1>10. CASE OnDisconnected
  <2>1. engine' \in EngineType
    BY <1>10, BookkeepingType DEF OnDisconnected, TypeOK
  <2>2. TypeOK'
    BY <1>8, <1>10, <2>1 DEF OnDisconnected, TypeOK
  <2> QED  BY <1>10, <2>2, ShapeFrame DEF OnDisconnected
<1>11. CASE OnDurable
  <2>1. Head(fromWriter).id \in Ids
    <3>1. Head(fromWriter) \in WriterResponses /\ Head(fromWriter).type = "Durable"
      BY <1>8, <1>11 DEF OnDurable
    <3> QED  BY <3>1 DEF WriterResponses, Connected, Disconnected, Durable
  <2>2. TrimReq(Head(fromWriter).id) \in SemanticRequests
    BY <2>1 DEF SemanticRequests
  <2>3. Append(engine.requests, TrimReq(Head(fromWriter).id)) \in Seq(SemanticRequests)
    BY <2>2, AppendProperties DEF TypeOK, EngineType
  <2>4. engine' \in EngineType
    BY <1>11, <2>3 DEF OnDurable, TypeOK, EngineType
  <2>5. TypeOK'
    BY <1>8, <1>11, <2>4 DEF OnDurable, TypeOK
  <2> QED  BY <1>11, <2>5, ShapeFrame DEF OnDurable
<1>12. CASE WriterReconnectTimer
  <2>1. engine' \in EngineType
    BY <1>12 DEF WriterReconnectTimer, TypeOK, EngineType, LinkStates
  <2>2. toWriter' \in Seq(WriterRequests)
    BY <1>12, AppendProperties DEF WriterReconnectTimer, TypeOK, WriterRequests
  <2>3. TypeOK'
    BY <1>12, <2>1, <2>2 DEF WriterReconnectTimer, TypeOK
  <2> QED  BY <1>12, <2>3, ShapeFrame DEF WriterReconnectTimer
<1>13. CASE WriterConnect
  <2>1. fromWriter' \in Seq(WriterResponses)
    BY <1>13, AppendProperties DEF WriterConnect, TypeOK, WriterResponses
  <2>2. TypeOK'
    BY <1>13, <2>1, WriterInType DEF WriterConnect, TypeOK, WriterStates
  <2> QED  BY <1>13, <2>2, ShapeFrame DEF WriterConnect
<1>14. CASE WriterDisconnect
  <2>1. fromWriter' \in Seq(WriterResponses)
    BY <1>14, AppendProperties DEF WriterDisconnect, TypeOK, WriterResponses
  <2>2. faults' \in 0 .. MaxFaults
    BY <1>14, ConstantsAssumption DEF WriterDisconnect, TypeOK
  <2>3. TypeOK'
    BY <1>14, <2>1, <2>2, WriterInType, LateAfterType DEF WriterDisconnect, TypeOK, WriterStates
  <2> QED  BY <1>14, <2>3, ShapeFrame DEF WriterDisconnect
<1>15. ASSUME NEW type, WriterReceives(type)
       PROVE  toWriter' \in Seq(WriterRequests)
  BY <1>15, HeadTailProperties DEF WriterReceives, TypeOK
<1>16. CASE WriterAppend
  <2>1. writer' \in WriterType /\ writer'.landed <= Len(writer'.pending)
    BY <1>16, SessionType
  <2>2. TypeOK'
    BY <1>15, <1>16, <2>1 DEF WriterAppend, TypeOK
  <2> QED  BY <1>16, <2>2, ShapeFrame DEF WriterAppend
<1>17. CASE WriterPanic
  <2>1. TypeOK'
    BY <1>15, <1>17, WriterInType, LateAfterType DEF WriterPanic, TypeOK, WriterStates
  <2> QED  BY <1>17, <2>1, ShapeFrame DEF WriterPanic
<1>18. CASE UploadDone
  <2>1. TypeOK'
    BY <1>18, SessionType DEF UploadDone, TypeOK
  <2> QED  BY <1>18, <2>1, ShapeFrame DEF UploadDone
<1>19. CASE WriterAck
  <2>1. Durable(Head(writer.pending)) \in WriterResponses
    BY <1>19, SessionType DEF WriterResponses
  <2>2. fromWriter' \in Seq(WriterResponses)
    BY <1>19, <2>1, AppendProperties DEF WriterAck, TypeOK
  <2>3. TypeOK'
    BY <1>19, <2>2, SessionType DEF WriterAck, TypeOK
  <2> QED  BY <1>19, <2>3, ShapeFrame DEF WriterAck
<1>20. CASE WriterDropAppend
  <2>1. TypeOK'
    BY <1>15, <1>20 DEF WriterDropAppend, TypeOK
  <2> QED  BY <1>20, <2>1, ShapeFrame DEF WriterDropAppend
<1>21. CASE WriterReconnect
  <2>1. TypeOK'
    BY <1>15, <1>21, WriterInType DEF WriterReconnect, TypeOK, WriterStates
  <2> QED  BY <1>21, <2>1, ShapeFrame DEF WriterReconnect
<1>22. CASE S2Land
  <2>1. log' \in Seq(Ids)
    BY <1>22, SessionType, AppendProperties DEF S2Land, TypeOK
  <2>2. TypeOK'
    BY <1>22, <2>1, SessionType DEF S2Land, TypeOK
  <2> QED  BY <1>22, <2>2, ShapeFrame DEF S2Land
<1>23. CASE S2Retry
  <2>1. faults' \in 0 .. MaxFaults
    BY <1>23, ConstantsAssumption DEF S2Retry, TypeOK
  <2>2. TypeOK'
    BY <1>23, <2>1, SessionType DEF S2Retry, TypeOK
  <2> QED  BY <1>23, <2>2, ShapeFrame DEF S2Retry
<1>24. CASE LateLand
  <2>1. PICK k \in DOMAIN late : /\ late[k] # <<>>
                                 /\ log' = Append(log, Head(late[k]))
                                 /\ late' = [late EXCEPT ![k] = Tail(@)]
    BY <1>24 DEF LateLand
  <2>2. late \in Seq(Seq(Ids)) /\ late[k] \in Seq(Ids) /\ k \in 1 .. Len(late)
    <3>1. late \in Seq(Seq(Ids))
      BY DEF TypeOK
    <3>2. k \in 1 .. Len(late)
      BY <2>1, <3>1, LenProperties
    <3> QED  BY <3>1, <3>2, ElementOfSeq
  <2>3. Head(late[k]) \in Ids /\ Tail(late[k]) \in Seq(Ids)
    BY <2>1, <2>2, HeadTailProperties
  <2>4. log' \in Seq(Ids)
    BY <2>1, <2>3, AppendProperties DEF TypeOK
  <2>5. late' \in Seq(Seq(Ids))
    BY <2>1, <2>2, <2>3, ExceptSeq
  <2>6. TypeOK'
    BY <1>24, <2>4, <2>5 DEF LateLand, TypeOK
  <2> QED  BY <1>24, <2>6, ShapeFrame DEF LateLand
<1>25. CASE Crash
  <2>1. faults' \in 0 .. MaxFaults
    BY <1>25, ConstantsAssumption DEF Crash, TypeOK
  <2>2. TypeOK'
    BY <1>25, <2>1, WriterInType, LateAfterType DEF Crash, TypeOK, WriterStates
  <2> QED  BY <1>25, <2>2, ShapeFrame DEF Crash
<1>26. CASE Restart
  <2>1. PICK lo \in 0 .. MaxId, mid \in 0 .. MaxId : OutboxShape(lo, mid)
    BY DEF ShapeInv
  <2>2. OutboxShape(lo, lo)'
    BY <1>26, <2>1 DEF Restart, OutboxShape, TypeOK
  <2>3. TypeOK'
    BY <1>26, EngineAtStartType, WriterInType, EmptySeq DEF Restart, TypeOK, WriterStates
  <2> QED  BY <2>2, <2>3 DEF ShapeInv
<1>27. CASE UNCHANGED vars
  BY <1>27, ShapeFrame DEF vars, TypeOK
<1> QED
  BY <1>1, <1>2, <1>3, <1>4, <1>5, <1>6, <1>7, <1>9, <1>10, <1>11, <1>12, <1>13,
     <1>14, <1>16, <1>17, <1>18, <1>19, <1>20, <1>21, <1>22, <1>23, <1>24, <1>25,
     <1>26, <1>27
     DEF Next, Semantic, Engine, Writer, Stream

\* Type correctness, and the shape of the outbox table, for every table size,
\* batch size and number of faults.
THEOREM TypeAndShape == Spec => [](TypeOK /\ ShapeInv)
<1>1. Init => TypeOK /\ ShapeInv
  BY InitShape
<1>2. TypeOK /\ ShapeInv /\ [Next]_vars => (TypeOK /\ ShapeInv)'
  BY NextShape
<1> QED  BY <1>1, <1>2, PTL DEF Spec

\* assert_contiguous_outbox_rows cannot fail, at any timing and with any faults.
THEOREM ReservationSafety == Spec => []ReservationsArePrefix
<1>1. TypeOK /\ ShapeInv => ReservationsArePrefix
  BY ConstantsAssumption DEF TypeOK, ShapeInv, OutboxShape, ReservationsArePrefix
<1> QED  BY <1>1, TypeAndShape, PTL
=============================================================================
