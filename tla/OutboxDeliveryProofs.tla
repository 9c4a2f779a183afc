------------------------ MODULE OutboxDeliveryProofs ------------------------
(***************************************************************************)
(* The outbox loses nothing, keeps the order of the ids on the log and     *)
(* implements OutboxDelivery, for every value of the constants, provided   *)
(* that PromptReads holds.  DeliveryInv is inductive; there is one lemma for *)
(* each action, and most of what it needs is in OutboxFacts.               *)
(***************************************************************************)
EXTENDS OutboxFacts

(* The state, and what each part of the invariant depends on.              *)

\* What the type invariant says of the parts.
LEMMA Types ==
    ASSUME TypeOK
    PROVE  /\ nextId \in Nat /\ MaxId \in Nat /\ nextId <= MaxId
           /\ engine \in EngineType /\ engine.requests \in Seq(SemanticRequests)
           /\ \A r \in replies : r \in SemanticReplies
           /\ \A r \in replies : r.first \in Int /\ r.last \in Int
           /\ toWriter \in Seq(WriterRequests) /\ fromWriter \in Seq(WriterResponses)
           /\ writer \in WriterType
           /\ writer.expected \in Int /\ writer.upload \in Int /\ writer.landed \in Nat
           /\ writer.pending \in Seq(Ids) /\ writer.landed <= Len(writer.pending)
           /\ late \in Seq(Seq(Ids)) /\ log \in Seq(Ids)
<1> USE IdsAreNats
<1>1. nextId \in Nat /\ MaxId \in Nat /\ nextId <= MaxId
  BY ConstantsAssumption DEF TypeOK
<1>2. engine \in EngineType /\ engine.requests \in Seq(SemanticRequests)
  BY DEF TypeOK, EngineType
<1>3. \A r \in replies : r \in SemanticReplies
  BY DEF TypeOK
<1>4. \A r \in replies : r.first \in Int /\ r.last \in Int
  BY <1>3, MessageFields
<1>5. writer.expected \in (0 .. MaxId) \cup {NoId} /\ writer.upload \in Ids \cup {NoId}
  BY DEF TypeOK, WriterType
<1>6. writer.expected \in Int /\ writer.upload \in Int
  BY <1>1, <1>5
<1> QED  BY <1>1, <1>2, <1>3, <1>4, <1>6 DEF TypeOK, WriterType

\* LogInOrder after a record whose predecessors are on the log.
LEMMA LogInOrderAppend ==
    ASSUME TypeOK, LogInOrder, NEW x \in Ids, AllOn(log, x), log' = Append(log, x)
    PROVE  LogInOrder'
<1>1. /\ Len(Append(log, x)) = Len(log) + 1
      /\ \A i \in 1 .. Len(log) : Append(log, x)[i] = log[i]
      /\ Append(log, x)[Len(log) + 1] = x /\ Len(log) \in Nat
      /\ DOMAIN log = 1 .. Len(log) /\ DOMAIN Append(log, x) = 1 .. Len(log) + 1
  BY AppendProperties, LenProperties DEF TypeOK
<1> SUFFICES ASSUME NEW k \in 1 .. Len(log) + 1, NEW id \in 0 .. Append(log, x)[k] - 1
             PROVE  \E j \in 1 .. k - 1 : Append(log, x)[j] = id
  BY <1>1 DEF LogInOrder
<1>2. CASE k \in 1 .. Len(log)
  <2>1. id \in 0 .. log[k] - 1
    BY <1>1, <1>2
  <2>2. PICK j \in 1 .. k - 1 : log[j] = id
    BY <1>1, <1>2, <2>1 DEF LogInOrder
  <2>3. j \in 1 .. Len(log)
    BY <1>1, <1>2
  <2> QED  BY <1>1, <2>2, <2>3
<1>3. CASE k = Len(log) + 1
  <2>1. id \in Range(log)
    BY <1>1, <1>3 DEF AllOn
  <2>2. PICK j \in 1 .. Len(log) : log[j] = id
    BY <1>1, <2>1 DEF Range
  <2> QED  BY <1>1, <1>3, <2>2
<1> QED  BY <1>1, <1>2, <1>3

\* A part of the invariant survives a step that leaves alone what it is about.
LEMMA Frames ==
    ASSUME DeliveryInv
    PROVE  /\ UNCHANGED <<late, log>> => LateInv'
           /\ UNCHANGED <<writer, up, log>> => SessionInv'
           /\ UNCHANGED log => LogInOrder'
           /\ UNCHANGED <<fromWriter, log>> /\ engine'.requests = engine.requests => AckInv'
           /\ UNCHANGED <<replies, toWriter, writer, late, nextId>> => BoundsInv'
           /\ UNCHANGED <<writer, toWriter, fromWriter>> /\ engine'.link = engine.link /\ up
                 => LinkInv'
           /\ UNCHANGED <<engine, replies, reserved>> /\ up => RequestInv'
<1>1. UNCHANGED <<late, log>> => LateInv'
  BY DEF DeliveryInv, LateInv
<1>2. UNCHANGED <<writer, up, log>> => SessionInv'
  BY DEF DeliveryInv, SessionInv
<1>3. UNCHANGED log => LogInOrder'
  BY DEF DeliveryInv, LogInOrder
<1>4. UNCHANGED <<fromWriter, log>> /\ engine'.requests = engine.requests => AckInv'
  BY DEF DeliveryInv, AckInv
<1>5. UNCHANGED <<replies, toWriter, writer, late, nextId>> => BoundsInv'
  BY DEF DeliveryInv, BoundsInv
<1>6. UNCHANGED <<writer, toWriter, fromWriter>> /\ engine'.link = engine.link /\ up
         => LinkInv'
  BY DEF DeliveryInv, LinkInv
<1>7. UNCHANGED <<engine, replies, reserved>> /\ up => RequestInv'
  BY DEF DeliveryInv, RequestInv
<1> QED  BY <1>1, <1>2, <1>3, <1>4, <1>5, <1>6, <1>7

\* The chain of appends survives a step that leaves the session alone.
LEMMA ChainFrame ==
    ASSUME NEW mid, ChainInv(mid), UNCHANGED <<writer, toWriter, replies, log>>, up,
           engine'.link = engine.link, engine'.releaseInFlight = engine.releaseInFlight
    PROVE  ChainInv(mid)'
BY DEF ChainInv

\* The table survives a step that leaves the database and the log alone.
LEMMA TableFrame ==
    ASSUME TableInv, UNCHANGED <<rows, reserved, nextId, log>>,
           \A mid \in 0 .. MaxId : ChainInv(mid) => ChainInv(mid)'
    PROVE  TableInv'
<1>1. PICK lo \in 0 .. MaxId, mid \in 0 .. MaxId : Table(lo, mid)
  BY DEF TableInv
<1>2. Table(lo, mid)'
  BY <1>1 DEF Table, OutboxShape
<1> QED  BY <1>2 DEF TableInv

\* The shape of the table does not depend on the chain when no session is known.
LEMMA TableNoSession ==
    ASSUME DeliveryInv, UNCHANGED <<rows, reserved, nextId, log>>,
           ~(up' /\ writer'.state = "connected" /\ engine'.link = "Online")
    PROVE  TableInv'
<1>1. \A mid \in 0 .. MaxId : ChainInv(mid)'
  BY DEF ChainInv
<1> QED  BY <1>1, TableFrame DEF DeliveryInv

\* Nothing reserved: the reservation frontier is the start of the table.
LEMMA NothingReserved ==
    ASSUME TypeOK, NEW lo \in 0 .. MaxId, NEW mid \in 0 .. MaxId, Table(lo, mid), reserved = {}
    PROVE  AllOn(log, mid)
<1>0. lo \in Int /\ mid \in Int
  BY Types
<1>1. lo <= mid /\ lo .. mid - 1 = {} /\ AllOn(log, lo)
  BY DEF Table, OutboxShape
<1>2. lo = mid
  <2>1. lo < mid => lo \in lo .. mid - 1
    BY <1>0
  <2> QED  BY <1>0, <1>1, <2>1
<1> QED  BY <1>1, <1>2

\* The end of a session: its records are on their own (LateAfter).
LEMMA SessionEnds ==
    ASSUME DeliveryInv, writer' = WriterIn("waiting"), late' = LateAfter,
           UNCHANGED <<log, nextId, replies>>,
           \A i \in 1 .. Len(toWriter') : toWriter'[i].id < nextId
    PROVE  LateInv' /\ SessionInv' /\ BoundsInv'
<1>1. /\ TypeOK /\ LateInv /\ SessionInv /\ BoundsInv
  BY DEF DeliveryInv
<1>2. /\ writer \in WriterType /\ writer.landed <= Len(writer.pending)
      /\ nextId \in Nat /\ late \in Seq(Seq(Ids)) /\ writer.pending \in Seq(Ids)
      /\ writer.landed \in Nat
  BY <1>1, Types
<1>3. Continues(Unlanded, log) /\ \A i \in 1 .. Len(Unlanded) : Unlanded[i] < nextId
  <2>1. Session(writer, log) /\ \A i \in 1 .. Len(writer.pending) : writer.pending[i] < nextId
    BY <1>1 DEF SessionInv, BoundsInv
  <2>2. PICK u : u = SubSeq(writer.pending, writer.landed + 1, Len(writer.pending))
    OBVIOUS
  <2>3. nextId \in Int
    BY <1>2
  <2>4. Continues(u, log) /\ \A i \in 1 .. Len(u) : u[i] < nextId
    BY <1>2, <2>1, <2>2, <2>3, UnlandedContinues
  <2> QED  BY <2>2, <2>4 DEF Unlanded
<1>4. Unlanded \in Seq(Ids)
  <2>1. \A i \in writer.landed + 1 .. Len(writer.pending) : writer.pending[i] \in Ids
    BY <1>2
  <2>2. writer.landed + 1 \in Int /\ Len(writer.pending) \in Int
    BY <1>2
  <2> QED  BY <2>1, <2>2, SubSeqProperties DEF Unlanded
<1>5. \A k \in 1 .. Len(late') :
         Continues(late'[k], log) /\ \A i \in 1 .. Len(late'[k]) : late'[k][i] < nextId
  <2>1. \A k \in 1 .. Len(late) :
           Continues(late[k], log) /\ \A i \in 1 .. Len(late[k]) : late[k][i] < nextId
    BY <1>1 DEF LateInv, BoundsInv
  <2>2. CASE Unlanded = <<>>
    BY <2>1, <2>2 DEF LateAfter
  <2>3. CASE Unlanded # <<>>
    <3>1. late' = Append(late, Unlanded)
      BY <2>3 DEF LateAfter
    <3>2. /\ Len(late) \in Nat /\ Len(late') = Len(late) + 1
          /\ \A k \in 1 .. Len(late) : late'[k] = late[k]
          /\ late'[Len(late) + 1] = Unlanded
      BY <1>2, <1>4, <3>1, AppendFacts
    <3>3. \A k \in 1 .. Len(late') : k \in 1 .. Len(late) \/ k = Len(late) + 1
      BY <3>2
    <3> QED  BY <1>3, <2>1, <3>2, <3>3
  <2> QED  BY <2>2, <2>3
<1>6. LateInv'
  BY <1>5 DEF LateInv
<1>7. /\ writer'.state = "waiting" /\ writer'.expected = NoId /\ writer'.upload = NoId
      /\ writer'.pending = <<>> /\ Session(writer', log)
  BY FreshSession
<1>8. SessionInv'
  BY <1>7 DEF SessionInv
<1>9. BoundsInv'
  <2>1. NoId < nextId /\ NoId <= nextId
    BY <1>2, IdsAreNats
  <2>2. \A i \in 1 .. Len(writer'.pending) : writer'.pending[i] < nextId
    BY <1>7
  <2> QED  BY <1>1, <1>5, <1>7, <2>1, <2>2 DEF BoundsInv
<1> QED  BY <1>6, <1>8, <1>9
-----------------------------------------------------------------------------
(* The semantic actor's steps.                                             *)

\* A committed mutation adds rows at the end of the table.
LEMMA CommitMutationDelivery ==
    ASSUME DeliveryInv, TypeOK', NEW n \in 1 .. MaxMint, CommitMutation(n)
    PROVE  DeliveryInv'
<1> USE DEF writerVars, netVars
<1>0. TypeOK /\ BoundsInv /\ up
  BY DEF DeliveryInv, CommitMutation
<1>1. n \in Nat /\ nextId \in Nat /\ nextId' = nextId + n
  BY <1>0, ConstantsAssumption, Types DEF CommitMutation
<1>2. BoundsInv'
  <2>1. UNCHANGED <<replies, toWriter, writer, late>>
    BY DEF CommitMutation
  <2>2. \A x \in Int : x < nextId => x < nextId'
    BY <1>1
  <2>3. \A x \in Int : x <= nextId => x <= nextId'
    BY <1>1
  <2>4. /\ \A r \in Reads(replies) : r.last \in Int
        /\ \A i \in 1 .. Len(toWriter) : toWriter[i].id \in Int
        /\ \A i \in 1 .. Len(writer.pending) : writer.pending[i] \in Int
        /\ \A k \in 1 .. Len(late) : \A i \in 1 .. Len(late[k]) : late[k][i] \in Int
        /\ writer.expected \in Int /\ writer.upload \in Int
    <3>1. \A i \in 1 .. Len(toWriter) : toWriter[i] \in WriterRequests
      BY <1>0, Types
    <3>2. \A k \in 1 .. Len(late) : late[k] \in Seq(Ids)
      BY <1>0, Types
    <3>3. \A i \in 1 .. Len(writer.pending) : writer.pending[i] \in Ids
      BY <1>0, Types
    <3>4. \A k \in 1 .. Len(late) : \A i \in 1 .. Len(late[k]) : late[k][i] \in Ids
      BY <3>2
    <3>5. \A r \in Reads(replies) : r.last \in Int
      BY <1>0, Types DEF Reads
    <3>6. \A i \in 1 .. Len(toWriter) : toWriter[i].id \in Int
      BY <3>1, MessageFields
    <3>7. \A x \in Ids : x \in Int
      BY IdsAreNats
    <3>8. writer.expected \in Int /\ writer.upload \in Int
      BY <1>0, Types
    <3> HIDE DEF writerVars, netVars
    <3> QED  BY <3>3, <3>4, <3>5, <3>6, <3>7, <3>8
  <2> QED  BY <1>0, <2>1, <2>2, <2>3, <2>4 DEF BoundsInv
<1>3. /\ AckInv' /\ LateInv' /\ SessionInv' /\ LogInOrder' /\ (up' => LinkInv')
      /\ (up' => RequestInv')
  BY Frames DEF CommitMutation
<1>5. TableInv'
  <2>1. PICK lo \in 0 .. MaxId, mid \in 0 .. MaxId : Table(lo, mid)
    BY DEF TableInv, DeliveryInv
  <2>2. rows' = lo .. nextId' - 1
    BY <1>1, <2>1 DEF CommitMutation, OutboxShape, Table
  <2>3. OutboxShape(lo, mid)' /\ AllOn(log', lo)
    BY <1>1, <2>1, <2>2 DEF CommitMutation, OutboxShape, Table
  <2>4. ChainInv(mid)'
    BY <1>0, <2>1, ChainFrame DEF CommitMutation, Table
  <2> QED  BY <2>3, <2>4 DEF TableInv, Table
<1> QED  BY <1>2, <1>3, <1>5 DEF DeliveryInv

\* What taking a request off the mailbox does to the engine's record.
LEMMA TakeRequestFacts ==
    ASSUME TypeOK, NEW type, TakeRequest(type)
    PROVE  /\ engine'.link = engine.link
           /\ engine'.readInFlight = engine.readInFlight
           /\ engine'.releaseInFlight = engine.releaseInFlight
           /\ engine'.releaseRequested = engine.releaseRequested
           /\ engine'.reconnectTimer = engine.reconnectTimer
           /\ engine'.requests = Tail(engine.requests)
           /\ engine.requests \in Seq(SemanticRequests) /\ engine.requests # <<>>
           /\ Head(engine.requests).type = type
           /\ HasRequest(engine.requests, type)
           /\ \A t : HasRequest(engine'.requests, t) => HasRequest(engine.requests, t)
           /\ \A l : TrimsOn(engine.requests, l) => TrimsOn(engine'.requests, l)
           /\ up
<1>1. engine.requests \in Seq(SemanticRequests) /\ engine.requests # <<>>
  BY DEF TypeOK, EngineType, TakeRequest
<1>2. engine'.requests = Tail(engine.requests) /\ Head(engine.requests).type = type
  BY DEF TakeRequest, TypeOK, EngineType
<1> QED  BY <1>1, <1>2, MailboxTail DEF TakeRequest, TypeOK, EngineType

\* reserve_outbox_messages moves the reservation frontier, and its answer carries
\* exactly the rows between the old one and the new one.
LEMMA ReadOutboxDelivery ==
    ASSUME DeliveryInv, TypeOK', ReadOutbox
    PROVE  DeliveryInv'
<1> USE DEF writerVars, netVars
<1>1. TypeOK /\ RequestInv /\ LinkInv /\ BoundsInv /\ AckInv /\ up /\ TakeRequest("ReadOutbox")
  BY DEF ReadOutbox, DeliveryInv, TakeRequest
<1>2. /\ engine'.link = engine.link /\ engine'.readInFlight = engine.readInFlight
      /\ engine'.releaseInFlight = engine.releaseInFlight
      /\ engine'.releaseRequested = engine.releaseRequested
      /\ engine'.reconnectTimer = engine.reconnectTimer
      /\ engine'.requests = Tail(engine.requests)
      /\ HasRequest(engine.requests, "ReadOutbox")
      /\ \A t : HasRequest(engine'.requests, t) => HasRequest(engine.requests, t)
      /\ \A l : TrimsOn(engine.requests, l) => TrimsOn(engine'.requests, l)
  BY <1>1, TakeRequestFacts
<1>3. PICK lo \in 0 .. MaxId, mid \in 0 .. MaxId : Table(lo, mid)
  BY DEF TableInv, DeliveryInv
<1>4. /\ lo \in Nat /\ mid \in Nat /\ nextId \in Nat /\ nextId <= MaxId /\ MaxId \in Nat
      /\ OutboxShape(lo, mid)
  BY <1>1, <1>3, Types DEF Table
<1>5. PICK end \in mid .. nextId : /\ Selected = mid .. end - 1
                                   /\ (Selected = {}) <=> (mid = nextId)
  BY <1>4, SelectedInterval
<1>6. Contiguous(Selected)
  BY <1>4, <1>5, IntervalContiguous
<1>7. engine.readInFlight /\ Reads(replies) = {} /\ ReleaseReply \notin replies
  BY <1>1, <1>2 DEF RequestInv, Requested
<1>8. /\ up' /\ reserved' = reserved \cup Selected /\ rows' = rows /\ nextId' = nextId
      /\ UNCHANGED <<writer, toWriter, fromWriter, log, late>>
  BY <1>1, <1>6 DEF ReadOutbox
<1>9. PICK reply :
         /\ replies' = replies \cup {reply} /\ reply.type = "ReadOutbox"
         /\ \/ mid = end /\ reply.first = 0 /\ reply.last = -1
            \/ reply.first = mid /\ reply.last = end - 1 /\ mid <= end - 1
  <2>1. CASE Selected = {}
    <3> DEFINE r == ReadReply(0, NoId)
    <3>1. replies' = replies \cup {r}
      BY <2>1 DEF ReadOutbox
    <3>2. r.first = 0 /\ r.last = -1 /\ r.type = "ReadOutbox"
      BY DEF ReadReply, NoId
    <3>3. mid = end
      BY <1>4, <1>5, <2>1
    <3> QED  BY <3>1, <3>2, <3>3
  <2>2. CASE Selected # {}
    <3> DEFINE r == ReadReply(First(Selected), Last(Selected))
    <3>1. replies' = replies \cup {r}
      BY <2>2 DEF ReadOutbox
    <3>2. mid <= end - 1 /\ mid \in Int /\ end - 1 \in Int
      BY <1>4, <1>5, <2>2
    <3>3. First(Selected) = mid /\ Last(Selected) = end - 1
      BY <1>5, <3>2, EndsOfInterval
    <3>4. r.first = mid /\ r.last = end - 1 /\ r.type = "ReadOutbox"
      BY <3>3 DEF ReadReply
    <3> QED  BY <3>1, <3>2, <3>4
  <2> QED  BY <2>1, <2>2
<1>10. Reads(replies') = {reply}
  BY <1>7, <1>9 DEF Reads
<1>11. reply.last < nextId
  BY <1>4, <1>5, <1>9
<1>12. BoundsInv'
  BY <1>1, <1>8, <1>10, <1>11 DEF BoundsInv
<1>13. LateInv' /\ SessionInv' /\ LogInOrder' /\ LinkInv'
  BY <1>1, <1>2, <1>8, Frames
<1>14. AckInv'
  BY <1>1, <1>2, <1>8 DEF AckInv
<1>15. ReleaseReply \notin replies'
  BY <1>7, <1>9 DEF ReleaseReply
<1>16. Mailbox(engine'.requests) /\ ~HasRequest(engine'.requests, "ReadOutbox")
  <2>1. Mailbox(engine.requests)
    BY <1>1 DEF RequestInv, Requested
  <2>2. /\ engine.requests \in Seq(SemanticRequests) /\ engine.requests # <<>>
        /\ Head(engine.requests).type = "ReadOutbox"
    BY <1>1, TakeRequestFacts
  <2> QED  BY <1>2, <2>1, <2>2, MailboxTail
<1>17. engine.link # "Online" => engine.releaseInFlight
  BY <1>1, <1>2 DEF RequestInv, Settled
<1>18. RequestInv'
  <2>1. Requested(engine', replies', reserved')
    BY <1>1, <1>2, <1>7, <1>10, <1>15, <1>16 DEF RequestInv, Requested
  <2>2. Settled(engine', reserved')
    BY <1>2, <1>17 DEF Settled
  <2> QED  BY <2>1, <2>2 DEF RequestInv
<1>19. TableInv'
  <2>1. OutboxShape(lo, end)' /\ AllOn(log', lo)
    <3>1. (lo .. mid - 1) \cup (mid .. end - 1) = lo .. end - 1
      BY <1>4, <1>5 DEF OutboxShape
    <3> QED  BY <1>3, <1>4, <1>5, <1>8, <3>1 DEF OutboxShape, Table
  <2>2. ChainInv(end)'
    <3> SUFFICES ASSUME writer.state = "connected", engine.link = "Online"
                 PROVE  Chain(end, writer, engine.releaseInFlight, toWriter, replies', log)
      BY <1>2, <1>8 DEF ChainInv
    <3>1. ~engine.releaseInFlight
      BY <1>1, <1>7 DEF RequestInv, Requested
    <3>2. Chain(mid, writer, engine.releaseInFlight, toWriter, replies, log)
      BY <1>1, <1>3 DEF Table, ChainInv
    <3>3. SentUpTo(mid, writer, toWriter, log)
      BY <1>7, <3>1, <3>2 DEF Chain
    <3>4. CASE mid = end /\ reply.first = 0 /\ reply.last = -1
      <4>1. /\ SentUpTo(end, writer, toWriter, log)
            /\ \A r \in Reads(replies') : ~(r.first <= r.last)
        BY <1>10, <3>3, <3>4
      <4> QED  BY <3>1, <3>2, <4>1 DEF Chain
    <3>5. CASE reply.first = mid /\ reply.last = end - 1 /\ mid <= end - 1
      <4>1. mid \in Int /\ end \in Int
        BY <1>4, <1>5
      <4>2. /\ \A r \in Reads(replies') :
                  r.last + 1 = end /\ SentUpTo(r.first, writer, toWriter, log)
            /\ ~(\A r \in Reads(replies') : r.last < r.first)
        BY <1>10, <3>3, <3>5, <4>1
      <4> QED  BY <3>1, <3>2, <4>2 DEF Chain
    <3> QED  BY <1>9, <3>4, <3>5
  <2>3. end \in 0 .. MaxId
    BY <1>4, <1>5
  <2> QED  BY <2>1, <2>2, <2>3 DEF TableInv, Table
<1> QED  BY <1>12, <1>13, <1>14, <1>18, <1>19 DEF DeliveryInv

\* release_outbox_messages: nothing is reserved any more.
LEMMA ReleaseOutboxDelivery ==
    ASSUME DeliveryInv, TypeOK', ReleaseOutbox
    PROVE  DeliveryInv'
<1> USE DEF writerVars, netVars
<1>1. TypeOK /\ RequestInv /\ LinkInv /\ BoundsInv /\ AckInv /\ up /\ TakeRequest("ReleaseOutbox")
  BY DEF ReleaseOutbox, DeliveryInv, TakeRequest
<1>2. /\ engine'.link = engine.link /\ engine'.readInFlight = engine.readInFlight
      /\ engine'.releaseInFlight = engine.releaseInFlight
      /\ engine'.releaseRequested = engine.releaseRequested
      /\ engine'.reconnectTimer = engine.reconnectTimer
      /\ engine'.requests = Tail(engine.requests)
      /\ HasRequest(engine.requests, "ReleaseOutbox")
      /\ \A t : HasRequest(engine'.requests, t) => HasRequest(engine.requests, t)
      /\ \A l : TrimsOn(engine.requests, l) => TrimsOn(engine'.requests, l)
  BY <1>1, TakeRequestFacts
<1>3. engine.releaseInFlight
  BY <1>1, <1>2 DEF RequestInv, Requested
<1>4. /\ up' /\ reserved' = {} /\ replies' = replies \cup {ReleaseReply}
      /\ UNCHANGED <<rows, nextId, writer, toWriter, fromWriter, log, late>>
  BY <1>1 DEF ReleaseOutbox
<1>5. Reads(replies') = Reads(replies)
  BY <1>4 DEF Reads, ReleaseReply
<1>6. BoundsInv'
  BY <1>1, <1>4, <1>5 DEF BoundsInv
<1>7. LateInv' /\ SessionInv' /\ LogInOrder' /\ LinkInv'
  BY <1>1, <1>2, <1>4, Frames
<1>8. AckInv'
  BY <1>1, <1>2, <1>4 DEF AckInv
<1>9. /\ Mailbox(engine'.requests) /\ ~HasRequest(engine'.requests, "ReadOutbox")
      /\ ~HasRequest(engine'.requests, "ReleaseOutbox")
  <2>1. Mailbox(engine.requests)
    BY <1>1 DEF RequestInv, Requested
  <2>2. /\ engine.requests \in Seq(SemanticRequests) /\ engine.requests # <<>>
        /\ Head(engine.requests).type = "ReleaseOutbox"
    BY <1>1, TakeRequestFacts
  <2> QED  BY <1>2, <2>1, <2>2, MailboxTail
<1>10. RequestInv'
  <2>1. Requested(engine', replies', reserved')
    BY <1>1, <1>2, <1>3, <1>4, <1>5, <1>9 DEF RequestInv, Requested
  <2>2. Settled(engine', reserved')
    BY <1>2, <1>3 DEF Settled
  <2> QED  BY <2>1, <2>2 DEF RequestInv
<1>11. TableInv'
  <2>1. PICK lo \in 0 .. MaxId, mid \in 0 .. MaxId : Table(lo, mid)
    BY DEF TableInv, DeliveryInv
  <2>2. OutboxShape(lo, lo)' /\ AllOn(log', lo)
    <3>1. lo \in Nat /\ mid \in Nat /\ nextId \in Nat
      BY <1>1, Types
    <3>2. lo .. lo - 1 = {}
      BY <3>1
    <3>3. lo <= nextId
      BY <2>1, <3>1 DEF OutboxShape, Table
    <3>4. rows = lo .. nextId - 1 /\ AllOn(log, lo)
      BY <2>1 DEF OutboxShape, Table
    <3> QED  BY <1>4, <3>1, <3>2, <3>3, <3>4 DEF OutboxShape
  <2>3. ChainInv(lo)'
    <3> SUFFICES ASSUME writer.state = "connected", engine.link = "Online"
                 PROVE  Chain(lo, writer, engine.releaseInFlight, toWriter, replies', log)
      BY <1>2, <1>4 DEF ChainInv
    <3>1. Chain(mid, writer, engine.releaseInFlight, toWriter, replies, log)
      BY <1>1, <2>1 DEF Table, ChainInv
    <3> QED  BY <1>3, <3>1 DEF Chain
  <2> QED  BY <2>2, <2>3 DEF TableInv, Table
<1> QED  BY <1>6, <1>7, <1>8, <1>10, <1>11 DEF DeliveryInv

\* trim_outbox deletes only rows the log holds.
LEMMA TrimOutboxDelivery ==
    ASSUME DeliveryInv, TypeOK', TrimOutbox
    PROVE  DeliveryInv'
<1> USE DEF writerVars, netVars
<1>1. TypeOK /\ RequestInv /\ LinkInv /\ BoundsInv /\ AckInv /\ up /\ TakeRequest("TrimOutbox")
  BY DEF TrimOutbox, DeliveryInv, TakeRequest
<1>2. /\ engine'.link = engine.link /\ engine'.readInFlight = engine.readInFlight
      /\ engine'.releaseInFlight = engine.releaseInFlight
      /\ engine'.releaseRequested = engine.releaseRequested
      /\ engine'.reconnectTimer = engine.reconnectTimer
      /\ engine'.requests = Tail(engine.requests)
      /\ \A t : HasRequest(engine'.requests, t) => HasRequest(engine.requests, t)
      /\ \A l : TrimsOn(engine.requests, l) => TrimsOn(engine'.requests, l)
  BY <1>1, TakeRequestFacts
<1>3. UNCHANGED <<up, nextId, replies, writer, toWriter, fromWriter, log, late>>
  BY DEF TrimOutbox
<1>4. BoundsInv' /\ LateInv' /\ SessionInv' /\ LogInOrder' /\ LinkInv'
  BY <1>1, <1>2, <1>3, Frames
<1>5. AckInv'
  BY <1>1, <1>2, <1>3 DEF AckInv
<1>6. /\ engine.requests \in Seq(SemanticRequests) /\ engine.requests # <<>>
      /\ Head(engine.requests).type = "TrimOutbox"
  BY <1>1, TakeRequestFacts
<1> DEFINE t == Head(engine.requests).through
<1>7. AllOn(log, t + 1) /\ t \in Int
  <2>1. Head(engine.requests) \in SemanticRequests
    BY <1>6
  <2> QED  BY <1>1, <1>6, <2>1, MailboxTail, MessageFields DEF AckInv
<1>8. PICK lo \in 0 .. MaxId, mid \in 0 .. MaxId : Table(lo, mid)
  BY DEF TableInv, DeliveryInv
<1>9. /\ lo \in Nat /\ mid \in Nat /\ nextId \in Nat /\ lo <= mid /\ mid <= nextId
      /\ MaxId \in Nat
      /\ rows = lo .. nextId - 1 /\ reserved = lo .. mid - 1 /\ AllOn(log, lo)
  BY <1>1, <1>8, Types DEF Table, OutboxShape
<1> HIDE DEF t
<1>10. PICK cut \in lo .. mid :
          /\ {id \in reserved : id <= t} = lo .. cut - 1
          /\ cut = lo \/ cut <= t + 1
  <2>1. CASE t < lo
    <3>1. {id \in reserved : id <= t} = lo .. lo - 1
      BY <1>7, <1>9, <2>1
    <3> QED  BY <1>9, <3>1
  <2>2. CASE lo <= t /\ t < mid
    <3>1. {id \in reserved : id <= t} = lo .. (t + 1) - 1
      BY <1>7, <1>9, <2>2
    <3>2. t + 1 \in lo .. mid
      BY <1>7, <1>9, <2>2
    <3> QED  BY <1>7, <3>1, <3>2
  <2>3. CASE mid <= t
    <3>1. {id \in reserved : id <= t} = lo .. mid - 1
      BY <1>7, <1>9, <2>3
    <3>2. mid \in lo .. mid /\ mid <= t + 1
      BY <1>7, <1>9, <2>3
    <3> QED  BY <3>1, <3>2
  <2> QED  BY <1>7, <1>9, <2>1, <2>2, <2>3
<1>11. rows' = cut .. nextId - 1 /\ reserved' = cut .. mid - 1
  <2>1. rows' = rows \ (lo .. cut - 1) /\ reserved' = reserved \ (lo .. cut - 1)
    BY <1>10 DEF TrimOutbox, t
  <2> QED  BY <1>9, <1>10, <2>1
<1>12. AllOn(log, cut)
  BY <1>7, <1>9, <1>10, AllOnDown
<1>13. TableInv'
  <2>1. OutboxShape(cut, mid)'
    BY <1>3, <1>9, <1>10, <1>11 DEF OutboxShape
  <2>2. ChainInv(mid)'
    BY <1>1, <1>2, <1>3, <1>8, ChainFrame DEF Table
  <2>3. cut \in 0 .. MaxId
    BY <1>9, <1>10
  <2> QED  BY <1>3, <1>12, <2>1, <2>2, <2>3 DEF TableInv, Table
<1>14. RequestInv'
  <2>1. reserved = {} => reserved' = {}
    BY DEF TrimOutbox
  <2>2. Mailbox(engine'.requests)
    BY <1>1, <1>2, <1>6, MailboxTail DEF RequestInv, Requested
  <2>3. Requested(engine', replies', reserved')
    BY <1>1, <1>2, <1>3, <2>1, <2>2 DEF RequestInv, Requested
  <2>4. Settled(engine', reserved')
    BY <1>1, <1>2, <2>1 DEF RequestInv, Settled
  <2> QED  BY <2>3, <2>4 DEF RequestInv
<1> QED  BY <1>4, <1>5, <1>13, <1>14 DEF DeliveryInv
-----------------------------------------------------------------------------
(* The engine's steps.                                                     *)

\* A step of the engine's bookkeeping that touches neither link nor release.
LEMMA BookkeepingStep ==
    ASSUME DeliveryInv, TypeOK', up, up',
           UNCHANGED <<rows, reserved, nextId, writer, toWriter, fromWriter, log, late, replies>>,
           engine'.link = engine.link, engine'.releaseInFlight = engine.releaseInFlight,
           Requested(engine', replies, reserved), Settled(engine', reserved),
           TrimsOn(engine'.requests, log)
    PROVE  DeliveryInv'
<1>1. BoundsInv' /\ LateInv' /\ SessionInv' /\ LogInOrder' /\ LinkInv'
  BY Frames
<1>2. AckInv'
  BY DEF DeliveryInv, AckInv
<1>3. RequestInv'
  BY DEF RequestInv
<1>4. TableInv'
  BY TableFrame, ChainFrame DEF DeliveryInv
<1> QED  BY <1>1, <1>2, <1>3, <1>4 DEF DeliveryInv

\* Committed messages ask for a read.
LEMMA OnOutboxReadyDelivery ==
    ASSUME DeliveryInv, TypeOK', OnOutboxReady
    PROVE  DeliveryInv'
<1> USE DEF writerVars, netVars, dbVars
<1> DEFINE e == [engine EXCEPT !.readRequested = TRUE]
<1>1. TypeOK /\ RequestInv /\ AckInv /\ up
  BY DEF DeliveryInv, OnOutboxReady
<1>2. /\ e \in EngineType /\ e.link = engine.link /\ e.readInFlight = engine.readInFlight
      /\ e.releaseInFlight = engine.releaseInFlight
      /\ e.releaseRequested = engine.releaseRequested
      /\ e.reconnectTimer = engine.reconnectTimer /\ e.requests = engine.requests
  BY <1>1, Types DEF EngineType
<1>3. engine' = MaybeStartRead(e)
  BY DEF OnOutboxReady, RequestRead
<1> HIDE DEF e
<1>4. Requested(e, replies, reserved) /\ Settled(e, reserved) /\ TrimsOn(e.requests, log)
  BY <1>1, <1>2 DEF RequestInv, Requested, Settled, AckInv
<1>5. /\ Requested(engine', replies, reserved) /\ Settled(engine', reserved)
      /\ TrimsOn(engine'.requests, log)
  BY <1>2, <1>3, <1>4, MaybeStartReadKeeps
<1>6. engine'.link = engine.link /\ engine'.releaseInFlight = engine.releaseInFlight
  BY <1>2, <1>3, MaybeStartReadFields
<1> QED  BY <1>1, <1>5, <1>6, BookkeepingStep DEF OnOutboxReady

\* The rows of an answer are handed to the session that stands exactly before
\* them, or their reservation is given up.
LEMMA OnReadReplyDelivery ==
    ASSUME DeliveryInv, TypeOK', OnReadReply
    PROVE  DeliveryInv'
<1> USE DEF writerVars, netVars, dbVars
<1>1. TypeOK /\ RequestInv /\ LinkInv /\ BoundsInv /\ AckInv /\ up
  BY DEF OnReadReply, DeliveryInv
<1>2. PICK r \in replies :
         LET any  == r.first <= r.last
             done == [engine EXCEPT !.readInFlight = FALSE]
             sent == IF any /\ engine.link # "Online" THEN RequestRelease(done) ELSE done
         IN  /\ r.type = "ReadOutbox" /\ replies' = replies \ {r}
             /\ toWriter' = IF engine.link = "Online"
                            THEN toWriter \o Appends(r.first, r.last) ELSE toWriter
             /\ engine' = MaybeStartRead([sent EXCEPT !.readRequested = @ \/ any])
  BY DEF OnReadReply
<1> DEFINE any  == r.first <= r.last
           done == [engine EXCEPT !.readInFlight = FALSE]
           sent == IF any /\ engine.link # "Online" THEN RequestRelease(done) ELSE done
           m    == [sent EXCEPT !.readRequested = @ \/ any]
<1>3. /\ UNCHANGED <<up, rows, reserved, nextId, writer, fromWriter, log, late>>
  BY DEF OnReadReply
<1>4. /\ r \in Reads(replies) /\ Reads(replies') = {} /\ engine.readInFlight
      /\ ~HasRequest(engine.requests, "ReadOutbox")
      /\ ReleaseReply \in replies' <=> ReleaseReply \in replies
  <2>1. r \in Reads(replies)
    BY <1>2 DEF Reads
  <2>2. \A x, y \in Reads(replies) : x = y
    BY <1>1 DEF RequestInv, Requested
  <2>3. Reads(replies') = {}
    BY <1>2, <2>1, <2>2 DEF Reads
  <2>4. engine.readInFlight /\ ~HasRequest(engine.requests, "ReadOutbox")
    BY <1>1, <2>1 DEF RequestInv, Requested
  <2>5. ReleaseReply # r
    BY <1>2 DEF ReleaseReply
  <2> QED  BY <1>2, <2>1, <2>3, <2>4, <2>5
<1>5. /\ done \in EngineType /\ done.link = engine.link /\ ~done.readInFlight
      /\ done.reconnectTimer = engine.reconnectTimer
      /\ done.releaseInFlight = engine.releaseInFlight
      /\ done.releaseRequested = engine.releaseRequested
      /\ done.requests = engine.requests
  BY <1>1, Types DEF EngineType
<1>6. engine' = MaybeStartRead(m)
  BY <1>2
<1>7. any \in BOOLEAN /\ r.first \in Int /\ r.last \in Int /\ r \in SemanticReplies
  BY <1>1, Types
<1> HIDE DEF done
<1>8. Requested(done, replies', reserved) /\ Settled(done, reserved)
  BY <1>1, <1>4, <1>5 DEF RequestInv, Requested, Settled
<1>9. TrimsOn(done.requests, log)
  BY <1>1, <1>5 DEF AckInv
<1>10. /\ sent \in EngineType /\ sent.link = engine.link
       /\ engine.link = "Online" => sent.releaseInFlight = engine.releaseInFlight
       /\ Requested(sent, replies', reserved) /\ Settled(sent, reserved)
       /\ TrimsOn(sent.requests, log)
  <2>1. CASE any /\ engine.link # "Online"
    <3>1. sent = RequestRelease(done)
      BY <2>1
    <3>2. sent \in EngineType /\ sent.link = engine.link
      BY <1>5, <3>1, RequestReleaseFields
    <3> HIDE DEF sent
    <3> QED  BY <1>5, <1>8, <1>9, <2>1, <3>1, <3>2, RequestReleaseKeeps
  <2>2. CASE ~(any /\ engine.link # "Online")
    BY <1>5, <1>8, <1>9, <2>2
  <2> QED  BY <2>1, <2>2
<1> HIDE DEF sent, any
<1>11. /\ m \in EngineType /\ m.link = sent.link /\ m.reconnectTimer = sent.reconnectTimer
       /\ m.readInFlight = sent.readInFlight /\ m.releaseInFlight = sent.releaseInFlight
       /\ m.releaseRequested = sent.releaseRequested /\ m.requests = sent.requests
  BY <1>7, <1>10 DEF EngineType
<1> HIDE DEF m
<1>12. Requested(m, replies', reserved) /\ Settled(m, reserved) /\ TrimsOn(m.requests, log)
  BY <1>10, <1>11, SameRequests
<1>13. /\ Requested(engine', replies', reserved) /\ Settled(engine', reserved)
       /\ TrimsOn(engine'.requests, log)
  BY <1>6, <1>11, <1>12, MaybeStartReadKeeps
<1>14. /\ engine'.link = engine.link
       /\ engine.link = "Online" => engine'.releaseInFlight = engine.releaseInFlight
  BY <1>6, <1>10, <1>11, MaybeStartReadFields
<1>15. RequestInv' /\ AckInv'
  BY <1>1, <1>3, <1>13 DEF RequestInv, AckInv
<1>16. LateInv' /\ SessionInv' /\ LogInOrder'
  BY <1>3, Frames
<1>17. any => r.first \in Ids /\ r.last \in Ids /\ r.first <= r.last /\ r.last < nextId
  <2>1. ASSUME any PROVE r.first \in Ids /\ r.last \in Ids
    <3>1. r.first <= r.last
      BY <2>1 DEF any
    <3>2. r \in [type : {"ReadOutbox"}, first : Ids, last : Ids \cup {NoId}]
             \/ r = ReadReply(0, NoId)
      BY <1>2, <1>7 DEF SemanticReplies, ReleaseReply
    <3>3. ~(0 <= NoId) /\ \A x \in Ids : ~(x <= NoId)
      BY IdsAreNats
    <3> QED  BY <3>1, <3>2, <3>3 DEF ReadReply
  <2>2. r.last < nextId
    BY <1>1, <1>4 DEF BoundsInv
  <2> QED  BY <2>1, <2>2 DEF any
<1>18. ~any => toWriter' = toWriter
  <2> SUFFICES ASSUME ~any PROVE toWriter \o Appends(r.first, r.last) = toWriter
    BY <1>2
  <2>1. ~(r.first <= r.last) /\ toWriter \in Seq(WriterRequests)
    BY <1>1, Types DEF any
  <2> QED  BY <1>7, <2>1, ConcatNoAppends
<1>19. toWriter' # toWriter =>
          /\ any /\ engine.link = "Online"
          /\ toWriter' = toWriter \o Appends(r.first, r.last)
  BY <1>2, <1>18
<1>20. toWriter \in Seq(WriterRequests) /\ nextId \in Int
  BY <1>1, Types
<1>21. BoundsInv'
  <2>1. \A i \in 1 .. Len(toWriter') : toWriter'[i].id < nextId
    BY <1>1, <1>17, <1>19, <1>20, BatchInChannel DEF BoundsInv
  <2> QED  BY <1>1, <1>3, <1>4, <2>1 DEF BoundsInv
<1>22. LinkInv'
  <2>1. CASE toWriter' = toWriter
    BY <1>1, <1>3, <1>14, <2>1, Frames
  <2>2. CASE toWriter' # toWriter
    <3>1. engine.link = "Online" /\ writer.state \in WriterStates
      BY <1>1, <1>19, <2>2, Types DEF WriterType
    <3>2. AllAppends(toWriter)
      BY <1>1, <3>1 DEF LinkInv, Link, WriterStates
    <3>3. AllAppends(toWriter')
      BY <1>17, <1>19, <1>20, <2>2, <3>2, BatchInChannel
    <3>4. Link(writer, engine.link, toWriter', fromWriter)
      BY <1>1, <3>1, <3>2, <3>3 DEF LinkInv, Link, WriterStates
    <3> QED  BY <1>3, <1>14, <3>4 DEF LinkInv
  <2> QED  BY <2>1, <2>2
<1>23. TableInv'
  <2> SUFFICES ASSUME NEW mid \in 0 .. MaxId, ChainInv(mid) PROVE ChainInv(mid)'
    BY <1>3, TableFrame DEF DeliveryInv
  <2> SUFFICES ASSUME writer.state = "connected", engine.link = "Online"
               PROVE  Chain(mid, writer, engine.releaseInFlight, toWriter', replies', log)
    BY <1>3, <1>14 DEF ChainInv
  <2>1. engine.releaseInFlight = FALSE
    BY <1>1, <1>4, Types DEF RequestInv, Requested, EngineType
  <2>2. Chain(mid, writer, FALSE, toWriter, replies, log)
    BY <1>1, <2>1 DEF ChainInv
  <2>3. CASE any
    <3>1. toWriter' = toWriter \o Appends(r.first, r.last)
      BY <1>2
    <3>2. Chain(mid, writer, FALSE, toWriter \o Appends(r.first, r.last), replies', log)
      <4>1. PICK f \in Ids, l \in Ids : f = r.first /\ l = r.last /\ f <= l
        BY <1>17, <2>3
      <4>2. mid \in Int
        OBVIOUS
      <4>3. Chain(mid, writer, FALSE, toWriter \o Appends(f, l), replies', log)
        BY <1>4, <1>20, <2>2, <4>1, <4>2, ChainAppends
      <4> QED  BY <4>1, <4>3
    <3> QED  BY <2>1, <3>1, <3>2
  <2>4. CASE ~any
    <3>1. \A x \in Reads(replies) : x = r
      BY <1>1, <1>4 DEF RequestInv, Requested
    <3>2. r.last < r.first
      BY <1>7, <2>4 DEF any
    <3>3. SentUpTo(mid, writer, toWriter, log)
      BY <2>2, <3>1, <3>2 DEF Chain
    <3> QED  BY <1>4, <1>18, <2>1, <2>2, <2>4, <3>3 DEF Chain
  <2> QED  BY <2>3, <2>4
<1> QED  BY <1>15, <1>16, <1>21, <1>22, <1>23 DEF DeliveryInv

\* The release is answered.
LEMMA OnReleaseReplyDelivery ==
    ASSUME DeliveryInv, TypeOK', OnReleaseReply
    PROVE  DeliveryInv'
<1> USE DEF writerVars, netVars, dbVars
<1>1. TypeOK /\ RequestInv /\ LinkInv /\ BoundsInv /\ AckInv /\ up /\ ReleaseReply \in replies
  BY DEF OnReleaseReply, DeliveryInv
<1>2. PICK m : m = MaybeStartRelease([engine EXCEPT !.releaseInFlight = FALSE])
  OBVIOUS
<1>3. /\ engine' = MaybeStartRead(m) /\ replies' = replies \ {ReleaseReply}
      /\ UNCHANGED <<up, rows, reserved, nextId, writer, toWriter, fromWriter, log, late>>
  BY <1>2 DEF OnReleaseReply
<1>4. /\ m \in EngineType /\ m.link = engine.link
      /\ Requested(m, replies', reserved) /\ Settled(m, reserved)
      /\ TrimsOn(m.requests, log)
  <2>1. engine \in EngineType /\ Requested(engine, replies, reserved)
        /\ TrimsOn(engine.requests, log)
    BY <1>1, Types DEF RequestInv, AckInv
  <2> QED  BY <1>1, <1>2, <1>3, <2>1, ReleaseDone
<1>5. /\ Requested(engine', replies', reserved) /\ Settled(engine', reserved)
      /\ TrimsOn(engine'.requests, log)
  BY <1>3, <1>4, MaybeStartReadKeeps
<1>6. engine'.link = engine.link
  BY <1>3, <1>4, MaybeStartReadFields
<1>7. Reads(replies') = Reads(replies)
  BY <1>3 DEF Reads, ReleaseReply
<1>8. BoundsInv'
  BY <1>1, <1>3, <1>7 DEF BoundsInv
<1>9. RequestInv' /\ AckInv'
  BY <1>1, <1>3, <1>5 DEF RequestInv, AckInv
<1>10. LateInv' /\ SessionInv' /\ LogInOrder' /\ LinkInv'
  BY <1>1, <1>3, <1>6, Frames
<1>11. engine.releaseInFlight /\ reserved = {}
  BY <1>1 DEF RequestInv, Requested
<1>12. TableInv'
  <2>1. PICK lo \in 0 .. MaxId, mid \in 0 .. MaxId : Table(lo, mid)
    BY DEF TableInv, DeliveryInv
  <2>2. ChainInv(mid)'
    <3> SUFFICES ASSUME writer.state = "connected", engine.link = "Online"
                 PROVE  Chain(mid, writer, engine'.releaseInFlight, toWriter, replies', log)
      BY <1>3, <1>6 DEF ChainInv
    <3>1. Chain(mid, writer, engine.releaseInFlight, toWriter, replies, log)
      BY <1>1, <2>1 DEF Table, ChainInv
    <3>2. writer.expected = NoId /\ toWriter = <<>>
      BY <1>11, <3>1 DEF Chain
    <3>3. Reads(replies') = {}
      BY <1>1, <1>7, <1>11 DEF RequestInv, Requested
    <3>4. AllOn(log, mid)
      BY <1>1, <1>11, <2>1, NothingReserved
    <3>5. engine'.releaseInFlight \in BOOLEAN
      BY DEF TypeOK, EngineType
    <3> QED  BY <3>2, <3>3, <3>4, <3>5, IdleChain
  <2>3. OutboxShape(lo, mid)' /\ AllOn(log', lo)
    BY <1>3, <2>1 DEF Table, OutboxShape
  <2> QED  BY <2>2, <2>3 DEF TableInv, Table
<1> QED  BY <1>8, <1>9, <1>10, <1>12 DEF DeliveryInv

\* The same for a step of the engine.
LEMMA TakeWriterEventFacts ==
    ASSUME TypeOK, NEW type, TakeWriterEvent(type)
    PROVE  /\ fromWriter \in Seq(WriterResponses) /\ fromWriter # <<>>
           /\ Head(fromWriter).type = type /\ fromWriter' = Tail(fromWriter) /\ up
           /\ writer.state \in WriterStates /\ engine \in EngineType
           /\ engine.link \in LinkStates
BY Types DEF TakeWriterEvent, WriterType, EngineType

\* The session is established: it was sent nothing yet.
LEMMA OnConnectedDelivery ==
    ASSUME DeliveryInv, TypeOK', OnConnected
    PROVE  DeliveryInv'
<1> USE DEF writerVars, netVars, dbVars
<1>1. TypeOK /\ RequestInv /\ LinkInv /\ BoundsInv /\ AckInv /\ up /\ TakeWriterEvent("Connected")
  BY DEF OnConnected, DeliveryInv, TakeWriterEvent
<1>2. /\ fromWriter \in Seq(WriterResponses) /\ fromWriter # <<>>
      /\ Head(fromWriter).type = "Connected" /\ fromWriter' = Tail(fromWriter)
      /\ writer.state \in WriterStates /\ engine \in EngineType /\ engine.link \in LinkStates
  BY <1>1, TakeWriterEventFacts
<1>3. PICK m : m = [engine EXCEPT !.link = "Online"]
  OBVIOUS
<1>4. /\ m \in EngineType /\ m.link = "Online" /\ m.readInFlight = engine.readInFlight
      /\ m.releaseInFlight = engine.releaseInFlight
      /\ m.releaseRequested = engine.releaseRequested
      /\ m.reconnectTimer = engine.reconnectTimer /\ m.requests = engine.requests
  BY <1>2, <1>3 DEF EngineType, LinkStates
<1>5. /\ engine' = MaybeStartRead(m)
      /\ UNCHANGED <<up, rows, reserved, nextId, replies, writer, toWriter, log, late>>
  BY <1>3 DEF OnConnected
<1>6. \/ writer.state = "connected" /\ engine.link = "Reconnecting" /\ toWriter = <<>>
         /\ fromWriter' = <<>> /\ writer.expected = NoId
      \/ writer.state = "waiting" /\ OnlyLast(fromWriter', "Disconnected")
         /\ engine.link \in {"Online", "Reconnecting"} /\ AllAppends(toWriter)
  <2>1. CASE writer.state = "connecting"
    BY <1>1, <1>2, <2>1 DEF LinkInv, Link
  <2>2. CASE writer.state = "connected"
    <3>1. ~ \A i \in 1 .. Len(fromWriter) : fromWriter[i].type = "Durable"
      BY <1>2, ResponseTaken
    <3>2. engine.link = "Reconnecting" /\ toWriter = <<>> /\ fromWriter = <<Connected>>
          /\ writer.expected = NoId
      BY <1>1, <2>2, <3>1 DEF LinkInv, Link
    <3> QED  BY <1>2, <2>2, <3>2, ResponseTaken
  <2>3. CASE writer.state = "waiting"
    <3>1. /\ OnlyLast(fromWriter, "Disconnected")
          /\ \/ engine.link = "Online" /\ AllAppends(toWriter)
             \/ engine.link = "Reconnecting" /\ toWriter = <<>>
      BY <1>1, <1>2, <2>3 DEF LinkInv, Link
    <3>2. OnlyLast(fromWriter', "Disconnected")
      BY <1>2, <3>1, ResponseTaken
    <3>3. toWriter = <<>> => AllAppends(toWriter)
      BY DEF AllAppends
    <3> QED  BY <2>3, <3>1, <3>2, <3>3
  <2> QED  BY <1>2, <2>1, <2>2, <2>3 DEF WriterStates
<1>7. Requested(m, replies, reserved) /\ Settled(m, reserved) /\ TrimsOn(m.requests, log)
  <2>1. engine.link \in {"Online", "Reconnecting"}
    BY <1>6
  <2>2. Requested(m, replies, reserved)
    BY <1>1, <1>2, <1>4, <2>1 DEF RequestInv, Requested
  <2> QED  BY <1>1, <1>4, <2>2 DEF Settled, AckInv
<1>8. /\ Requested(engine', replies, reserved) /\ Settled(engine', reserved)
      /\ TrimsOn(engine'.requests, log)
  BY <1>4, <1>5, <1>7, MaybeStartReadKeeps
<1>9. engine'.link = "Online" /\ engine'.releaseInFlight = engine.releaseInFlight
  BY <1>4, <1>5, MaybeStartReadFields
<1>10. DurablesOn(fromWriter', log)
  BY <1>1, <1>2, ResponseTaken DEF AckInv
<1>11. RequestInv' /\ AckInv'
  BY <1>5, <1>8, <1>10 DEF RequestInv, AckInv
<1>12. BoundsInv' /\ LateInv' /\ SessionInv' /\ LogInOrder'
  BY <1>5, Frames
<1>13. LinkInv'
  <2>1. toWriter = <<>> => AllAppends(toWriter)
    BY DEF AllAppends
  <2>2. fromWriter' = <<>> =>
           \A i \in 1 .. Len(fromWriter') : fromWriter'[i].type = "Durable"
    OBVIOUS
  <2>3. Link(writer, "Online", toWriter, fromWriter')
    BY <1>6, <2>1, <2>2 DEF Link
  <2> QED  BY <1>5, <1>9, <2>3 DEF LinkInv
<1>14. TableInv'
  <2>1. PICK lo \in 0 .. MaxId, mid \in 0 .. MaxId : Table(lo, mid)
    BY DEF TableInv, DeliveryInv
  <2>2. ChainInv(mid)'
    <3> SUFFICES ASSUME writer.state = "connected"
                 PROVE  Chain(mid, writer, engine.releaseInFlight, toWriter, replies, log)
      BY <1>5, <1>9 DEF ChainInv
    <3>1. writer.expected = NoId /\ toWriter = <<>> /\ engine.link = "Reconnecting"
      BY <1>6
    <3>2. Reads(replies) = {}
      BY <1>1, <3>1 DEF RequestInv, Requested
    <3>3. engine.releaseInFlight \/ AllOn(log, mid)
      <4>1. engine.releaseInFlight \/ reserved = {}
        BY <1>1, <3>1 DEF RequestInv, Settled
      <4> QED  BY <1>1, <2>1, <4>1, NothingReserved
    <3>4. engine.releaseInFlight \in BOOLEAN
      BY <1>2 DEF EngineType
    <3> QED  BY <3>1, <3>2, <3>3, <3>4, IdleChain
  <2>3. OutboxShape(lo, mid)' /\ AllOn(log', lo)
    BY <1>5, <2>1 DEF Table, OutboxShape
  <2> QED  BY <2>2, <2>3 DEF TableInv, Table
<1> QED  BY <1>11, <1>12, <1>13, <1>14 DEF DeliveryInv

\* The link is down: what was read is released.
LEMMA OnDisconnectedDelivery ==
    ASSUME DeliveryInv, TypeOK', OnDisconnected
    PROVE  DeliveryInv'
<1> USE DEF writerVars, netVars, dbVars
<1>1. TypeOK /\ RequestInv /\ LinkInv /\ BoundsInv /\ AckInv /\ up /\ TakeWriterEvent("Disconnected")
  BY DEF OnDisconnected, DeliveryInv, TakeWriterEvent
<1>2. /\ fromWriter \in Seq(WriterResponses) /\ fromWriter # <<>>
      /\ Head(fromWriter).type = "Disconnected" /\ fromWriter' = Tail(fromWriter)
      /\ writer.state \in WriterStates /\ engine \in EngineType
  BY <1>1, TakeWriterEventFacts
<1>3. PICK m : m = [engine EXCEPT !.link = "Offline", !.reconnectTimer = TRUE,
                                  !.readRequested = TRUE]
  OBVIOUS
<1>4. /\ m \in EngineType /\ m.link = "Offline" /\ m.readInFlight = engine.readInFlight
      /\ m.releaseInFlight = engine.releaseInFlight
      /\ m.releaseRequested = engine.releaseRequested
      /\ m.reconnectTimer /\ m.requests = engine.requests
  BY <1>2, <1>3 DEF EngineType, LinkStates
<1>5. /\ engine' = RequestRelease(m)
      /\ UNCHANGED <<up, rows, reserved, nextId, replies, writer, toWriter, log, late>>
  BY <1>3 DEF OnDisconnected, MarkDisconnected
<1>6. writer.state = "waiting" /\ fromWriter' = <<>> /\ AllAppends(toWriter)
  <2>1. writer.state # "connecting"
    BY <1>1, <1>2 DEF LinkInv, Link
  <2>2. writer.state # "connected"
    <3>1. ~ \A i \in 1 .. Len(fromWriter) : fromWriter[i].type = "Durable"
      BY <1>2, ResponseTaken
    <3>2. fromWriter # <<Connected>>
      BY <1>2, ResponseTaken
    <3> QED  BY <1>1, <3>1, <3>2 DEF LinkInv, Link
  <2>3. /\ OnlyLast(fromWriter, "Disconnected")
        /\ AllAppends(toWriter) \/ toWriter = <<>>
    BY <1>1, <1>2, <2>1, <2>2 DEF LinkInv, Link, WriterStates
  <2>4. fromWriter' = <<>>
    BY <1>2, <2>3, ResponseTaken
  <2>5. toWriter = <<>> => AllAppends(toWriter)
    BY DEF AllAppends
  <2> QED  BY <1>2, <2>1, <2>2, <2>3, <2>4, <2>5 DEF WriterStates
<1>7. Requested(m, replies, reserved) /\ TrimsOn(m.requests, log)
  BY <1>1, <1>4 DEF RequestInv, Requested, AckInv
<1>8. /\ Requested(engine', replies, reserved) /\ Settled(engine', reserved)
      /\ TrimsOn(engine'.requests, log)
  <2>1. m.link # "Online"
    BY <1>4
  <2> QED  BY <1>4, <1>5, <1>7, <2>1, RequestReleaseKeeps
<1>9. engine'.link = "Offline"
  BY <1>4, <1>5, RequestReleaseFields
<1>10. DurablesOn(fromWriter', log)
  BY <1>1, <1>2, ResponseTaken DEF AckInv
<1>11. RequestInv' /\ AckInv'
  BY <1>5, <1>8, <1>10 DEF RequestInv, AckInv
<1>12. BoundsInv' /\ LateInv' /\ SessionInv' /\ LogInOrder'
  BY <1>5, Frames
<1>13. LinkInv'
  <2>1. Link(writer, "Offline", toWriter, fromWriter')
    BY <1>6 DEF Link
  <2> QED  BY <1>5, <1>9, <2>1 DEF LinkInv
<1>14. TableInv'
  <2>1. \A mid \in 0 .. MaxId : ChainInv(mid)'
    BY <1>9 DEF ChainInv
  <2> QED  BY <1>5, <2>1, TableFrame DEF DeliveryInv
<1> QED  BY <1>11, <1>12, <1>13, <1>14 DEF DeliveryInv

\* A durable id becomes a trim request.
LEMMA OnDurableDelivery ==
    ASSUME DeliveryInv, TypeOK', OnDurable
    PROVE  DeliveryInv'
<1> USE DEF writerVars, netVars, dbVars
<1>1. TypeOK /\ RequestInv /\ LinkInv /\ BoundsInv /\ AckInv /\ up /\ TakeWriterEvent("Durable")
  BY DEF OnDurable, DeliveryInv, TakeWriterEvent
<1>2. /\ fromWriter \in Seq(WriterResponses) /\ fromWriter # <<>>
      /\ Head(fromWriter).type = "Durable" /\ fromWriter' = Tail(fromWriter)
      /\ writer.state \in WriterStates /\ engine \in EngineType
  BY <1>1, TakeWriterEventFacts
<1>3. PICK x : x = TrimReq(Head(fromWriter).id)
  OBVIOUS
<1>4. /\ engine'.link = engine.link /\ engine'.readInFlight = engine.readInFlight
      /\ engine'.releaseInFlight = engine.releaseInFlight
      /\ engine'.releaseRequested = engine.releaseRequested
      /\ engine'.reconnectTimer = engine.reconnectTimer
      /\ engine'.requests = Append(engine.requests, x)
      /\ UNCHANGED <<up, rows, reserved, nextId, replies, writer, toWriter, log, late>>
  BY <1>2, <1>3 DEF OnDurable, EngineType
<1>5. /\ x \in SemanticRequests /\ x.type = "TrimOutbox" /\ AllOn(log, x.through + 1)
      /\ engine.requests \in Seq(SemanticRequests)
  <2>1. Head(fromWriter) \in WriterResponses
    BY <1>2
  <2>2. Head(fromWriter).id \in Ids
    BY <1>2, <2>1, MessageFields
  <2>3. AllOn(log, Head(fromWriter).id + 1)
    BY <1>1, <1>2, ResponseTaken DEF AckInv
  <2> QED  BY <1>1, <1>3, <2>2, <2>3, Types DEF SemanticRequests, TrimReq
<1>6. /\ \A type : HasRequest(engine'.requests, type)
                     <=> HasRequest(engine.requests, type) \/ "TrimOutbox" = type
      /\ TrimsOn(engine'.requests, log) /\ Mailbox(engine'.requests)
  <2>1. TrimsOn(engine.requests, log) /\ Mailbox(engine.requests)
    BY <1>1 DEF AckInv, RequestInv, Requested
  <2> QED  BY <1>4, <1>5, <2>1, MailboxAppend
<1>7. /\ HasRequest(engine'.requests, "ReadOutbox") <=> HasRequest(engine.requests, "ReadOutbox")
      /\ HasRequest(engine'.requests, "ReleaseOutbox")
            <=> HasRequest(engine.requests, "ReleaseOutbox")
  BY <1>6
<1>8. RequestInv'
  <2>1. Requested(engine', replies, reserved)
    BY <1>1, <1>4, <1>6, <1>7 DEF RequestInv, Requested
  <2>2. Settled(engine', reserved)
    BY <1>1, <1>4, <1>7 DEF RequestInv, Settled
  <2> QED  BY <1>4, <2>1, <2>2 DEF RequestInv
<1>9. AckInv'
  <2>1. DurablesOn(fromWriter', log)
    BY <1>1, <1>2, ResponseTaken DEF AckInv
  <2> QED  BY <1>4, <1>6, <2>1 DEF AckInv
<1>10. BoundsInv' /\ LateInv' /\ SessionInv' /\ LogInOrder'
  BY <1>4, Frames
<1>11. LinkInv'
  <2>1. OnlyLast(fromWriter, "Disconnected") => OnlyLast(fromWriter', "Disconnected")
    BY <1>2, ResponseTaken
  <2>2. (\A i \in 1 .. Len(fromWriter) : fromWriter[i].type = "Durable") =>
           \A i \in 1 .. Len(fromWriter') : fromWriter'[i].type = "Durable"
    BY <1>2, ResponseTaken
  <2>3. fromWriter # <<Connected>>
    BY <1>2, ResponseTaken
  <2>4. Link(writer, engine.link, toWriter, fromWriter')
    BY <1>1, <1>2, <2>1, <2>2, <2>3 DEF LinkInv, Link
  <2> QED  BY <1>4, <2>4 DEF LinkInv
<1>12. TableInv'
  BY <1>1, <1>4, TableFrame, ChainFrame DEF DeliveryInv
<1> QED  BY <1>8, <1>9, <1>10, <1>11, <1>12 DEF DeliveryInv

\* The reconnect timer: here PromptReads is needed, no answer is outstanding.
LEMMA WriterReconnectTimerDelivery ==
    ASSUME DeliveryInv, TypeOK', PromptReads, WriterReconnectTimer
    PROVE  DeliveryInv'
<1> USE DEF writerVars, netVars, dbVars
<1>1. TypeOK /\ RequestInv /\ LinkInv /\ BoundsInv /\ AckInv /\ up
  BY DEF WriterReconnectTimer, DeliveryInv
<1>2. /\ engine \in EngineType /\ writer.state \in WriterStates
      /\ toWriter \in Seq(WriterRequests) /\ nextId \in Nat
  BY <1>1, Types DEF WriterType
<1>3. engine.link = "Offline" /\ ~engine.readInFlight
  BY <1>1 DEF WriterReconnectTimer, RequestInv, Requested
<1>4. /\ engine'.link = "Reconnecting" /\ engine'.readInFlight = engine.readInFlight
      /\ engine'.releaseInFlight = engine.releaseInFlight
      /\ engine'.releaseRequested = engine.releaseRequested
      /\ ~engine'.reconnectTimer /\ engine'.requests = engine.requests
  BY <1>2, <1>3 DEF WriterReconnectTimer, EngineType
<1>5. /\ toWriter' = Append(toWriter, ReconnectReq)
      /\ UNCHANGED <<up, rows, reserved, nextId, replies, writer, fromWriter, log, late>>
  BY <1>3 DEF WriterReconnectTimer
<1>6. writer.state = "waiting" /\ fromWriter = <<>> /\ AllAppends(toWriter)
  BY <1>1, <1>2, <1>3 DEF LinkInv, Link, WriterStates
<1>7. /\ Len(toWriter) \in Nat /\ Len(toWriter') = Len(toWriter) + 1
      /\ \A i \in 1 .. Len(toWriter) : toWriter'[i] = toWriter[i]
      /\ toWriter'[Len(toWriter) + 1] = ReconnectReq /\ toWriter' # <<>>
  <2>1. ReconnectReq \in WriterRequests
    BY DEF WriterRequests
  <2> QED  BY <1>2, <1>5, <2>1, AppendFacts
<1>8. \A i \in 1 .. Len(toWriter') :
         \/ i \in 1 .. Len(toWriter) /\ i # Len(toWriter')
         \/ i = Len(toWriter) + 1 /\ i = Len(toWriter')
  BY <1>7
<1>9. ReconnectReq.type = "Reconnect" /\ ReconnectReq.id = -1
  BY DEF ReconnectReq, NoId
<1>10. OnlyLast(toWriter', "Reconnect")
  BY <1>6, <1>7, <1>8, <1>9 DEF OnlyLast, AllAppends
<1>11. LinkInv'
  <2>1. Link(writer, "Reconnecting", toWriter', fromWriter)
    BY <1>6, <1>10 DEF Link
  <2> QED  BY <1>4, <1>5, <2>1 DEF LinkInv
<1>12. BoundsInv'
  <2>1. -1 < nextId
    BY <1>2
  <2>2. \A i \in 1 .. Len(toWriter') : toWriter'[i].id < nextId
    BY <1>1, <1>7, <1>8, <1>9, <2>1 DEF BoundsInv
  <2> QED  BY <1>1, <1>5, <2>2 DEF BoundsInv
<1>13. RequestInv'
  <2>1. Requested(engine', replies, reserved)
    BY <1>1, <1>3, <1>4 DEF RequestInv, Requested
  <2>2. Settled(engine', reserved)
    BY <1>1, <1>3, <1>4 DEF RequestInv, Settled
  <2> QED  BY <1>5, <2>1, <2>2 DEF RequestInv
<1>14. AckInv' /\ LateInv' /\ SessionInv' /\ LogInOrder'
  BY <1>4, <1>5, Frames
<1>15. TableInv'
  <2>1. \A mid \in 0 .. MaxId : ChainInv(mid)'
    BY <1>4 DEF ChainInv
  <2> QED  BY <1>5, <2>1, TableFrame DEF DeliveryInv
<1> QED  BY <1>11, <1>12, <1>13, <1>14, <1>15 DEF DeliveryInv
-----------------------------------------------------------------------------
(* The writer's steps.                                                     *)

\* run_connected creates the session.
LEMMA WriterConnectDelivery ==
    ASSUME DeliveryInv, TypeOK', WriterConnect
    PROVE  DeliveryInv'
<1> USE DEF netVars, dbVars
<1>1. TypeOK /\ LinkInv /\ BoundsInv /\ AckInv /\ up
  BY DEF WriterConnect, DeliveryInv
<1>2. /\ writer' = WriterIn("connected") /\ fromWriter' = Append(fromWriter, Connected)
      /\ UNCHANGED <<up, rows, reserved, nextId, engine, replies, toWriter, log, late>>
  BY DEF WriterConnect
<1>3. engine.link = "Reconnecting" /\ toWriter = <<>> /\ fromWriter = <<>>
  BY <1>1 DEF WriterConnect, LinkInv, Link
<1>4. /\ writer'.state = "connected" /\ writer'.expected = NoId /\ writer'.upload = NoId
      /\ writer'.pending = <<>> /\ Session(writer', log)
  BY <1>2, FreshSession
<1>5. fromWriter' = <<Connected>>
  BY <1>2, <1>3
<1>6. SessionInv'
  BY <1>1, <1>2, <1>4 DEF SessionInv
<1>7. BoundsInv'
  <2>1. NoId < nextId /\ NoId <= nextId
    BY <1>1, IdsAreNats, Types
  <2>2. \A i \in 1 .. Len(writer'.pending) : writer'.pending[i] < nextId
    BY <1>4
  <2> QED  BY <1>1, <1>2, <1>4, <2>1, <2>2 DEF BoundsInv
<1>8. AckInv'
  <2>1. /\ fromWriter \in Seq(WriterResponses) /\ Connected \in WriterResponses
        /\ Connected.type # "Durable"
    BY <1>1, Types DEF WriterResponses, Connected
  <2>2. DurablesOn(fromWriter', log)
    BY <1>1, <1>2, <2>1, ResponseAdded DEF AckInv
  <2> QED  BY <1>1, <1>2, <2>2 DEF AckInv
<1>9. LateInv' /\ LogInOrder' /\ RequestInv'
  BY <1>1, <1>2, Frames
<1>10. LinkInv'
  <2>1. Link(writer', engine.link, toWriter, fromWriter')
    BY <1>3, <1>4, <1>5 DEF Link
  <2> QED  BY <1>2, <2>1 DEF LinkInv
<1>11. TableInv'
  <2>1. engine'.link # "Online"
    BY <1>2, <1>3
  <2> QED  BY <1>2, <2>1, TableNoSession
<1> QED  BY <1>6, <1>7, <1>8, <1>9, <1>10, <1>11 DEF DeliveryInv

\* run_connected fails.
LEMMA WriterDisconnectDelivery ==
    ASSUME DeliveryInv, TypeOK', WriterDisconnect
    PROVE  DeliveryInv'
<1> USE DEF netVars, dbVars
<1>1. TypeOK /\ LinkInv /\ BoundsInv /\ AckInv /\ up
  BY DEF WriterDisconnect, DeliveryInv
<1>2. /\ writer' = WriterIn("waiting") /\ fromWriter' = Append(fromWriter, Disconnected)
      /\ late' = LateAfter /\ writer.state \in {"connecting", "connected"}
      /\ UNCHANGED <<up, rows, reserved, nextId, engine, replies, toWriter, log>>
  BY DEF WriterDisconnect
<1>3. LateInv' /\ SessionInv' /\ BoundsInv'
  <2>1. \A i \in 1 .. Len(toWriter') : toWriter'[i].id < nextId
    BY <1>1, <1>2 DEF BoundsInv
  <2> QED  BY <1>2, <2>1, SessionEnds
<1>4. /\ fromWriter \in Seq(WriterResponses) /\ Disconnected \in WriterResponses
      /\ Disconnected.type = "Disconnected"
  BY <1>1, Types DEF WriterResponses, Disconnected
<1>5. AckInv'
  <2>1. DurablesOn(fromWriter', log)
    BY <1>1, <1>2, <1>4, ResponseAdded DEF AckInv
  <2> QED  BY <1>1, <1>2, <2>1 DEF AckInv
<1>6. LogInOrder' /\ RequestInv'
  BY <1>1, <1>2, Frames
<1>7. writer'.state = "waiting"
  BY <1>2, FreshSession
<1>8. LinkInv'
  <2>1. \/ engine.link = "Online" /\ AllAppends(toWriter)
        \/ engine.link = "Reconnecting" /\ toWriter = <<>>
    BY <1>1, <1>2 DEF LinkInv, Link
  <2>2. \A i \in 1 .. Len(fromWriter) : fromWriter[i].type # "Disconnected"
    <3>1. CASE fromWriter = <<>>
      BY <3>1
    <3>2. CASE fromWriter = <<Connected>>
      BY <3>2 DEF Connected
    <3>3. CASE \A i \in 1 .. Len(fromWriter) : fromWriter[i].type = "Durable"
      BY <3>3
    <3> QED  BY <1>1, <1>2, <3>1, <3>2, <3>3 DEF LinkInv, Link
  <2>3. OnlyLast(fromWriter', "Disconnected")
    BY <1>2, <1>4, <2>2, ResponseAdded
  <2>4. Link(writer', engine.link, toWriter, fromWriter')
    BY <1>7, <2>1, <2>3 DEF Link
  <2> QED  BY <1>2, <2>4 DEF LinkInv
<1>9. TableInv'
  BY <1>2, <1>7, TableNoSession
<1> QED  BY <1>3, <1>5, <1>6, <1>8, <1>9 DEF DeliveryInv

\* The writer takes an append.
LEMMA WriterAppendDelivery ==
    ASSUME DeliveryInv, TypeOK', WriterAppend
    PROVE  DeliveryInv'
<1> USE DEF netVars, dbVars
<1>1. /\ TypeOK /\ LinkInv /\ BoundsInv /\ AckInv /\ SessionInv /\ RequestInv /\ up
      /\ writer.state = "connected" /\ writer.upload = NoId
      /\ toWriter # <<>> /\ Head(toWriter).type = "Append" /\ toWriter' = Tail(toWriter)
  BY DEF WriterAppend, WriterReceives, CanReceive, DeliveryInv
<1>2. /\ toWriter \in Seq(WriterRequests) /\ writer \in WriterType /\ nextId \in Nat
      /\ writer.landed <= Len(writer.pending) /\ writer.pending \in Seq(Ids)
      /\ \A r \in Reads(replies) : r.first \in Int
  BY <1>1, Types DEF Reads
<1>3. PICK id : id = Head(toWriter).id
  OBVIOUS
<1>4. /\ id \in Ids /\ id \in Nat /\ toWriter[1].id = id /\ id < nextId
      /\ \A i \in 1 .. Len(toWriter') : toWriter'[i].id < nextId
  <2>1. Head(toWriter) \in WriterRequests /\ Head(toWriter) = toWriter[1]
    BY <1>1, <1>2, RequestTaken
  <2>2. id \in Ids
    BY <1>1, <1>3, <2>1, MessageFields
  <2>3. /\ toWriter[1].id < nextId
        /\ \A i \in 1 .. Len(toWriter') : toWriter'[i].id < nextId
    BY <1>1, <1>2, RequestTaken DEF BoundsInv
  <2> QED  BY <1>3, <2>1, <2>2, <2>3, IdsAreNats
<1>5. /\ engine.link = "Online" /\ AllAppends(toWriter)
      /\ \A i \in 1 .. Len(fromWriter) : fromWriter[i].type = "Durable"
  BY <1>1 DEF LinkInv, Link
<1>6. PICK lo \in 0 .. MaxId, mid \in 0 .. MaxId : Table(lo, mid)
  BY DEF TableInv, DeliveryInv
<1>7. Chain(mid, writer, engine.releaseInFlight, toWriter, replies, log)
  BY <1>1, <1>5, <1>6 DEF Table, ChainInv
<1>8. IF writer.expected = NoId THEN AllOn(log, id) ELSE writer.expected = id
  BY <1>1, <1>4, <1>7 DEF Chain
<1>9. /\ \/ writer' = [writer EXCEPT !.expected = id + 1, !.upload = id]
         \/ writer' = [writer EXCEPT !.expected = id + 1, !.pending = Append(@, id)]
      /\ UNCHANGED <<up, rows, reserved, nextId, engine, replies, fromWriter, log, late>>
  BY <1>3 DEF WriterAppend
<1>10. Session(writer', log)
  <2>1. Session(writer, log)
    BY <1>1 DEF SessionInv
  <2>2. /\ Session([writer EXCEPT !.expected = id + 1, !.upload = id], log)
        /\ Session([writer EXCEPT !.expected = id + 1, !.pending = Append(@, id)], log)
    BY <1>1, <1>2, <1>4, <1>8, <2>1, SessionTakes
  <2> QED  BY <1>9, <2>2
<1>11. /\ writer'.state = "connected" /\ writer'.expected = id + 1
       /\ writer'.upload \in {NoId, id}
       /\ writer'.pending = writer.pending \/ writer'.pending = Append(writer.pending, id)
  BY <1>1, <1>2, <1>9 DEF WriterType
<1>12. SessionInv'
  BY <1>1, <1>9, <1>10 DEF SessionInv
<1>13. BoundsInv'
  <2>1. NoId < nextId /\ id + 1 <= nextId
    BY <1>2, <1>4, IdsAreNats
  <2>2. \A i \in 1 .. Len(writer'.pending) : writer'.pending[i] < nextId
    <3>1. \A i \in 1 .. Len(writer.pending) : writer.pending[i] < nextId
      BY <1>1 DEF BoundsInv
    <3>2. PICK p : p = Append(writer.pending, id)
      OBVIOUS
    <3>3. /\ Len(writer.pending) \in Nat /\ Len(p) = Len(writer.pending) + 1
          /\ \A i \in 1 .. Len(writer.pending) : p[i] = writer.pending[i]
          /\ p[Len(writer.pending) + 1] = id
      BY <1>2, <1>4, <3>2, AppendFacts
    <3>4. \A i \in 1 .. Len(p) : i \in 1 .. Len(writer.pending) \/ i = Len(writer.pending) + 1
      BY <3>3
    <3>5. \A i \in 1 .. Len(p) : p[i] < nextId
      BY <1>4, <3>1, <3>3, <3>4
    <3> QED  BY <1>11, <3>1, <3>2, <3>5
  <2>3. writer'.upload < nextId
    BY <1>4, <1>11, <2>1
  <2> QED  BY <1>1, <1>4, <1>9, <1>11, <2>1, <2>2, <2>3 DEF BoundsInv
<1>14. LateInv' /\ LogInOrder' /\ AckInv' /\ RequestInv'
  BY <1>1, <1>9, Frames
<1>15. LinkInv'
  <2>1. AllAppends(toWriter')
    BY <1>1, <1>2, <1>5, RequestTaken
  <2>2. Link(writer', engine.link, toWriter', fromWriter)
    BY <1>5, <1>11, <2>1 DEF Link
  <2> QED  BY <1>9, <2>2 DEF LinkInv
<1>16. TableInv'
  <2>1. OutboxShape(lo, mid)' /\ AllOn(log', lo)
    BY <1>6, <1>9 DEF Table, OutboxShape
  <2>2. Chain(mid, writer', engine.releaseInFlight, Tail(toWriter), replies, log)
    <3>1. mid \in Int /\ toWriter[1].id \in Int /\ id + 1 # NoId
      BY <1>4, IdsAreNats
    <3> QED  BY <1>1, <1>2, <1>4, <1>7, <1>11, <3>1, ChainTaken
  <2>3. ChainInv(mid)'
    BY <1>1, <1>9, <2>2 DEF ChainInv
  <2> QED  BY <2>1, <2>3 DEF TableInv, Table
<1> QED  BY <1>12, <1>13, <1>14, <1>15, <1>16 DEF DeliveryInv

\* The writer's assertion fails (it cannot, but the step is harmless).
LEMMA WriterPanicDelivery ==
    ASSUME DeliveryInv, TypeOK', WriterPanic
    PROVE  DeliveryInv'
<1> USE DEF netVars, dbVars
<1>1. /\ writer' = WriterIn("waiting") /\ late' = LateAfter /\ ~up'
      /\ toWriter # <<>> /\ toWriter' = Tail(toWriter)
      /\ UNCHANGED <<rows, reserved, nextId, engine, replies, fromWriter, log>>
  BY DEF WriterPanic, WriterReceives
<1>2. LateInv' /\ SessionInv' /\ BoundsInv'
  <2>1. toWriter \in Seq(WriterRequests) /\ BoundsInv
    BY Types DEF DeliveryInv
  <2>2. /\ Len(toWriter) \in Nat /\ Len(toWriter') = Len(toWriter) - 1
        /\ \A i \in 1 .. Len(toWriter) - 1 : toWriter'[i] = toWriter[i + 1]
    BY <1>1, <2>1, TailFacts
  <2>3. \A i \in 1 .. Len(toWriter) - 1 : i + 1 \in 1 .. Len(toWriter)
    BY <2>2
  <2>4. \A i \in 1 .. Len(toWriter') : toWriter'[i].id < nextId
    BY <2>1, <2>2, <2>3 DEF BoundsInv
  <2> QED  BY <1>1, <2>4, SessionEnds
<1>3. AckInv' /\ LogInOrder'
  BY <1>1, Frames
<1>4. TableInv'
  BY <1>1, TableNoSession
<1> QED  BY <1>1, <1>2, <1>3, <1>4 DEF DeliveryInv

\* What a step of the session that leaves its next id and the queues alone keeps.
LEMMA SessionStep ==
    ASSUME DeliveryInv, TypeOK', up, writer.state = "connected", writer'.state = "connected",
           writer'.expected = writer.expected, writer.expected # NoId,
           UNCHANGED <<up, rows, reserved, nextId, engine, replies, toWriter, log, late>>,
           Session(writer', log), writer'.upload < nextId,
           \A i \in 1 .. Len(writer'.pending) : writer'.pending[i] < nextId,
           DurablesOn(fromWriter', log),
           (\A i \in 1 .. Len(fromWriter) : fromWriter[i].type = "Durable")
              => \A i \in 1 .. Len(fromWriter') : fromWriter'[i].type = "Durable"
    PROVE  DeliveryInv'
<1>1. TypeOK /\ LinkInv /\ BoundsInv /\ AckInv /\ SessionInv /\ RequestInv
  BY DEF DeliveryInv
<1>2. SessionInv'
  BY <1>1 DEF SessionInv
<1>3. BoundsInv'
  BY <1>1 DEF BoundsInv
<1>4. AckInv'
  BY <1>1 DEF AckInv
<1>5. LateInv' /\ LogInOrder' /\ RequestInv'
  BY Frames
<1>6. LinkInv'
  <2>1. /\ engine.link = "Online" /\ AllAppends(toWriter)
        /\ \A i \in 1 .. Len(fromWriter) : fromWriter[i].type = "Durable"
    BY <1>1 DEF LinkInv, Link
  <2>2. Link(writer', engine.link, toWriter, fromWriter')
    BY <2>1 DEF Link
  <2> QED  BY <2>2 DEF LinkInv
<1>7. TableInv'
  <2> SUFFICES ASSUME NEW mid \in 0 .. MaxId, ChainInv(mid) PROVE ChainInv(mid)'
    BY TableFrame DEF DeliveryInv
  <2> SUFFICES ASSUME engine.link = "Online"
               PROVE  Chain(mid, writer', engine.releaseInFlight, toWriter, replies, log)
    BY DEF ChainInv
  <2>1. Chain(mid, writer, engine.releaseInFlight, toWriter, replies, log)
    BY DEF ChainInv
  <2> QED  BY <2>1, ChainSameExpected
<1> QED  BY <1>2, <1>3, <1>4, <1>5, <1>6, <1>7 DEF DeliveryInv

\* The upload is complete: its pointer record is submitted.
LEMMA UploadDoneDelivery ==
    ASSUME DeliveryInv, TypeOK', UploadDone
    PROVE  DeliveryInv'
<1> USE DEF netVars, dbVars
<1>1. /\ TypeOK /\ BoundsInv /\ AckInv /\ Session(writer, log) /\ up /\ writer.upload # NoId
      /\ UNCHANGED <<up, rows, reserved, nextId, engine, replies, toWriter, fromWriter, log, late>>
  BY DEF UploadDone, DeliveryInv, SessionInv
<1>2. /\ writer \in WriterType /\ writer.landed <= Len(writer.pending) /\ nextId \in Nat
      /\ writer.pending \in Seq(Ids) /\ writer.landed \in Nat /\ writer.expected \in Int
  BY <1>1, Types
<1>3. PICK id : id = writer.upload
  OBVIOUS
<1>4. id \in Ids /\ id \in Nat /\ id < nextId
  BY <1>1, <1>2, <1>3, IdsAreNats DEF BoundsInv, WriterType
<1>5. writer.state = "connected" /\ writer.expected # NoId /\ id = writer.expected - 1
  BY <1>1, <1>3, IdleUnlessConnected DEF Session
<1>6. Submitted(writer) = id
  BY <1>1, <1>3 DEF Submitted
<1>7. /\ writer'.state = "connected" /\ writer'.expected = writer.expected
      /\ writer'.upload = NoId /\ writer'.pending = Append(writer.pending, id)
      /\ writer'.landed = writer.landed
  BY <1>2, <1>3, <1>5 DEF UploadDone, WriterType
<1>8. /\ writer'.pending # <<>> /\ Consecutive(writer'.pending)
      /\ writer'.pending[Len(writer'.pending)] = id
      /\ AllOn(log, writer'.pending[1] + writer'.landed)
  <2>1. /\ Consecutive(writer.pending)
        /\ writer.pending # <<>> => /\ writer.pending[Len(writer.pending)] = id - 1
                                    /\ AllOn(log, writer.pending[1] + writer.landed)
        /\ writer.pending = <<>> => AllOn(log, id)
    BY <1>1, <1>5, <1>6 DEF Session
  <2> QED  BY <1>2, <1>4, <1>7, <2>1, PendingAppend
<1>9. Session(writer', log)
  <2>1. Submitted(writer') - 1 = id
    BY <1>2, <1>4, <1>5, <1>7 DEF Submitted
  <2> QED  BY <1>5, <1>7, <1>8, <2>1 DEF Session
<1>10. \A i \in 1 .. Len(writer'.pending) : writer'.pending[i] < nextId
  <2>1. /\ Len(writer.pending) \in Nat /\ Len(writer'.pending) = Len(writer.pending) + 1
        /\ \A i \in 1 .. Len(writer.pending) : writer'.pending[i] = writer.pending[i]
        /\ writer'.pending[Len(writer.pending) + 1] = id
    BY <1>2, <1>4, <1>7, AppendFacts
  <2>2. \A i \in 1 .. Len(writer'.pending) :
           i \in 1 .. Len(writer.pending) \/ i = Len(writer.pending) + 1
    BY <2>1
  <2> QED  BY <1>1, <1>4, <2>1, <2>2 DEF BoundsInv
<1>11. NoId < nextId
  BY <1>2, IdsAreNats
<1>12. writer'.upload < nextId
  BY <1>7, <1>11
<1>13. DurablesOn(fromWriter', log)
  BY <1>1 DEF AckInv
<1> QED  BY <1>1, <1>5, <1>7, <1>9, <1>10, <1>12, <1>13, SessionStep

\* The oldest record of the session is acknowledged.
LEMMA WriterAckDelivery ==
    ASSUME DeliveryInv, TypeOK', WriterAck
    PROVE  DeliveryInv'
<1> USE DEF netVars, dbVars
<1>1. /\ TypeOK /\ BoundsInv /\ AckInv /\ Session(writer, log) /\ up /\ writer.landed > 0
      /\ UNCHANGED <<up, rows, reserved, nextId, engine, replies, toWriter, log, late>>
  BY DEF WriterAck, DeliveryInv, SessionInv
<1>2. /\ writer \in WriterType /\ writer.landed <= Len(writer.pending) /\ nextId \in Nat
      /\ writer.pending \in Seq(Ids) /\ writer.landed \in Nat /\ writer.expected \in Int
      /\ fromWriter \in Seq(WriterResponses) /\ writer.upload \in Int
  BY <1>1, Types
<1>3. PICK p, n : p = writer.pending /\ n = writer.landed
  OBVIOUS
<1>4. p \in Seq(Ids) /\ p # <<>> /\ n \in Nat /\ n > 0 /\ n <= Len(p) /\ Len(p) \in Nat
  <2>1. Len(p) > 0
    BY <1>1, <1>2, <1>3
  <2> QED  BY <1>1, <1>2, <1>3, <2>1
<1>5. writer.state = "connected" /\ writer.expected # NoId
  BY <1>1, <1>3, <1>4, IdleUnlessConnected DEF Session
<1>6. Consecutive(p) /\ p[Len(p)] = Submitted(writer) - 1 /\ AllOn(log, p[1] + n)
  BY <1>1, <1>3, <1>4 DEF Session
<1>7. /\ Consecutive(Tail(p)) /\ Head(p) = p[1] /\ p[1] \in Nat
      /\ Tail(p) # <<>> => Tail(p)[1] = p[1] + 1 /\ Tail(p)[Len(Tail(p))] = p[Len(p)]
      /\ Tail(p) = <<>> => Len(p) = 1
  BY <1>4, <1>6, ConsecutiveTail
<1>8. /\ writer'.state = "connected" /\ writer'.expected = writer.expected
      /\ writer'.upload = writer.upload /\ writer'.pending = Tail(p)
      /\ writer'.landed = n - 1
      /\ fromWriter' = Append(fromWriter, Durable(p[1]))
  BY <1>2, <1>3, <1>5, <1>7 DEF WriterAck, WriterType
<1>9. Submitted(writer') = Submitted(writer) /\ Submitted(writer) \in Int
  BY <1>2, <1>8 DEF Submitted
<1>10. AllOn(log, p[1] + 1)
  <2>1. p[1] + 1 \in Int /\ p[1] + n \in Int /\ p[1] + 1 <= p[1] + n
    BY <1>4, <1>7
  <2> QED  BY <1>6, <2>1, AllOnDown
<1>11. Tail(p) # <<>> => AllOn(log, Tail(p)[1] + (n - 1))
  <2>1. p[1] + 1 + (n - 1) = p[1] + n
    BY <1>4, <1>7
  <2> QED  BY <1>6, <1>7, <2>1
<1>12. Tail(p) = <<>> => AllOn(log, Submitted(writer))
  <2> SUFFICES ASSUME Tail(p) = <<>> PROVE Submitted(writer) = p[1] + 1
    BY <1>10
  <2>1. p[1] = Submitted(writer) - 1
    BY <1>6, <1>7
  <2> QED  BY <1>7, <1>9, <2>1
<1>13. Session(writer', log)
  <2>1. writer'.upload # NoId => writer'.upload = writer'.expected - 1
    BY <1>1, <1>8 DEF Session
  <2> QED  BY <1>5, <1>6, <1>7, <1>8, <1>9, <1>11, <1>12, <2>1 DEF Session
<1>14. Durable(p[1]) \in WriterResponses /\ Durable(p[1]).type = "Durable"
       /\ Durable(p[1]).id = p[1]
  <2>1. p[1] \in Ids
    BY <1>4
  <2> QED  BY <2>1 DEF WriterResponses, Durable
<1>15. DurablesOn(fromWriter', log)
  BY <1>1, <1>2, <1>8, <1>10, <1>14, ResponseAdded DEF AckInv
<1>16. (\A i \in 1 .. Len(fromWriter) : fromWriter[i].type = "Durable")
          => \A i \in 1 .. Len(fromWriter') : fromWriter'[i].type = "Durable"
  BY <1>2, <1>8, <1>14, ResponseAdded
<1>17. \A i \in 1 .. Len(writer'.pending) : writer'.pending[i] < nextId
  <2>1. Len(Tail(p)) = Len(p) - 1 /\ \A i \in 1 .. Len(p) - 1 : Tail(p)[i] = p[i + 1]
    BY <1>4, TailFacts
  <2>2. \A i \in 1 .. Len(p) - 1 : i + 1 \in 1 .. Len(p)
    BY <1>4
  <2> QED  BY <1>1, <1>3, <1>8, <2>1, <2>2 DEF BoundsInv
<1>18. writer'.upload < nextId
  BY <1>1, <1>8 DEF BoundsInv
<1> QED  BY <1>1, <1>5, <1>8, <1>13, <1>15, <1>16, <1>17, <1>18, SessionStep

\* wait_for_reconnect drops an append of the lost session.
LEMMA WriterDropAppendDelivery ==
    ASSUME DeliveryInv, TypeOK', WriterDropAppend
    PROVE  DeliveryInv'
<1> USE DEF netVars, dbVars
<1>1. /\ TypeOK /\ LinkInv /\ BoundsInv /\ up /\ writer.state = "waiting"
      /\ toWriter # <<>> /\ Head(toWriter).type = "Append" /\ toWriter' = Tail(toWriter)
      /\ UNCHANGED <<up, rows, reserved, nextId, engine, replies, writer, fromWriter, log, late>>
  BY DEF WriterDropAppend, WriterReceives, DeliveryInv
<1>2. toWriter \in Seq(WriterRequests)
  BY <1>1, Types
<1>3. AckInv' /\ LateInv' /\ SessionInv' /\ LogInOrder' /\ RequestInv'
  BY <1>1, Frames
<1>4. BoundsInv'
  <2>1. \A i \in 1 .. Len(toWriter') : toWriter'[i].id < nextId
    BY <1>1, <1>2, RequestTaken DEF BoundsInv
  <2> QED  BY <1>1, <2>1 DEF BoundsInv
<1>5. LinkInv'
  <2>1. AllAppends(toWriter) => AllAppends(toWriter')
    BY <1>1, <1>2, RequestTaken
  <2>2. OnlyLast(toWriter, "Reconnect") => OnlyLast(toWriter', "Reconnect")
    BY <1>1, <1>2, RequestTaken
  <2>3. Link(writer, engine.link, toWriter', fromWriter)
    BY <1>1, <2>1, <2>2 DEF LinkInv, Link
  <2> QED  BY <1>1, <2>3 DEF LinkInv
<1>6. TableInv'
  BY <1>1, TableNoSession
<1> QED  BY <1>3, <1>4, <1>5, <1>6 DEF DeliveryInv

\* wait_for_reconnect is told to reconnect.
LEMMA WriterReconnectDelivery ==
    ASSUME DeliveryInv, TypeOK', WriterReconnect
    PROVE  DeliveryInv'
<1> USE DEF netVars, dbVars
<1>1. /\ TypeOK /\ LinkInv /\ BoundsInv /\ up /\ writer.state = "waiting"
      /\ toWriter # <<>> /\ Head(toWriter).type = "Reconnect" /\ toWriter' = Tail(toWriter)
      /\ writer' = WriterIn("connecting")
      /\ UNCHANGED <<up, rows, reserved, nextId, engine, replies, fromWriter, log, late>>
  BY DEF WriterReconnect, WriterReceives, DeliveryInv
<1>2. toWriter \in Seq(WriterRequests) /\ nextId \in Nat
  BY <1>1, Types
<1>3. /\ writer'.state = "connecting" /\ writer'.expected = NoId /\ writer'.upload = NoId
      /\ writer'.pending = <<>> /\ Session(writer', log)
  BY <1>1, FreshSession
<1>4. AckInv' /\ LateInv' /\ LogInOrder' /\ RequestInv'
  BY <1>1, Frames
<1>5. SessionInv'
  BY <1>1, <1>3 DEF SessionInv
<1>6. engine.link = "Reconnecting" /\ fromWriter = <<>> /\ toWriter' = <<>>
  <2>1. ~AllAppends(toWriter)
    BY <1>1, <1>2, RequestTaken
  <2>2. engine.link = "Reconnecting" /\ fromWriter = <<>> /\ OnlyLast(toWriter, "Reconnect")
    BY <1>1, <2>1 DEF LinkInv, Link
  <2> QED  BY <1>1, <1>2, <2>2, RequestTaken
<1>7. BoundsInv'
  <2>1. NoId < nextId /\ NoId <= nextId
    BY <1>2, IdsAreNats
  <2>2. /\ \A i \in 1 .. Len(writer'.pending) : writer'.pending[i] < nextId
        /\ \A i \in 1 .. Len(toWriter') : toWriter'[i].id < nextId
    BY <1>3, <1>6
  <2> QED  BY <1>1, <1>3, <2>1, <2>2 DEF BoundsInv
<1>8. LinkInv'
  <2>1. Link(writer', engine.link, toWriter', fromWriter)
    BY <1>3, <1>6 DEF Link
  <2> QED  BY <1>1, <2>1 DEF LinkInv
<1>9. TableInv'
  <2>1. writer'.state # "connected"
    BY <1>3
  <2> QED  BY <1>1, <2>1, TableNoSession
<1> QED  BY <1>4, <1>5, <1>7, <1>8, <1>9 DEF DeliveryInv
-----------------------------------------------------------------------------
(* The stream's steps.                                                     *)

\* A record that continues the log.
LEMMA LogStep ==
    ASSUME DeliveryInv, NEW x \in Ids, AllOn(log, x), log' = Append(log, x),
           UNCHANGED <<up, rows, reserved, nextId, engine, replies, toWriter, fromWriter>>,
           writer'.state = writer.state, writer'.expected = writer.expected
    PROVE  /\ AckInv' /\ LogInOrder' /\ TableInv' /\ (up => RequestInv' /\ LinkInv')
           /\ \A n : AllOn(log, n) => AllOn(log', n)
           /\ AllOn(log', x + 1)
<1>1. TypeOK /\ AckInv /\ LogInOrder /\ TableInv /\ log \in Seq(Ids)
  BY Types DEF DeliveryInv
<1>2. (\A n : AllOn(log, n) => AllOn(log', n)) /\ AllOn(log', x + 1)
  BY <1>1, AllOnAppend
<1>3. LogInOrder'
  BY <1>1, LogInOrderAppend
<1>4. AckInv'
  BY <1>1, <1>2, LogGrows DEF AckInv
<1>5. up => RequestInv'
  BY Frames
<1>6. up => LinkInv'
  BY DEF DeliveryInv, LinkInv, Link
<1>7. TableInv'
  <2>1. PICK lo \in 0 .. MaxId, mid \in 0 .. MaxId : Table(lo, mid)
    BY <1>1 DEF TableInv
  <2>2. OutboxShape(lo, mid)' /\ AllOn(log', lo)
    BY <1>2, <2>1 DEF Table, OutboxShape
  <2>3. ChainInv(mid)'
    <3> SUFFICES ASSUME up, writer.state = "connected", engine.link = "Online"
                 PROVE  Chain(mid, writer', engine.releaseInFlight, toWriter, replies, log')
      BY DEF ChainInv
    <3>1. Chain(mid, writer, engine.releaseInFlight, toWriter, replies, log)
      BY <2>1 DEF Table, ChainInv
    <3>2. Chain(mid, writer, engine.releaseInFlight, toWriter, replies, log')
      BY <1>2, <3>1, LogGrows
    <3> QED  BY <3>2, ChainSameExpected
  <2> QED  BY <2>2, <2>3 DEF TableInv, Table
<1> QED  BY <1>2, <1>3, <1>4, <1>5, <1>6, <1>7

\* The next record of the session lands; it is the first id that the session
\* has not on the log.
LEMMA LandsNext ==
    ASSUME DeliveryInv, S2Land
    PROVE  LET x == writer.pending[writer.landed + 1]
           IN  /\ x \in Ids /\ AllOn(log, x) /\ x < nextId /\ writer.pending # <<>>
               /\ x = writer.pending[1] + writer.landed /\ writer.pending[1] \in Nat
               /\ writer.landed \in Nat
<1>1. TypeOK /\ BoundsInv /\ Session(writer, log) /\ writer.landed < Len(writer.pending)
  BY DEF S2Land, DeliveryInv, SessionInv
<1>2. /\ writer.pending \in Seq(Ids) /\ writer.landed \in Nat /\ Len(writer.pending) \in Nat
  BY <1>1, Types, LenProperties
<1>3. writer.landed + 1 \in 1 .. Len(writer.pending) /\ 1 \in 1 .. Len(writer.pending)
  BY <1>1, <1>2
<1>4. /\ writer.pending[writer.landed + 1] \in Ids /\ writer.pending # <<>>
      /\ writer.pending[1] \in Ids
  BY <1>2, <1>3
<1>5. writer.pending[writer.landed + 1] = writer.pending[1] + (writer.landed + 1) - 1
  BY <1>1, <1>3 DEF Session, Consecutive
<1>6. writer.pending[1] \in Nat
  BY <1>4, IdsAreNats
<1>7. writer.pending[writer.landed + 1] = writer.pending[1] + writer.landed
  BY <1>2, <1>5, <1>6
<1>8. AllOn(log, writer.pending[1] + writer.landed)
  BY <1>1, <1>4 DEF Session
<1>9. writer.pending[writer.landed + 1] < nextId
  BY <1>1, <1>3 DEF BoundsInv
<1> QED  BY <1>2, <1>4, <1>6, <1>7, <1>8, <1>9

\* The stream takes the next record of the session.
LEMMA S2LandDelivery ==
    ASSUME DeliveryInv, TypeOK', S2Land
    PROVE  DeliveryInv'
<1> USE DEF netVars, dbVars
<1>1. /\ TypeOK /\ BoundsInv /\ SessionInv /\ LateInv
      /\ UNCHANGED <<up, rows, reserved, nextId, engine, replies, toWriter, fromWriter, late>>
  BY DEF S2Land, DeliveryInv
<1>2. PICK x : x = writer.pending[writer.landed + 1]
  OBVIOUS
<1>3. /\ x \in Ids /\ AllOn(log, x) /\ writer.pending # <<>> /\ writer.landed \in Nat
      /\ x = writer.pending[1] + writer.landed /\ writer.pending[1] \in Nat
  BY <1>2, LandsNext
<1>4. /\ writer'.state = writer.state /\ writer'.expected = writer.expected
      /\ writer'.upload = writer.upload /\ writer'.pending = writer.pending
      /\ writer'.landed = writer.landed + 1
      /\ log' = Append(log, x)
  BY <1>1, <1>2, Types DEF S2Land, WriterType
<1>5. /\ AckInv' /\ LogInOrder' /\ TableInv' /\ (up => RequestInv' /\ LinkInv')
      /\ \A n : AllOn(log, n) => AllOn(log', n)
      /\ AllOn(log', x + 1)
  BY <1>1, <1>3, <1>4, LogStep
<1>6. LateInv'
  BY <1>1, <1>5, LogGrows DEF LateInv
<1>7. BoundsInv'
  BY <1>1, <1>4 DEF BoundsInv
<1>8. SessionInv'
  <2>1. Session(writer, log) /\ Session(writer, log')
    BY <1>1, <1>5, LogGrows DEF SessionInv
  <2>2. writer.state = "connected"
    BY <1>3, <2>1, IdleUnlessConnected
  <2>3. AllOn(log', writer'.pending[1] + writer'.landed)
    <3>1. writer.pending[1] + (writer.landed + 1) = x + 1
      BY <1>3
    <3> QED  BY <1>4, <1>5, <3>1
  <2>4. Submitted(writer') = Submitted(writer)
    BY <1>4 DEF Submitted
  <2>5. Session(writer', log')
    BY <1>3, <1>4, <2>1, <2>2, <2>3, <2>4 DEF Session
  <2> QED  BY <1>1, <1>4, <2>5 DEF SessionInv
<1> QED  BY <1>1, <1>5, <1>6, <1>7, <1>8 DEF DeliveryInv

\* The SDK submits again what is not acknowledged.
LEMMA S2RetryDelivery ==
    ASSUME DeliveryInv, TypeOK', S2Retry
    PROVE  DeliveryInv'
<1> USE DEF netVars, dbVars
<1>1. /\ TypeOK /\ BoundsInv /\ AckInv /\ SessionInv /\ Session(writer, log) /\ writer.landed > 0
      /\ UNCHANGED <<up, rows, reserved, nextId, engine, replies, toWriter, fromWriter, log, late>>
  BY DEF S2Retry, DeliveryInv, SessionInv
<1>2. /\ writer.pending \in Seq(Ids) /\ writer.landed \in Nat /\ writer \in WriterType
      /\ writer.landed <= Len(writer.pending)
  BY <1>1, Types
<1>3. /\ writer'.state = writer.state /\ writer'.expected = writer.expected
      /\ writer'.upload = writer.upload /\ writer'.pending = writer.pending
      /\ writer'.landed = 0
  BY <1>2 DEF S2Retry, WriterType
<1>4. writer.pending # <<>>
  BY <1>1, <1>2
<1>5. writer.state = "connected" /\ writer.expected # NoId
  BY <1>1, <1>4, IdleUnlessConnected DEF Session
<1>6. up
  BY <1>1, <1>5 DEF SessionInv
<1>7. AllOn(log, writer'.pending[1] + writer'.landed)
  <2>1. writer.pending[1] \in Ids
    BY <1>2, <1>4
  <2>2. writer.pending[1] \in Nat
    BY <2>1, IdsAreNats
  <2>3. /\ writer.pending[1] + 0 \in Int /\ writer.pending[1] + writer.landed \in Int
        /\ writer.pending[1] + 0 <= writer.pending[1] + writer.landed
    BY <1>2, <2>2
  <2>4. AllOn(log, writer.pending[1] + writer.landed)
    BY <1>1, <1>4 DEF Session
  <2>5. AllOn(log, writer.pending[1] + 0)
    BY <2>3, <2>4, AllOnDown
  <2> QED  BY <1>3, <2>5
<1>8. Session(writer', log)
  <2>1. Submitted(writer') = Submitted(writer)
    BY <1>3 DEF Submitted
  <2> QED  BY <1>1, <1>3, <1>4, <1>5, <1>7, <2>1 DEF Session
<1>9. /\ writer'.upload < nextId
      /\ \A i \in 1 .. Len(writer'.pending) : writer'.pending[i] < nextId
  BY <1>1, <1>3 DEF BoundsInv
<1>10. DurablesOn(fromWriter', log)
  BY <1>1 DEF AckInv
<1> QED  BY <1>1, <1>3, <1>5, <1>6, <1>8, <1>9, <1>10, SessionStep

\* The next record of a dead session is one that the log may take.
LEMMA LateLands ==
    ASSUME DeliveryInv, NEW k \in DOMAIN late, late[k] # <<>>
    PROVE  /\ late[k] \in Seq(Ids) /\ Consecutive(late[k]) /\ k \in 1 .. Len(late)
           /\ Head(late[k]) = late[k][1] /\ Head(late[k]) \in Ids
           /\ AllOn(log, Head(late[k])) /\ Head(late[k]) < nextId
<1>1. late \in Seq(Seq(Ids)) /\ LateInv /\ BoundsInv
  BY Types DEF DeliveryInv
<1>2. k \in 1 .. Len(late) /\ late[k] \in Seq(Ids)
  BY <1>1
<1>3. /\ Head(late[k]) = late[k][1] /\ late[k][1] \in Ids /\ Len(late[k]) > 0
      /\ Len(late[k]) \in Nat
  BY <1>2, TailFacts
<1>4. Consecutive(late[k]) /\ AllOn(log, late[k][1])
  BY <1>1, <1>2 DEF LateInv, Continues
<1>5. 1 \in 1 .. Len(late[k])
  BY <1>3
<1>6. late[k][1] < nextId
  BY <1>1, <1>2, <1>5 DEF BoundsInv
<1> QED  BY <1>2, <1>3, <1>4, <1>6

\* A record of a dead session lands: it repeats or continues the log.
LEMMA LateLandDelivery ==
    ASSUME DeliveryInv, TypeOK', LateLand
    PROVE  DeliveryInv'
<1> USE DEF writerVars, dbVars
<1>1. /\ TypeOK /\ BoundsInv /\ SessionInv /\ LateInv /\ late \in Seq(Seq(Ids))
      /\ UNCHANGED <<up, rows, reserved, nextId, engine, replies, writer, toWriter, fromWriter>>
  BY Types DEF LateLand, DeliveryInv
<1>2. PICK k \in DOMAIN late :
         /\ late[k] # <<>> /\ log' = Append(log, Head(late[k]))
         /\ late' = [late EXCEPT ![k] = Tail(@)]
  BY DEF LateLand
<1>3. PICK x : x = Head(late[k])
  OBVIOUS
<1>4. /\ late[k] \in Seq(Ids) /\ Consecutive(late[k]) /\ k \in 1 .. Len(late)
      /\ x = late[k][1] /\ x \in Ids /\ AllOn(log, x)
  BY <1>2, <1>3, LateLands
<1>5. /\ AckInv' /\ LogInOrder' /\ TableInv' /\ (up => RequestInv' /\ LinkInv')
      /\ \A n : AllOn(log, n) => AllOn(log', n)
      /\ AllOn(log', x + 1)
  BY <1>1, <1>2, <1>3, <1>4, LogStep
<1>6. SessionInv'
  BY <1>1, <1>5, LogGrows DEF SessionInv
<1>7. /\ Len(late') = Len(late) /\ late'[k] = Tail(late[k])
      /\ \A j \in 1 .. Len(late) : j # k => late'[j] = late[j]
  BY <1>1, <1>2, <1>4
<1>8. Continues(Tail(late[k]), log')
  <2>1. /\ Consecutive(Tail(late[k]))
        /\ Tail(late[k]) # <<>> => Tail(late[k])[1] = x + 1
    BY <1>2, <1>4, ConsecutiveTail
  <2> QED  BY <1>5, <2>1 DEF Continues
<1>9. LateInv'
  <2>1. \A j \in 1 .. Len(late) : Continues(late[j], log')
    BY <1>1, <1>5, LogGrows DEF LateInv
  <2>2. \A j \in 1 .. Len(late') : Continues(late'[j], log')
    BY <1>7, <1>8, <2>1
  <2> QED  BY <2>2 DEF LateInv
<1>10. BoundsInv'
  <2>1. /\ Len(late[k]) \in Nat /\ Len(Tail(late[k])) = Len(late[k]) - 1
        /\ \A i \in 1 .. Len(late[k]) - 1 : Tail(late[k])[i] = late[k][i + 1]
    BY <1>2, <1>4, TailFacts
  <2>2. \A i \in 1 .. Len(late[k]) - 1 : i + 1 \in 1 .. Len(late[k])
    BY <2>1
  <2>3. \A i \in 1 .. Len(late[k]) : late[k][i] < nextId
    BY <1>1, <1>4 DEF BoundsInv
  <2>4. \A i \in 1 .. Len(Tail(late[k])) : Tail(late[k])[i] < nextId
    BY <2>1, <2>2, <2>3
  <2>5. \A j \in 1 .. Len(late') : \A i \in 1 .. Len(late'[j]) : late'[j][i] < nextId
    BY <1>1, <1>7, <2>4 DEF BoundsInv
  <2> QED  BY <1>1, <2>5 DEF BoundsInv
<1> QED  BY <1>1, <1>5, <1>6, <1>9, <1>10 DEF DeliveryInv
-----------------------------------------------------------------------------
(* Start, crash and restart.                                               *)

\* run() of a daemon that starts for the first time.
LEMMA InitDelivery == Init => DeliveryInv
<1> SUFFICES ASSUME Init PROVE DeliveryInv
  OBVIOUS
<1>1. TypeOK
  BY InitShape
<1>2. /\ up /\ rows = {} /\ reserved = {} /\ nextId = 0 /\ engine = EngineAtStart
      /\ replies = {} /\ writer = WriterIn("connecting") /\ toWriter = <<>>
      /\ fromWriter = <<>> /\ log = <<>> /\ late = <<>>
  BY DEF Init
<1>3. /\ writer.state = "connecting" /\ writer.expected = NoId /\ writer.upload = NoId
      /\ writer.pending = <<>> /\ Session(writer, log)
  BY <1>2, FreshSession
<1>4. BoundsInv
  <2>1. NoId < 0 /\ NoId <= 0
    BY IdsAreNats
  <2> QED  BY <1>2, <1>3, <2>1 DEF BoundsInv, Reads
<1>5. AckInv
  BY <1>2, FreshStart DEF AckInv
<1>6. LateInv /\ LogInOrder
  BY <1>2 DEF LateInv, LogInOrder
<1>7. SessionInv
  BY <1>2, <1>3 DEF SessionInv
<1>8. RequestInv /\ LinkInv
  BY <1>2, FreshStart DEF RequestInv, LinkInv
<1>9. TableInv
  <2>1. 0 \in 0 .. MaxId
    BY ConstantsAssumption
  <2>2. OutboxShape(0, 0)
    BY <1>2 DEF OutboxShape
  <2>3. AllOn(log, 0)
    BY DEF AllOn
  <2>4. ChainInv(0)
    BY <1>3 DEF ChainInv
  <2> QED  BY <2>1, <2>2, <2>3, <2>4 DEF TableInv, Table
<1> QED  BY <1>1, <1>4, <1>5, <1>6, <1>7, <1>8, <1>9 DEF DeliveryInv

\* The daemon crashes: only the database and what is under way to S2 survive.
LEMMA CrashDelivery ==
    ASSUME DeliveryInv, TypeOK', Crash
    PROVE  DeliveryInv'
<1> USE DEF netVars, dbVars
<1>1. /\ writer' = WriterIn("waiting") /\ late' = LateAfter /\ ~up'
      /\ UNCHANGED <<rows, reserved, nextId, engine, replies, toWriter, fromWriter, log>>
  BY DEF Crash
<1>2. LateInv' /\ SessionInv' /\ BoundsInv'
  <2>1. \A i \in 1 .. Len(toWriter') : toWriter'[i].id < nextId
    BY <1>1 DEF BoundsInv, DeliveryInv
  <2> QED  BY <1>1, <2>1, SessionEnds
<1>3. AckInv' /\ LogInOrder'
  BY <1>1, Frames
<1>4. TableInv'
  BY <1>1, TableNoSession
<1> QED  BY <1>1, <1>2, <1>3, <1>4 DEF DeliveryInv

\* Opening the database clears the reservations; the table is as it was.
LEMMA RestartDelivery ==
    ASSUME DeliveryInv, TypeOK', Restart
    PROVE  DeliveryInv'
<1> USE DEF netVars
<1>1. /\ up' /\ reserved' = {} /\ engine' = EngineAtStart /\ replies' = {}
      /\ writer' = WriterIn("connecting") /\ toWriter' = <<>> /\ fromWriter' = <<>>
      /\ UNCHANGED <<rows, nextId, log, late>>
  BY DEF Restart
<1>2. TypeOK /\ BoundsInv
  BY DEF DeliveryInv
<1>3. /\ writer'.state = "connecting" /\ writer'.expected = NoId /\ writer'.upload = NoId
      /\ writer'.pending = <<>> /\ Session(writer', log)
  BY <1>1, FreshSession
<1>4. BoundsInv'
  <2>1. NoId < nextId /\ NoId <= nextId
    BY <1>2, Types, IdsAreNats
  <2>2. /\ \A i \in 1 .. Len(writer'.pending) : writer'.pending[i] < nextId
        /\ \A i \in 1 .. Len(toWriter') : toWriter'[i].id < nextId
        /\ Reads(replies') = {}
    BY <1>1, <1>3 DEF Reads
  <2> QED  BY <1>1, <1>2, <1>3, <2>1, <2>2 DEF BoundsInv
<1>5. AckInv'
  BY <1>1, FreshStart DEF AckInv
<1>6. LateInv' /\ LogInOrder'
  BY <1>1, Frames
<1>7. SessionInv'
  BY <1>1, <1>3 DEF SessionInv
<1>8. RequestInv' /\ LinkInv'
  BY <1>1, FreshStart DEF RequestInv, LinkInv
<1>9. TableInv'
  <2>1. PICK lo \in 0 .. MaxId, mid \in 0 .. MaxId : Table(lo, mid)
    BY DEF TableInv, DeliveryInv
  <2>2. /\ lo \in Nat /\ nextId \in Nat /\ lo <= nextId /\ rows = lo .. nextId - 1
        /\ AllOn(log, lo)
    BY <1>2, <2>1, Types DEF Table, OutboxShape
  <2>3. OutboxShape(lo, lo)'
    <3>1. lo .. lo - 1 = {}
      BY <2>2
    <3> QED  BY <1>1, <2>2, <3>1 DEF OutboxShape
  <2>4. ChainInv(lo)'
    BY <1>3 DEF ChainInv
  <2> QED  BY <1>1, <2>2, <2>3, <2>4 DEF TableInv, Table
<1> QED  BY <1>1, <1>4, <1>5, <1>6, <1>7, <1>8, <1>9 DEF DeliveryInv
-----------------------------------------------------------------------------
(* The theorems.                                                           *)

\* Every step of the pipeline keeps the invariant.
LEMMA NextDelivery ==
    ASSUME PromptReads, DeliveryInv, [Next]_vars
    PROVE  DeliveryInv'
<1>1. TypeOK'
  <2>1. TypeOK /\ ShapeInv
    BY DEF DeliveryInv, TableInv, Table, ShapeInv
  <2> QED  BY <2>1, NextShape
<1>2. ASSUME NEW n \in 1 .. MaxMint, CommitMutation(n) PROVE DeliveryInv'
  BY <1>1, <1>2, CommitMutationDelivery
<1>3. CASE Semantic
  BY <1>1, <1>3, ReadOutboxDelivery, ReleaseOutboxDelivery, TrimOutboxDelivery DEF Semantic
<1>4. CASE Engine
  BY <1>1, <1>4, OnOutboxReadyDelivery, OnReadReplyDelivery, OnReleaseReplyDelivery,
     OnConnectedDelivery, OnDisconnectedDelivery, OnDurableDelivery,
     WriterReconnectTimerDelivery DEF Engine
<1>5. CASE Writer
  BY <1>1, <1>5, WriterConnectDelivery, WriterDisconnectDelivery, WriterAppendDelivery,
     WriterPanicDelivery, UploadDoneDelivery, WriterAckDelivery, WriterDropAppendDelivery,
     WriterReconnectDelivery DEF Writer
<1>6. CASE Stream
  BY <1>1, <1>6, S2LandDelivery, S2RetryDelivery, LateLandDelivery DEF Stream
<1>7. CASE Crash
  BY <1>1, <1>7, CrashDelivery
<1>8. CASE Restart
  BY <1>1, <1>8, RestartDelivery
<1>9. CASE UNCHANGED vars
  <2>1. UNCHANGED <<up, rows, reserved, nextId, engine, replies, writer, toWriter,
                    fromWriter, log, late>>
    BY <1>9 DEF vars
  <2>2. /\ LateInv' /\ SessionInv' /\ LogInOrder' /\ AckInv' /\ BoundsInv'
        /\ (up' => LinkInv' /\ RequestInv')
    BY <2>1, Frames
  <2>3. TableInv'
    <3>1. \A mid \in 0 .. MaxId : ChainInv(mid) => ChainInv(mid)'
      BY <2>1 DEF ChainInv
    <3> QED  BY <2>1, <3>1, TableFrame DEF DeliveryInv
  <2> QED  BY <1>1, <2>2, <2>3 DEF DeliveryInv
<1> QED  BY <1>2, <1>3, <1>4, <1>5, <1>6, <1>7, <1>8, <1>9 DEF Next

\* DeliveryInv holds in every reachable state, for any number of ids, any batch
\* and channel sizes and any number of disconnects, retries and crashes, if no
\* reconnect timer fires while a ReadOutbox answer is outstanding.
THEOREM DeliveryInvariant == PromptReads => (Spec => []DeliveryInv)
<1> SUFFICES ASSUME PromptReads PROVE Spec => []DeliveryInv
  OBVIOUS
<1>1. Init => DeliveryInv
  BY InitDelivery
<1>2. DeliveryInv /\ [Next]_vars => DeliveryInv'
  BY NextDelivery
<1> QED  BY <1>1, <1>2, PTL DEF Spec

\* No committed mutation is lost: trim_outbox deletes a row only when the log
\* holds its message, whatever fails.
THEOREM OutboxLosesNothing == PromptReads => (Spec => []NothingLost)
<1>1. DeliveryInv => NothingLost
  <2> SUFFICES ASSUME DeliveryInv, NEW id \in 0 .. nextId - 1
               PROVE  id \in rows \/ OnLog(id)
    BY DEF NothingLost
  <2>1. PICK lo \in 0 .. MaxId, mid \in 0 .. MaxId : Table(lo, mid)
    BY DEF DeliveryInv, TableInv
  <2>2. rows = lo .. nextId - 1 /\ AllOn(log, lo)
    BY <2>1 DEF Table, OutboxShape
  <2>3. id \in 0 .. lo - 1 \/ id \in lo .. nextId - 1
    <3>1. nextId \in Nat /\ lo \in Nat
      BY Types DEF DeliveryInv
    <3> QED  BY <3>1
  <2> QED  BY <2>2, <2>3 DEF AllOn, OnLog
<1>2. PromptReads => (Spec => []DeliveryInv)
  BY DeliveryInvariant
<1> QED  BY <1>1, <1>2, PTL

\* The first copies of this daemon's messages are on the shared log in the order
\* in which they were committed.
THEOREM LogKeepsOrder == PromptReads => (Spec => []LogInOrder)
<1>1. DeliveryInv => LogInOrder
  BY DEF DeliveryInv
<1>2. PromptReads => (Spec => []DeliveryInv)
  BY DeliveryInvariant
<1> QED  BY <1>1, <1>2, PTL

\* The log writer's assertion on consecutive ids cannot fail.
THEOREM WriterNeverPanics == PromptReads => (Spec => []WriterSeesContiguousIds)
<1>1. DeliveryInv => WriterSeesContiguousIds
  <2> SUFFICES ASSUME DeliveryInv, up, CanReceive, toWriter # <<>>
               PROVE  ExpectedNext(Head(toWriter).id)
    BY DEF WriterSeesContiguousIds
  <2>1. LinkInv /\ writer.state = "connected" /\ toWriter \in Seq(WriterRequests)
    BY Types DEF DeliveryInv, CanReceive
  <2>2. engine.link = "Online"
    BY <2>1 DEF LinkInv, Link
  <2>3. PICK lo \in 0 .. MaxId, mid \in 0 .. MaxId : Table(lo, mid)
    BY DEF DeliveryInv, TableInv
  <2>4. Chain(mid, writer, engine.releaseInFlight, toWriter, replies, log)
    BY <2>1, <2>2, <2>3 DEF Table, ChainInv
  <2>5. Head(toWriter) = toWriter[1]
    BY <2>1, TailFacts
  <2> QED  BY <2>4, <2>5 DEF Chain, ExpectedNext
<1>2. PromptReads => (Spec => []DeliveryInv)
  BY DeliveryInvariant
<1> QED  BY <1>1, <1>2, PTL

\* The rows that are gone are the ids before the table.
LEMMA RetiredIds ==
    ASSUME TypeOK, NEW lo \in 0 .. MaxId, NEW mid \in 0 .. MaxId, Table(lo, mid)
    PROVE  /\ (0 .. nextId - 1) \ rows = 0 .. lo - 1
           /\ \A id \in 0 .. lo - 1 : OnLog(id)
<1>1. nextId \in Nat /\ lo \in Nat
  BY Types
<1>2. lo <= nextId /\ rows = lo .. nextId - 1 /\ AllOn(log, lo)
  <2>1. mid \in Nat /\ lo <= mid /\ mid <= nextId
    BY Types DEF Table, OutboxShape
  <2> QED  BY <1>1, <2>1 DEF Table, OutboxShape
<1> QED  BY <1>1, <1>2 DEF AllOn, OnLog

\* The steps that OutboxDelivery can see are a commit, a record that lands and
\* a trim; it allows each of them.
LEMMA StepDelivers ==
    ASSUME DeliveryInv, DeliveryInv', [Next]_vars
    PROVE  [Delivery!Next]_(Delivery!vars)
<1> USE DEF netVars, dbVars, writerVars
<1>1. TypeOK /\ TypeOK' /\ nextId \in Nat
  BY Types DEF DeliveryInv
<1>2. PICK lo \in 0 .. MaxId, mid \in 0 .. MaxId : Table(lo, mid)
  BY DEF DeliveryInv, TableInv
<1>3. (0 .. nextId - 1) \ rows = 0 .. lo - 1 /\ lo \in Nat /\ lo <= nextId
  <2>1. lo \in Nat /\ mid \in Nat /\ lo <= mid /\ mid <= nextId
    BY <1>1, <1>2, Types DEF Table, OutboxShape
  <2> QED  BY <1>1, <1>2, <2>1, RetiredIds
<1>4. ASSUME NEW n \in 1 .. MaxMint, CommitMutation(n) PROVE Delivery!Next
  <2>1. n \in Nat /\ n > 0
    BY ConstantsAssumption
  <2>2. /\ nextId' = nextId + n /\ rows' = rows \cup (nextId .. nextId + n - 1)
        /\ log' = log
    BY <1>4 DEF CommitMutation
  <2>3. rows = lo .. nextId - 1
    BY <1>2 DEF Table, OutboxShape
  <2>4. rows' = lo .. nextId + n - 1
    BY <1>1, <1>3, <2>1, <2>2, <2>3
  <2>5. (0 .. nextId' - 1) \ rows' = 0 .. lo - 1
    BY <1>1, <1>3, <2>1, <2>2, <2>4
  <2>6. nextId' \in Int /\ nextId' > nextId
    BY <1>1, <2>1, <2>2
  <2>7. Delivery!Mint
    BY <1>3, <2>2, <2>5, <2>6 DEF Delivery!Mint
  <2> QED  BY <2>7 DEF Delivery!Next
<1>5. CASE TrimOutbox
  <2>1. rows' \subseteq rows /\ nextId' = nextId /\ log' = log
    BY <1>5 DEF TrimOutbox
  <2>2. PICK lo2 \in 0 .. MaxId, mid2 \in 0 .. MaxId : Table(lo2, mid2)'
    BY DEF DeliveryInv, TableInv
  <2>3. /\ OutboxShape(lo2, mid2)' /\ AllOn(log', lo2)
    BY <2>2 DEF Table
  <2>4. rows' = lo2 .. nextId - 1 /\ lo2 \in Nat /\ lo2 <= nextId
    <3>1. lo2 \in Nat /\ mid2 \in Nat
      BY <1>1, Types
    <3> QED  BY <1>1, <2>1, <2>3, <3>1 DEF OutboxShape
  <2>5. \A id \in (0 .. nextId - 1) \ rows' : id \in Range(log)
    <3>1. (0 .. nextId - 1) \ rows' = 0 .. lo2 - 1
      BY <1>1, <2>4
    <3> QED  BY <2>1, <2>3, <3>1 DEF AllOn
  <2>6. Delivery!Retire
    <3>1. \A id : Delivery!OnLog(id) <=> id \in Range(log)
      BY DEF Delivery!OnLog, Delivery!Range, Range
    <3> QED  BY <2>1, <2>5, <3>1 DEF Delivery!Retire
  <2> QED  BY <2>6 DEF Delivery!Next
<1>6. ASSUME NEW x \in Ids, AllOn(log, x), x < nextId, log' = Append(log, x),
             UNCHANGED <<rows, nextId>>
      PROVE  Delivery!Next
  <2>1. x \in 0 .. nextId - 1
    BY <1>1, <1>6, IdsAreNats
  <2>2. Delivery!Publish
    <3>1. \A id : Delivery!OnLog(id) <=> id \in Range(log)
      BY DEF Delivery!OnLog, Delivery!Range, Range
    <3> QED  BY <1>6, <2>1, <3>1 DEF Delivery!Publish, AllOn
  <2> QED  BY <2>2 DEF Delivery!Next
<1>7. CASE S2Land
  <2>1. PICK x : x = writer.pending[writer.landed + 1]
    OBVIOUS
  <2>2. x \in Ids /\ AllOn(log, x) /\ x < nextId
    BY <1>7, <2>1, LandsNext
  <2>3. log' = Append(log, x) /\ UNCHANGED <<rows, nextId>>
    BY <1>7, <2>1 DEF S2Land
  <2> QED  BY <1>6, <2>2, <2>3
<1>8. CASE LateLand
  <2>1. PICK k \in DOMAIN late : late[k] # <<>> /\ log' = Append(log, Head(late[k]))
    BY <1>8 DEF LateLand
  <2>2. Head(late[k]) \in Ids /\ AllOn(log, Head(late[k])) /\ Head(late[k]) < nextId
    BY <2>1, LateLands
  <2>3. UNCHANGED <<rows, nextId>>
    BY <1>8 DEF LateLand
  <2> QED  BY <1>6, <2>1, <2>2, <2>3
<1>9. ASSUME UNCHANGED <<rows, nextId, log>> PROVE UNCHANGED Delivery!vars
  BY <1>9 DEF Delivery!vars
<1>10. CASE ReadOutbox \/ ReleaseOutbox
  BY <1>9, <1>10 DEF ReadOutbox, ReleaseOutbox
<1>11. CASE Engine
  <2>1. UNCHANGED <<rows, nextId, log>>
    BY <1>11 DEF Engine, OnOutboxReady, OnReadReply, OnReleaseReply, OnConnected,
       OnDisconnected, OnDurable, WriterReconnectTimer
  <2> QED  BY <1>9, <2>1
<1>12. CASE Writer
  <2>1. UNCHANGED <<rows, nextId, log>>
    BY <1>12 DEF Writer, WriterConnect, WriterDisconnect, WriterAppend, WriterPanic,
       UploadDone, WriterAck, WriterDropAppend, WriterReconnect
  <2> QED  BY <1>9, <2>1
<1>13. CASE S2Retry \/ Crash \/ Restart \/ UNCHANGED vars
  <2>1. UNCHANGED <<rows, nextId, log>>
    BY <1>13 DEF S2Retry, Crash, Restart, vars
  <2> QED  BY <1>9, <2>1
<1> QED
  BY <1>4, <1>5, <1>7, <1>8, <1>10, <1>11, <1>12, <1>13 DEF Next, Semantic, Stream

\* The pipeline implements OutboxDelivery: the database, the actors, the
\* connection and the crashes behave to the outside like a log to which every
\* committed message goes in order, at least once.
THEOREM PipelineDelivers == PromptReads => (Spec => DeliverySpec)
<1>1. Init => Delivery!Init
  BY DEF Init, Delivery!Init
<1>2. DeliveryInv /\ DeliveryInv' /\ [Next]_vars => [Delivery!Next]_(Delivery!vars)
  BY StepDelivers
<1>3. PromptReads => (Spec => []DeliveryInv)
  BY DeliveryInvariant
<1> QED  BY <1>1, <1>2, <1>3, PTL DEF Spec, DeliverySpec, Delivery!Spec
=============================================================================
