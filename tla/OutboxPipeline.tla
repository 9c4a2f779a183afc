--------------------------- MODULE OutboxPipeline ---------------------------
(***************************************************************************)
(* The way a committed local mutation takes from the outbox table to the   *)
(* shared log: the rows of the local database, the engine's read/release   *)
(* bookkeeping, the semantic actor's mailbox, the log writer's session and *)
(* the append side of the S2 stream, with disconnects, SDK retries, late   *)
(* arrivals and crashes of the daemon.                                     *)
(*                                                                         *)
(* A message is its outbox id: nothing here looks at its payload except    *)
(* for its size, which decides whether it is uploaded in parts first       *)
(* (the ids in Big).  Ids start at 0, so NoId is -1.                       *)
(***************************************************************************)
EXTENDS Integers, Sequences, FiniteSets, Functions

CONSTANTS
    MaxId,        \* bound: ids 0 .. MaxId - 1 can be minted
    MaxMint,      \* bound: messages committed by one transaction
    BatchSize,    \* READ_OUTBOX_BATCH_SIZE
    MaxUnacked,   \* records a session may have submitted and not acknowledged
    MaxFaults,    \* bound: disconnects, SDK retries and crashes in a behaviour
    Big,          \* ids whose message is larger than one record
    PromptReads   \* TRUE: no reconnect timer fires while a ReadOutbox answer is
                  \* outstanding (the answer takes less than RECONNECT_INTERVAL)

ASSUME ConstantsAssumption ==
    /\ MaxId \in Nat /\ MaxMint \in Nat /\ MaxFaults \in Nat
    /\ BatchSize \in Nat \ {0} /\ MaxUnacked \in Nat \ {0}
    /\ Big \subseteq Nat
    /\ PromptReads \in BOOLEAN

VARIABLES
    up,        \* the daemon process is running
    rows,      \* outbox table: the ids it holds
    reserved,  \* the rows with inflight = 1
    nextId,    \* daemon_state.next_outbox_id
    ready,     \* OutboxReady events on their way to the engine
    engine,    \* the engine's link state, flags, timer and its semantic requests
    replies,   \* semantic replies the engine has not polled
    writer,    \* the log writer's session
    toWriter,  \* LogWriterRequest channel
    fromWriter,\* LogWriterResponse channel
    log,       \* outbox ids of this daemon's records on the shared log
    late,      \* record runs of dead sessions that may still reach the log
    faults     \* faults so far

vars == <<up, rows, reserved, nextId, ready, engine, replies, writer,
          toWriter, fromWriter, log, late, faults>>

dbVars     == <<rows, reserved, nextId>>
writerVars == <<writer, toWriter, fromWriter>>
netVars    == <<log, late>>

NoId == -1
Ids  == 0 .. MaxId - 1

LinkStates   == {"Offline", "Reconnecting", "Online"}
WriterStates == {"connecting", "connected", "waiting"}

\* Requests the engine sends to the semantic actor about the outbox.
ReadReq        == [type |-> "ReadOutbox", through |-> NoId]
ReleaseReq     == [type |-> "ReleaseOutbox", through |-> NoId]
TrimReq(id)    == [type |-> "TrimOutbox", through |-> id]

\* A read reply carries the reserved interval of ids, empty when last < first.
ReadReply(f, l) == [type |-> "ReadOutbox", first |-> f, last |-> l]
ReleaseReply    == [type |-> "ReleaseOutbox", first |-> NoId, last |-> NoId]

AppendReq(id)   == [type |-> "Append", id |-> id]
ReconnectReq    == [type |-> "Reconnect", id |-> NoId]
Connected       == [type |-> "Connected", id |-> NoId]
Disconnected    == [type |-> "Disconnected", id |-> NoId]
Durable(id)     == [type |-> "Durable", id |-> id]

OnLog(id) == id \in Range(log)
-----------------------------------------------------------------------------
(* Start: the outbox reservations are scratch state and are cleared, the   *)
(* links start as reconnecting, and the engine asks for an outbox read     *)
(* that has to wait for the writer to connect.                             *)

EngineAtStart ==
    [link |-> "Reconnecting", readInFlight |-> FALSE, readRequested |-> TRUE,
     releaseInFlight |-> FALSE, releaseRequested |-> FALSE,
     reconnectTimer |-> FALSE, requests |-> <<>>]

\* A writer with no session: next_expected_outbox_id, big_upload and the
\* pending appends live as long as one call of run_connected.
WriterIn(state) ==
    [state |-> state, expected |-> NoId, upload |-> NoId,
     pending |-> <<>>, landed |-> 0]

Init ==
    /\ up = TRUE
    /\ rows = {} /\ reserved = {} /\ nextId = 0
    /\ ready = 0
    /\ engine = EngineAtStart
    /\ replies = {}
    /\ writer = WriterIn("connecting")
    /\ toWriter = <<>> /\ fromWriter = <<>>
    /\ log = <<>> /\ late = <<>>
    /\ faults = 0
-----------------------------------------------------------------------------
(* The engine's bookkeeping, as functions of its record.                   *)

MaybeStartRead(e) ==
    IF /\ e.readRequested /\ ~e.readInFlight
       /\ ~e.releaseInFlight /\ ~e.releaseRequested
       /\ e.link = "Online"
    THEN [e EXCEPT !.requests = Append(@, ReadReq),
                   !.readRequested = FALSE, !.readInFlight = TRUE]
    ELSE e

RequestRead(e) == MaybeStartRead([e EXCEPT !.readRequested = TRUE])

MaybeStartRelease(e) ==
    IF e.releaseRequested /\ ~e.releaseInFlight
    THEN [e EXCEPT !.requests = Append(@, ReleaseReq),
                   !.releaseRequested = FALSE, !.releaseInFlight = TRUE]
    ELSE e

RequestRelease(e) == MaybeStartRelease([e EXCEPT !.releaseRequested = TRUE])

\* Mutant: the reservations of the lost session are not released.
MarkDisconnectedKeepsReservations(e) ==
    [e EXCEPT !.link = "Offline", !.reconnectTimer = TRUE, !.readRequested = TRUE]

MarkDisconnected(e) ==
    RequestRelease([e EXCEPT !.link = "Offline", !.reconnectTimer = TRUE,
                             !.readRequested = TRUE])

\* What the engine sends the writer for a reserved interval.
Appends(f, l) == [i \in 1 .. l - f + 1 |-> AppendReq(f + i - 1)]
-----------------------------------------------------------------------------
(* Semantic actor: one request at a time, in mailbox order.                *)

\* An import epoch or a local delete commits n messages: ids are reserved,
\* rows inserted with inflight = 0 and OutboxReady is emitted.
CommitMutation(n) ==
    /\ up
    /\ nextId + n <= MaxId
    /\ rows' = rows \cup (nextId .. nextId + n - 1)
    /\ nextId' = nextId + n
    /\ ready' = ready + 1
    /\ UNCHANGED <<up, reserved, engine, replies, writerVars, netVars, faults>>

Unreserved == rows \ reserved

\* Mutant: the newest rows are reserved first.
SelectedNewest ==
    {id \in Unreserved :
        Cardinality({x \in Unreserved : x > id}) < BatchSize}

\* SELECT ... WHERE inflight = 0 ORDER BY outbox_id LIMIT BatchSize
Selected ==
    {id \in Unreserved :
        Cardinality({x \in Unreserved : x < id}) < BatchSize}

\* assert_contiguous_outbox_rows
Contiguous(S) == \A a \in S, b \in S : a .. b \subseteq S

First(S) == CHOOSE a \in S : \A b \in S : a <= b
Last(S)  == CHOOSE a \in S : \A b \in S : b <= a

TakeRequest(type) ==
    /\ up
    /\ engine.requests # <<>>
    /\ Head(engine.requests).type = type
    /\ engine' = [engine EXCEPT !.requests = Tail(@)]

\* Mutant: the rows read are not marked inflight.
ReadOutboxUnmarked ==
    /\ TakeRequest("ReadOutbox")
    /\ up' = Contiguous(Selected)
    /\ replies' = replies \cup
          {IF Selected = {} THEN ReadReply(0, NoId)
                            ELSE ReadReply(First(Selected), Last(Selected))}
    /\ UNCHANGED <<dbVars, ready, writerVars, netVars, faults>>

\* Reserves a batch.  Rows that are not contiguous roll the transaction back
\* and the error stops the engine.
ReadOutbox ==
    /\ TakeRequest("ReadOutbox")
    /\ up' = Contiguous(Selected)
    /\ reserved' = IF Contiguous(Selected) THEN reserved \cup Selected ELSE reserved
    /\ replies' = replies \cup
          {IF Selected = {} THEN ReadReply(0, NoId)
                            ELSE ReadReply(First(Selected), Last(Selected))}
    /\ UNCHANGED <<rows, nextId, ready, writerVars, netVars, faults>>

ReleaseOutbox ==
    /\ TakeRequest("ReleaseOutbox")
    /\ reserved' = {}
    /\ replies' = replies \cup {ReleaseReply}
    /\ UNCHANGED <<up, rows, nextId, ready, writerVars, netVars, faults>>

\* DELETE FROM outbox WHERE outbox_id <= through AND inflight = 1
TrimOutbox ==
    /\ TakeRequest("TrimOutbox")
    /\ LET trimmed == {id \in reserved : id <= Head(engine.requests).through}
       IN  /\ rows' = rows \ trimmed
           /\ reserved' = reserved \ trimmed
    /\ UNCHANGED <<up, nextId, ready, replies, writerVars, netVars, faults>>
-----------------------------------------------------------------------------
(* Engine: one event of its select loop at a time.                         *)

OnOutboxReady ==
    /\ up
    /\ ready > 0
    /\ ready' = ready - 1
    /\ engine' = RequestRead(engine)
    /\ UNCHANGED <<up, dbVars, replies, writerVars, netVars, faults>>

\* The rows are sent if the writer link is online by now; otherwise their
\* reservation is given up.  A non-empty answer asks for the next batch.
OnReadReply ==
    /\ up
    /\ \E r \in replies :
          LET any  == r.first <= r.last
              done == [engine EXCEPT !.readInFlight = FALSE]
              sent == IF any /\ engine.link # "Online"
                      THEN RequestRelease(done) ELSE done
          IN  /\ r.type = "ReadOutbox"
              /\ replies' = replies \ {r}
              /\ toWriter' = IF engine.link = "Online"
                             THEN toWriter \o Appends(r.first, r.last)
                             ELSE toWriter
              /\ engine' = MaybeStartRead(
                    [sent EXCEPT !.readRequested = @ \/ any])
    /\ UNCHANGED <<up, dbVars, ready, writer, fromWriter, netVars, faults>>

\* Mutant: a read that waited for the release is not started.
OnReleaseReplyNoRead ==
    /\ up
    /\ ReleaseReply \in replies
    /\ replies' = replies \ {ReleaseReply}
    /\ engine' = MaybeStartRelease([engine EXCEPT !.releaseInFlight = FALSE])
    /\ UNCHANGED <<up, dbVars, ready, writerVars, netVars, faults>>

OnReleaseReply ==
    /\ up
    /\ ReleaseReply \in replies
    /\ replies' = replies \ {ReleaseReply}
    /\ engine' = MaybeStartRead(
                    MaybeStartRelease([engine EXCEPT !.releaseInFlight = FALSE]))
    /\ UNCHANGED <<up, dbVars, ready, writerVars, netVars, faults>>

TakeWriterEvent(type) ==
    /\ up
    /\ fromWriter # <<>>
    /\ Head(fromWriter).type = type
    /\ fromWriter' = Tail(fromWriter)

OnConnected ==
    /\ TakeWriterEvent("Connected")
    /\ engine' = MaybeStartRead([engine EXCEPT !.link = "Online"])
    /\ UNCHANGED <<up, dbVars, ready, replies, writer, toWriter, netVars, faults>>

OnDisconnected ==
    /\ TakeWriterEvent("Disconnected")
    /\ engine' = MarkDisconnected(engine)
    /\ UNCHANGED <<up, dbVars, ready, replies, writer, toWriter, netVars, faults>>

OnDurable ==
    /\ TakeWriterEvent("Durable")
    /\ engine' = [engine EXCEPT !.requests = Append(@, TrimReq(Head(fromWriter).id))]
    /\ UNCHANGED <<up, dbVars, ready, replies, writer, toWriter, netVars, faults>>

\* RECONNECT_INTERVAL after the link went down.
WriterReconnectTimer ==
    /\ up
    /\ engine.reconnectTimer
    /\ PromptReads => ~engine.readInFlight
    /\ engine' = [engine EXCEPT
                    !.reconnectTimer = FALSE,
                    !.link = IF @ = "Offline" THEN "Reconnecting" ELSE @]
    /\ toWriter' = IF engine.link = "Offline"
                   THEN Append(toWriter, ReconnectReq) ELSE toWriter
    /\ UNCHANGED <<up, dbVars, ready, replies, writer, fromWriter, netVars, faults>>
-----------------------------------------------------------------------------
(* Log writer.                                                             *)

\* The submitted records that are not on the log when a session ends.
Unlanded == SubSeq(writer.pending, writer.landed + 1, Len(writer.pending))

LateAfter == IF Unlanded = <<>> THEN late ELSE Append(late, Unlanded)

\* run_connected creates the stream and its producer ...
WriterConnect ==
    /\ up
    /\ writer.state = "connecting"
    /\ writer' = WriterIn("connected")
    /\ fromWriter' = Append(fromWriter, Connected)
    /\ UNCHANGED <<up, dbVars, ready, engine, replies, toWriter, netVars, faults>>

\* ... or fails to, or loses the session: run_connected returns, what it
\* submitted is on its own, and the writer waits to be told to reconnect.
WriterDisconnect ==
    /\ up
    /\ faults < MaxFaults
    /\ writer.state \in {"connecting", "connected"}
    /\ writer' = WriterIn("waiting")
    /\ fromWriter' = Append(fromWriter, Disconnected)
    /\ late' = LateAfter
    /\ faults' = faults + 1
    /\ UNCHANGED <<up, dbVars, ready, engine, replies, toWriter, log>>

WriterReceives(type) ==
    /\ up
    /\ toWriter # <<>>
    /\ Head(toWriter).type = type
    /\ toWriter' = Tail(toWriter)

\* The guard of the request branch of run_connected.
CanReceive ==
    /\ writer.state = "connected"
    /\ writer.upload = NoId
    /\ Len(writer.pending) < MaxUnacked

\* assert_eq!(outbox_id, expected, "log writer received non-contiguous outbox id")
ExpectedNext(id) == writer.expected = NoId \/ writer.expected = id

\* A message of one record goes to the producer at once, a larger one is
\* uploaded first and keeps the writer from taking further requests.
WriterAppend ==
    /\ CanReceive
    /\ WriterReceives("Append")
    /\ LET id == Head(toWriter).id
       IN  /\ ExpectedNext(id)
           /\ writer' = IF id \in Big
                        THEN [writer EXCEPT !.expected = id + 1, !.upload = id]
                        ELSE [writer EXCEPT !.expected = id + 1,
                                            !.pending = Append(@, id)]
    /\ UNCHANGED <<up, dbVars, ready, engine, replies, fromWriter, netVars, faults>>

\* The assertion fails: the writer task panics and the runtime shuts down.
WriterPanic ==
    /\ CanReceive
    /\ WriterReceives("Append")
    /\ ~ExpectedNext(Head(toWriter).id)
    /\ up' = FALSE
    /\ writer' = WriterIn("waiting")
    /\ late' = LateAfter
    /\ UNCHANGED <<dbVars, ready, engine, replies, fromWriter, log, faults>>

\* All parts are durable: the pointer record is submitted.
UploadDone ==
    /\ up
    /\ writer.upload # NoId
    /\ writer' = [writer EXCEPT !.pending = Append(@, writer.upload),
                                !.upload = NoId]
    /\ UNCHANGED <<up, dbVars, ready, engine, replies, toWriter, fromWriter,
                   netVars, faults>>

\* Mutant: a record counts as durable once it is submitted.
WriterAckOnSubmit ==
    /\ up
    /\ writer.pending # <<>>
    /\ writer' = [writer EXCEPT !.pending = Tail(@),
                                !.landed = IF @ > 0 THEN @ - 1 ELSE 0]
    /\ fromWriter' = Append(fromWriter, Durable(Head(writer.pending)))
    /\ UNCHANGED <<up, dbVars, ready, engine, replies, toWriter, netVars, faults>>

\* Mutant: an acknowledged record still counts as one of the session's.
WriterAckKeepsCount ==
    /\ up
    /\ writer.landed > 0
    /\ writer' = [writer EXCEPT !.pending = Tail(@)]
    /\ fromWriter' = Append(fromWriter, Durable(Head(writer.pending)))
    /\ UNCHANGED <<up, dbVars, ready, engine, replies, toWriter, netVars, faults>>

\* The oldest submitted record is acknowledged.
WriterAck ==
    /\ up
    /\ writer.landed > 0
    /\ writer' = [writer EXCEPT !.pending = Tail(@), !.landed = @ - 1]
    /\ fromWriter' = Append(fromWriter, Durable(Head(writer.pending)))
    /\ UNCHANGED <<up, dbVars, ready, engine, replies, toWriter, netVars, faults>>

\* wait_for_reconnect drops the appends that were meant for the lost session.
WriterDropAppend ==
    /\ writer.state = "waiting"
    /\ WriterReceives("Append")
    /\ UNCHANGED <<up, dbVars, ready, engine, replies, writer, fromWriter,
                   netVars, faults>>

\* run_connected ignores a Reconnect, but none can reach it: the engine sends
\* one only to a writer that waits for it.
WriterReconnect ==
    /\ writer.state = "waiting"
    /\ WriterReceives("Reconnect")
    /\ writer' = WriterIn("connecting")
    /\ UNCHANGED <<up, dbVars, ready, engine, replies, fromWriter, netVars, faults>>
-----------------------------------------------------------------------------
(* The S2 stream, as the producer of one session sees it: records land in  *)
(* the order they were submitted.  A retry of the SDK submits again what   *)
(* is not acknowledged.  Records of a dead session may land afterwards,    *)
(* still in order, or never.                                               *)

S2Land ==
    /\ writer.landed < Len(writer.pending)
    /\ log' = Append(log, writer.pending[writer.landed + 1])
    /\ writer' = [writer EXCEPT !.landed = @ + 1]
    /\ UNCHANGED <<up, dbVars, ready, engine, replies, toWriter, fromWriter, late,
                   faults>>

S2Retry ==
    /\ faults < MaxFaults
    /\ writer.landed > 0
    /\ writer' = [writer EXCEPT !.landed = 0]
    /\ faults' = faults + 1
    /\ UNCHANGED <<up, dbVars, ready, engine, replies, toWriter, fromWriter, netVars>>

LateLand ==
    /\ \E k \in DOMAIN late :
          /\ late[k] # <<>>
          /\ log' = Append(log, Head(late[k]))
          /\ late' = [late EXCEPT ![k] = Tail(@)]
    /\ UNCHANGED <<up, dbVars, ready, engine, replies, writerVars, faults>>
-----------------------------------------------------------------------------
(* Crash and restart of the daemon.  Only the database survives; opening   *)
(* it clears the reservations.                                             *)

Crash ==
    /\ up
    /\ faults < MaxFaults
    /\ up' = FALSE
    /\ writer' = WriterIn("waiting")
    /\ late' = LateAfter
    /\ faults' = faults + 1
    /\ UNCHANGED <<dbVars, ready, engine, replies, toWriter, fromWriter, log>>

Restart ==
    /\ ~up
    /\ up' = TRUE
    /\ reserved' = {}
    /\ ready' = 0
    /\ engine' = EngineAtStart
    /\ replies' = {}
    /\ writer' = WriterIn("connecting")
    /\ toWriter' = <<>> /\ fromWriter' = <<>>
    /\ UNCHANGED <<rows, nextId, netVars, faults>>
-----------------------------------------------------------------------------
Semantic == ReadOutbox \/ ReleaseOutbox \/ TrimOutbox

Engine ==
    \/ OnOutboxReady \/ OnReadReply \/ OnReleaseReply
    \/ OnConnected \/ OnDisconnected \/ OnDurable
    \/ WriterReconnectTimer

Writer ==
    \/ WriterConnect \/ WriterDisconnect
    \/ WriterAppend \/ WriterPanic \/ UploadDone \/ WriterAck
    \/ WriterDropAppend \/ WriterReconnect

Stream == S2Land \/ S2Retry \/ LateLand

Next ==
    \/ \E n \in 1 .. MaxMint : CommitMutation(n)
    \/ Semantic \/ Engine \/ Writer \/ Stream
    \/ Crash \/ Restart

Spec == Init /\ [][Next]_vars

\* The actors are tokio tasks whose select loops poll every ready branch, S2
\* answers while the connection lives, and a stopped daemon is started again.
\* Nothing obliges users to commit, connections to fail or late records to land.
Fairness ==
    /\ WF_vars(ReadOutbox) /\ WF_vars(ReleaseOutbox) /\ WF_vars(TrimOutbox)
    /\ WF_vars(OnOutboxReady) /\ WF_vars(OnReadReply) /\ WF_vars(OnReleaseReply)
    /\ WF_vars(OnConnected) /\ WF_vars(OnDisconnected) /\ WF_vars(OnDurable)
    /\ WF_vars(WriterReconnectTimer)
    /\ WF_vars(WriterConnect) /\ WF_vars(WriterAppend) /\ WF_vars(WriterPanic)
    /\ WF_vars(UploadDone) /\ WF_vars(WriterAck)
    /\ WF_vars(WriterDropAppend) /\ WF_vars(WriterReconnect)
    /\ WF_vars(S2Land)
    /\ WF_vars(Restart)

FairSpec == Spec /\ Fairness
-----------------------------------------------------------------------------
SemanticRequests == {ReadReq, ReleaseReq} \cup {TrimReq(id) : id \in Ids}

SemanticReplies ==
    {ReleaseReply} \cup [type : {"ReadOutbox"}, first : Ids, last : Ids \cup {NoId}]
                   \cup {ReadReply(0, NoId)}

WriterRequests == {ReconnectReq} \cup {AppendReq(id) : id \in Ids}

WriterResponses == {Connected, Disconnected} \cup {Durable(id) : id \in Ids}

EngineType ==
    [link : LinkStates, readInFlight : BOOLEAN, readRequested : BOOLEAN,
     releaseInFlight : BOOLEAN, releaseRequested : BOOLEAN,
     reconnectTimer : BOOLEAN, requests : Seq(SemanticRequests)]

WriterType ==
    [state : WriterStates, expected : (0 .. MaxId) \cup {NoId},
     upload : Ids \cup {NoId}, pending : Seq(Ids), landed : Nat]

\* Type invariant.
TypeOK ==
    /\ up \in BOOLEAN
    /\ rows \in SUBSET Ids /\ reserved \in SUBSET rows
    /\ nextId \in 0 .. MaxId
    /\ ready \in Nat
    /\ engine \in EngineType
    /\ replies \in SUBSET SemanticReplies
    /\ writer \in WriterType
    /\ writer.landed <= Len(writer.pending)
    /\ toWriter \in Seq(WriterRequests)
    /\ fromWriter \in Seq(WriterResponses)
    /\ log \in Seq(Ids)
    /\ late \in Seq(Seq(Ids))
    /\ faults \in 0 .. MaxFaults

\* The reservation query never meets a gap (assert_contiguous_outbox_rows
\* cannot fail): the table holds an unbroken run of ids that ends with the
\* newest one, and the reserved rows are the oldest of that run, whatever
\* order reads, releases, trims, commits and crashes come in.
ReservationsArePrefix ==
    /\ \A id \in rows : id .. nextId - 1 \subseteq rows
    /\ \A id \in reserved, older \in rows : older < id => older \in reserved

\* stable_* is "shared log applied up to stable_cursor plus committed local
\* outbox mutations": a committed mutation is on the log or still in the outbox.
NothingLost == \A id \in 0 .. nextId - 1 : id \in rows \/ OnLog(id)

\* A message reaches the log only after every message committed before it:
\* an object's text never precedes the namespace entry that introduces it.
LogInOrder ==
    \A k \in DOMAIN log :
        \A id \in 0 .. log[k] - 1 : \E j \in 1 .. k - 1 : log[j] = id

\* The log writer's assertion: in one session it is handed consecutive ids.
WriterSeesContiguousIds ==
    (up /\ CanReceive /\ toWriter # <<>> /\ Head(toWriter).type = "Append")
        => ExpectedNext(Head(toWriter).id)

\* The shape of the outbox table: an unbroken run lo .. nextId - 1 of rows whose
\* reserved part lo .. mid - 1 is a prefix.  Inductive with TypeOK.
OutboxShape(lo, mid) ==
    /\ 0 <= lo /\ lo <= mid /\ mid <= nextId
    /\ rows = lo .. nextId - 1
    /\ reserved = lo .. mid - 1

ShapeInv == \E lo, mid \in 0 .. MaxId : OutboxShape(lo, mid)

\* The pipeline delivers as OutboxDelivery promises.
Delivery == INSTANCE OutboxDelivery WITH
                minted    <- nextId,
                published <- log,
                retired   <- (0 .. nextId - 1) \ rows

DeliverySpec == Delivery!Spec

\* No wakeup of the read/release bookkeeping is lost: however slow the semantic
\* actor is, and even after the writer's panic, every committed row is trimmed
\* at last.  (With NothingLost: every committed mutation reaches the log.)
EventuallyTrimmed == \A id \in Ids : (id < nextId) ~> (id \notin rows)
=============================================================================
