----------------------------- MODULE LogIngest -----------------------------
(***************************************************************************)
(* The way of a record from the shared log into the stable state: the log  *)
(* reader's session and its bounded event channel, the engine's message    *)
(* buffer with its drain timer, the semantic transaction that applies a    *)
(* batch and moves the stable cursor, and the reconnect that asks for the  *)
(* cursor first.                                                           *)
(*                                                                         *)
(* A record is its sequence number; of its content only the origin counts, *)
(* because the records this daemon wrote itself are skipped as echoes.     *)
(***************************************************************************)
EXTENDS Integers, Sequences

CONSTANTS
    MaxSeq,      \* bound: records on the log
    ChannelCap,  \* capacity of the reader's event channel
    BufferCap,   \* messages that fill the buffer (MAX_SIZE_BYTES)
    MaxFaults,   \* bound: disconnects and crashes in a behaviour
    Timings      \* the values of prompt to look at

ASSUME IngestConstants ==
    /\ MaxSeq \in Nat /\ MaxFaults \in Nat
    /\ ChannelCap \in Nat \ {0} /\ BufferCap \in Nat \ {0}
    /\ Timings \subseteq BOOLEAN

VARIABLES
    prompt,    \* TRUE: no reconnect timer fires while a batch is being applied
               \* (the transaction takes less than RECONNECT_INTERVAL)
    up,        \* the daemon process is running
    slog,      \* the shared log: the origin of every record
    cursor,    \* daemon_state.stable_cursor: the first record not applied
    applied,   \* how often each record was applied to stable state
    reader,    \* the log reader's session
    toReader,  \* LogReaderRequest channel
    events,    \* LogReaderEvent channel
    engine,    \* link state, timers, buffer and what is in flight
    requests,  \* the semantic actor's mailbox
    replies,   \* semantic replies the engine has not polled
    faults     \* faults so far

vars == <<prompt, up, slog, cursor, applied, reader, toReader, events, engine,
          requests, replies, faults>>

dbVars     == <<cursor, applied>>
readerVars == <<reader, toReader>>
semVars    == <<requests, replies>>

Origins == {"own", "other"}
Seqs    == 0 .. MaxSeq - 1

OriginOf(n) == slog[n + 1]

ReadEvent(n)      == [type |-> "Read", seq |-> n]
Connected         == [type |-> "Connected", seq |-> 0]
Disconnected      == [type |-> "Disconnected", seq |-> 0]

ApplyReq(f, l)    == [type |-> "Apply", first |-> f, last |-> l]
CursorReq         == [type |-> "Cursor", first |-> 0, last |-> 0]

\* An apply reply carries its range and whether the transaction committed.
ApplyReply(l, ok) == [type |-> "Apply", value |-> l, ok |-> ok]
CursorReply(c)    == [type |-> "Cursor", value |-> c, ok |-> TRUE]
-----------------------------------------------------------------------------
\* The reader starts at the stable cursor; its link counts as reconnecting
\* until the reader reports.
EngineFrom(c) ==
    [link |-> "Reconnecting", reconnectTimer |-> FALSE, cursorInFlight |-> FALSE,
     drainTimer |-> FALSE, buffer |-> <<>>, applyInFlight |-> FALSE, status |-> c]

ReaderAt(state, n) == [state |-> state, next |-> n]

Init ==
    /\ prompt \in Timings
    /\ up = TRUE
    /\ slog = <<>>
    /\ cursor = 0 /\ applied = [n \in Seqs |-> 0]
    /\ reader = ReaderAt("connecting", 0)
    /\ toReader = <<>> /\ events = <<>>
    /\ engine = EngineFrom(0)
    /\ requests = <<>> /\ replies = {}
    /\ faults = 0

\* Some daemon's log writer appends a record.
Publish(origin) ==
    /\ Len(slog) < MaxSeq
    /\ slog' = Append(slog, origin)
    /\ UNCHANGED <<prompt, up, dbVars, readerVars, events, engine, semVars, faults>>
-----------------------------------------------------------------------------
(* Log reader.  Every event is sent on a bounded channel, so each step     *)
(* waits for room.                                                         *)

Send(event) ==
    /\ up
    /\ Len(events) < ChannelCap
    /\ events' = Append(events, event)

\* run_connected opens a read session at start_at ...
ReaderConnect ==
    /\ reader.state = "connecting"
    /\ Send(Connected)
    /\ reader' = [reader EXCEPT !.state = "connected"]
    /\ UNCHANGED <<prompt, up, slog, dbVars, toReader, engine, semVars, faults>>

\* ... and forwards the records in order.
ReaderRead ==
    /\ reader.state = "connected"
    /\ reader.next < Len(slog)
    /\ Send(ReadEvent(reader.next))
    /\ reader' = [reader EXCEPT !.next = @ + 1]
    /\ UNCHANGED <<prompt, up, slog, dbVars, toReader, engine, semVars, faults>>

\* Connecting fails, or the session or the fetch of a large record does.
ReaderDisconnect ==
    /\ faults < MaxFaults
    /\ reader.state \in {"connecting", "connected"}
    /\ Send(Disconnected)
    /\ reader' = [reader EXCEPT !.state = "waiting"]
    /\ faults' = faults + 1
    /\ UNCHANGED <<prompt, up, slog, dbVars, toReader, engine, semVars>>

\* wait_for_reconnect.  (run_connected ignores a Reconnect, but the engine
\* sends one only to a reader that has reported its disconnect.)
ReaderReconnect ==
    /\ up
    /\ reader.state = "waiting"
    /\ toReader # <<>>
    /\ reader' = ReaderAt("connecting", Head(toReader))
    /\ toReader' = Tail(toReader)
    /\ UNCHANGED <<prompt, up, slog, dbVars, events, engine, semVars, faults>>
-----------------------------------------------------------------------------
(* Engine.                                                                 *)

HasCapacity == Len(engine.buffer) < BufferCap

\* Mutant: the engine takes reader events when the buffer is full.
TakeEventUnbounded(type) ==
    /\ up
    /\ events # <<>>
    /\ Head(events).type = type
    /\ events' = Tail(events)

\* The engine takes reader events, disconnects included, only while the
\* buffer has room.
TakeEvent(type) ==
    /\ up
    /\ HasCapacity
    /\ events # <<>>
    /\ Head(events).type = type
    /\ events' = Tail(events)

OnReaderConnected ==
    /\ TakeEvent("Connected")
    /\ engine' = [engine EXCEPT !.link = "Online"]
    /\ UNCHANGED <<prompt, up, slog, dbVars, readerVars, semVars, faults>>

OnReaderDisconnected ==
    /\ TakeEvent("Disconnected")
    /\ engine' = [engine EXCEPT !.link = "Offline", !.reconnectTimer = TRUE]
    /\ UNCHANGED <<prompt, up, slog, dbVars, readerVars, semVars, faults>>

\* The drain timer is armed unless an apply is in flight: its reply arms it.
OnRead ==
    /\ TakeEvent("Read")
    /\ engine' = [engine EXCEPT !.buffer = Append(@, Head(events).seq),
                                !.drainTimer = @ \/ ~engine.applyInFlight]
    /\ UNCHANGED <<prompt, up, slog, dbVars, readerVars, semVars, faults>>

\* SharedMessageBatch::try_from
ContiguousBatch(s) == \A i \in 1 .. Len(s) : s[i] = s[1] + i - 1

\* Mutant: the drained messages stay in the buffer.
DrainBufferKeeps ==
    /\ up
    /\ engine.drainTimer
    /\ ~engine.applyInFlight
    /\ engine' = [engine EXCEPT !.drainTimer = FALSE, !.applyInFlight = TRUE]
    /\ requests' = Append(requests,
                          ApplyReq(engine.buffer[1], engine.buffer[Len(engine.buffer)]))
    /\ UNCHANGED <<prompt, up, slog, dbVars, readerVars, events, replies, faults>>

\* The drain timer fires.  A gap or a repetition in the buffer is an error
\* that ends the engine.
DrainBuffer ==
    /\ up
    /\ engine.drainTimer
    /\ IF engine.applyInFlight
       THEN /\ engine' = [engine EXCEPT !.drainTimer = FALSE]
            /\ UNCHANGED <<up, requests>>
       ELSE /\ engine' = [engine EXCEPT !.drainTimer = FALSE, !.buffer = <<>>,
                                        !.applyInFlight = TRUE]
            /\ up' = ContiguousBatch(engine.buffer)
            /\ requests' = Append(requests,
                  ApplyReq(engine.buffer[1], engine.buffer[Len(engine.buffer)]))
    /\ UNCHANGED <<prompt, slog, dbVars, readerVars, events, replies, faults>>

\* RECONNECT_INTERVAL after the link went down.  Timers fire in the order of
\* their deadlines, and a buffered message is older than the disconnect.
ReaderReconnectTimer ==
    /\ up
    /\ engine.reconnectTimer
    /\ ~engine.drainTimer
    /\ prompt => ~engine.applyInFlight
    /\ LET start == engine.link = "Offline" /\ ~engine.cursorInFlight
       IN  /\ engine' = [engine EXCEPT
                            !.reconnectTimer = FALSE,
                            !.link = IF start THEN "Reconnecting" ELSE @,
                            !.cursorInFlight = @ \/ start]
           /\ requests' = IF start THEN Append(requests, CursorReq) ELSE requests
    /\ UNCHANGED <<prompt, up, slog, dbVars, readerVars, events, replies, faults>>

\* Mutant: messages that arrived during the apply wait for the next one.
OnApplyReplyNoRearm ==
    /\ up
    /\ \E r \in replies :
          /\ r.type = "Apply"
          /\ replies' = replies \ {r}
          /\ up' = r.ok
          /\ engine' = [engine EXCEPT !.applyInFlight = FALSE, !.status = r.value + 1]
    /\ UNCHANGED <<prompt, slog, dbVars, readerVars, events, requests, faults>>

\* Mutant: status reports the last applied record instead of the next one.
OnApplyReplyStatusLags ==
    /\ up
    /\ \E r \in replies :
          /\ r.type = "Apply"
          /\ replies' = replies \ {r}
          /\ up' = r.ok
          /\ engine' = [engine EXCEPT
                           !.applyInFlight = FALSE,
                           !.status = IF r.ok THEN r.value ELSE @,
                           !.drainTimer = @ \/ (r.ok /\ engine.buffer # <<>>)]
    /\ UNCHANGED <<prompt, slog, dbVars, readerVars, events, requests, faults>>

\* An error ends the engine.  Otherwise the status cursor follows, and the
\* messages that arrived meanwhile are due.
OnApplyReply ==
    /\ up
    /\ \E r \in replies :
          /\ r.type = "Apply"
          /\ replies' = replies \ {r}
          /\ up' = r.ok
          /\ engine' = [engine EXCEPT
                           !.applyInFlight = FALSE,
                           !.status = IF r.ok THEN r.value + 1 ELSE @,
                           !.drainTimer = @ \/ (r.ok /\ engine.buffer # <<>>)]
    /\ UNCHANGED <<prompt, slog, dbVars, readerVars, events, requests, faults>>

OnCursorReply ==
    /\ up
    /\ \E r \in replies :
          /\ r.type = "Cursor"
          /\ replies' = replies \ {r}
          /\ toReader' = IF engine.link = "Reconnecting"
                         THEN Append(toReader, r.value) ELSE toReader
    /\ engine' = [engine EXCEPT !.cursorInFlight = FALSE]
    /\ UNCHANGED <<prompt, up, slog, dbVars, reader, events, requests, faults>>
-----------------------------------------------------------------------------
(* Semantic actor: one request at a time, in mailbox order.                *)

TakeRequest(type) ==
    /\ up
    /\ requests # <<>>
    /\ Head(requests).type = type
    /\ requests' = Tail(requests)

\* The records of a batch that the transaction applies: not the local echoes.
Foreign(f, l) == {n \in Seqs : n \in f .. l /\ OriginOf(n) = "other"}

WithApplied(S) == [n \in Seqs |-> applied[n] + IF n \in S THEN 1 ELSE 0]

\* Mutant: a batch that does not start at the cursor is applied all the same.
ApplyBatchUnchecked ==
    /\ TakeRequest("Apply")
    /\ LET b  == Head(requests)
       IN  /\ cursor' = b.last + 1
           /\ applied' = WithApplied(Foreign(b.first, b.last))
           /\ replies' = replies \cup {ApplyReply(b.last, TRUE)}
    /\ UNCHANGED <<prompt, up, slog, readerVars, events, engine, faults>>

\* apply_shared_message_batch_tx: all of the batch and the cursor, or nothing.
ApplyBatch ==
    /\ TakeRequest("Apply")
    /\ LET b  == Head(requests)
           ok == b.first = cursor
       IN  /\ cursor' = IF ok THEN b.last + 1 ELSE cursor
           /\ applied' = IF ok THEN WithApplied(Foreign(b.first, b.last)) ELSE applied
           /\ replies' = replies \cup {ApplyReply(b.last, ok)}
    /\ UNCHANGED <<prompt, up, slog, readerVars, events, engine, faults>>

ReadStableCursor ==
    /\ TakeRequest("Cursor")
    /\ replies' = replies \cup {CursorReply(cursor)}
    /\ UNCHANGED <<prompt, up, slog, dbVars, readerVars, events, engine, faults>>
-----------------------------------------------------------------------------
Crash ==
    /\ up
    /\ faults < MaxFaults
    /\ up' = FALSE
    /\ faults' = faults + 1
    /\ UNCHANGED <<prompt, slog, dbVars, readerVars, events, engine, semVars>>

Restart ==
    /\ ~up
    /\ up' = TRUE
    /\ reader' = ReaderAt("connecting", cursor)
    /\ toReader' = <<>> /\ events' = <<>>
    /\ engine' = EngineFrom(cursor)
    /\ requests' = <<>> /\ replies' = {}
    /\ UNCHANGED <<prompt, slog, dbVars, faults>>

Reader == ReaderConnect \/ ReaderRead \/ ReaderDisconnect \/ ReaderReconnect

Engine ==
    \/ OnReaderConnected \/ OnReaderDisconnected \/ OnRead
    \/ DrainBuffer \/ ReaderReconnectTimer
    \/ OnApplyReply \/ OnCursorReply

Semantic == ApplyBatch \/ ReadStableCursor

Next ==
    \/ \E origin \in Origins : Publish(origin)
    \/ Reader \/ Engine \/ Semantic
    \/ Crash \/ Restart

Spec == Init /\ [][Next]_vars

\* As in OutboxPipeline: tasks are polled, S2 answers while a session lives and
\* a stopped daemon is started again.  Records and faults are not owed.
Fairness ==
    /\ WF_vars(ReaderConnect) /\ WF_vars(ReaderRead) /\ WF_vars(ReaderReconnect)
    /\ WF_vars(OnReaderConnected) /\ WF_vars(OnReaderDisconnected) /\ WF_vars(OnRead)
    /\ WF_vars(DrainBuffer) /\ WF_vars(ReaderReconnectTimer)
    /\ WF_vars(OnApplyReply) /\ WF_vars(OnCursorReply)
    /\ WF_vars(ApplyBatch) /\ WF_vars(ReadStableCursor)
    /\ WF_vars(Restart)

FairSpec == Spec /\ Fairness
-----------------------------------------------------------------------------
EventType ==
    {Connected, Disconnected} \cup {ReadEvent(n) : n \in Seqs}

RequestType ==
    [type : {"Apply", "Cursor"}, first : Seqs \cup {0}, last : Seqs \cup {0}]

ReplyType == [type : {"Apply", "Cursor"}, value : 0 .. MaxSeq, ok : BOOLEAN]

EngineType ==
    [link : {"Offline", "Reconnecting", "Online"}, reconnectTimer : BOOLEAN,
     cursorInFlight : BOOLEAN, drainTimer : BOOLEAN, buffer : Seq(Seqs),
     applyInFlight : BOOLEAN, status : 0 .. MaxSeq]

\* Type invariant.
TypeOK ==
    /\ prompt \in BOOLEAN
    /\ up \in BOOLEAN
    /\ slog \in Seq(Origins) /\ Len(slog) <= MaxSeq
    /\ cursor \in 0 .. MaxSeq
    /\ applied \in [Seqs -> Nat]
    /\ reader \in [state : {"connecting", "connected", "waiting"}, next : 0 .. MaxSeq]
    /\ toReader \in Seq(0 .. MaxSeq)
    /\ events \in Seq(EventType) /\ Len(events) <= ChannelCap
    /\ engine \in EngineType /\ Len(engine.buffer) <= BufferCap
    /\ requests \in Seq(RequestType)
    /\ replies \subseteq ReplyType
    /\ faults \in 0 .. MaxFaults

\* "shared log applied up to stable_cursor": stable state holds every foreign
\* record below the cursor, applied once, and nothing above the cursor, so that no
\* record is applied ahead of an earlier one, whatever is read twice, rejected or
\* lost in a crash.
AppliedExactlyOnce ==
    /\ cursor <= Len(slog)
    /\ \A n \in Seqs :
          applied[n] = IF n < cursor /\ OriginOf(n) = "other" THEN 1 ELSE 0

\* No batch is ever refused: what the drain timer finds in the buffer is a
\* non-empty run of sequence numbers (the assertion in run and try_from), and
\* a batch the semantic actor takes starts at the stable cursor.
BatchesFit ==
    up => /\ engine.drainTimer => engine.buffer # <<>> /\ ContiguousBatch(engine.buffer)
          /\ requests # <<>> /\ Head(requests).type = "Apply"
                => Head(requests).first = cursor

\* ... as long as transactions are faster than the reconnect interval.
PromptBatchesFit == prompt => BatchesFit

\* The cursor that status reports never runs ahead of the durable one, and it
\* has caught up when no batch is being applied.
StatusFollowsCursor ==
    up => /\ engine.status <= cursor
          /\ ~engine.applyInFlight => engine.status = cursor

-----------------------------------------------------------------------------
(* Why this is so.                                                         *)

IsApply(m) == m.type = "Apply"

\* What is on its way exists on the log, and the drain timer finds messages.
StockInv ==
    /\ engine.drainTimer => engine.buffer # <<>>
    /\ \A i \in DOMAIN engine.buffer : engine.buffer[i] < Len(slog)
    /\ \A i \in DOMAIN events : events[i].type = "Read" => events[i].seq < Len(slog)

\* Of the batch being applied there is one request or one reply, and the reply
\* tells what the transaction did.
BatchInv ==
    /\ \A i \in DOMAIN requests : IsApply(requests[i]) =>
          /\ requests[i].first <= requests[i].last /\ requests[i].last < Len(slog)
          /\ engine.applyInFlight /\ engine.status = cursor
          /\ \A j \in DOMAIN requests : IsApply(requests[j]) => j = i
          /\ \A r \in replies : ~IsApply(r)
    /\ \A r \in replies : IsApply(r) =>
          /\ engine.applyInFlight
          /\ IF r.ok THEN cursor = r.value + 1 ELSE engine.status = cursor
          /\ \A s \in replies : IsApply(s) => s = r

\* The first record behind the batch that is being applied.
Base == IF requests # <<>> /\ IsApply(Head(requests)) THEN Head(requests).last + 1
                                                     ELSE cursor

\* 1 if the first event is the report of a connection, which is no record.
Greeting == IF events # <<>> /\ Head(events).type = "Connected" THEN 1 ELSE 0

\* Cursor, batch, buffer and event channel are one run of sequence numbers, which
\* the reader continues.
RunInv ==
    /\ \A i \in DOMAIN engine.buffer : engine.buffer[i] = Base + i - 1
    /\ \A i \in DOMAIN events :
          /\ events[i].type = "Read" =>
                events[i].seq = Base + Len(engine.buffer) + i - 1 - Greeting
          /\ events[i].type = "Connected" => i = 1
    /\ reader.state # "waiting" =>
          reader.next = Base + Len(engine.buffer) + Len(events) - Greeting

\* A session is over when its Disconnected has been taken; only then is the
\* cursor asked for, with nothing left to apply, and sent to the reader.
SessionInv ==
    /\ \A i \in DOMAIN events :
          events[i].type = "Disconnected" => i = Len(events) /\ reader.state = "waiting"
    /\ reader.state = "waiting" /\ events # <<>> => events[Len(events)].type = "Disconnected"
    /\ reader.state = "connecting" => events = <<>>
    /\ reader.state # "waiting" \/ events # <<>> =>
          toReader = <<>> /\ ~engine.cursorInFlight /\ engine.link # "Offline"
    /\ engine.link = "Offline" => toReader = <<>> /\ ~engine.cursorInFlight
    /\ engine.reconnectTimer => engine.link = "Offline"
    /\ engine.cursorInFlight \/ toReader # <<>> =>
          engine.buffer = <<>> /\ ~engine.applyInFlight
    /\ engine.cursorInFlight => toReader = <<>>
    /\ toReader # <<>> => toReader = <<cursor>>
    /\ engine.buffer # <<>> => engine.drainTimer \/ engine.applyInFlight
    /\ Len(requests) <= 1
    /\ \A i \in DOMAIN requests :
          IF IsApply(requests[i]) THEN requests[i].first = cursor ELSE engine.cursorInFlight
    /\ \A r \in replies :
          /\ requests = <<>>
          /\ IF IsApply(r) THEN r.ok ELSE r = CursorReply(cursor) /\ engine.cursorInFlight

\* The inductive invariant of the proofs: from the mailbox to the stable state with
\* any timing, and from the log to the mailbox when transactions are prompt.
IngestInv ==
    /\ AppliedExactlyOnce
    /\ StatusFollowsCursor
    /\ up => StockInv /\ BatchInv
    /\ up /\ prompt => RunInv /\ SessionInv
-----------------------------------------------------------------------------
\* Every record on the log is applied at last, or skipped as an echo: full
\* channels, full buffers, lost sessions and restarts lose no wakeup.
EventuallyApplied == \A n \in Seqs : (n < Len(slog)) ~> (n < cursor)
=============================================================================
