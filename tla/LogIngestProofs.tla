--------------------------- MODULE LogIngestProofs ---------------------------
(***************************************************************************)
(* Proofs about LogIngest, for every length of the log, every capacity of  *)
(* channel and buffer and every number of faults.                          *)
(***************************************************************************)
EXTENDS LogIngest, SequenceTheorems, TLAPS

(* Sequences.                                                              *)

\* The first element and the rest of a queue.
LEMMA QueueTail ==
    ASSUME NEW S, NEW s \in Seq(S), s # <<>>
    PROVE  /\ Len(s) \in Nat /\ Len(s) > 0 /\ Tail(s) \in Seq(S)
           /\ Len(Tail(s)) = Len(s) - 1
           /\ DOMAIN s = 1 .. Len(s) /\ DOMAIN Tail(s) = 1 .. Len(s) - 1
           /\ \A i \in DOMAIN Tail(s) : Tail(s)[i] = s[i + 1] /\ i + 1 \in DOMAIN s
           /\ Head(s) = s[1] /\ s[1] \in S /\ 1 \in DOMAIN s
<1>1. Len(s) \in Nat /\ Len(s) > 0 /\ s[1] \in S /\ DOMAIN s = 1 .. Len(s)
  BY LenProperties, EmptySeq
<1>2. /\ Tail(s) \in Seq(S) /\ Len(Tail(s)) = Len(s) - 1 /\ Head(s) = s[1]
      /\ \A i \in 1 .. Len(s) - 1 : Tail(s)[i] = s[i + 1]
  BY <1>1, HeadTailProperties
<1>3. DOMAIN Tail(s) = 1 .. Len(s) - 1
  BY <1>2, LenProperties
<1> QED  BY <1>1, <1>2, <1>3

\* A queue with one more element.
LEMMA QueueAppend ==
    ASSUME NEW S, NEW s \in Seq(S), NEW x \in S
    PROVE  /\ Len(s) \in Nat /\ Append(s, x) \in Seq(S)
           /\ Len(Append(s, x)) = Len(s) + 1
           /\ DOMAIN s = 1 .. Len(s) /\ DOMAIN Append(s, x) = 1 .. Len(s) + 1
           /\ \A i \in DOMAIN s : Append(s, x)[i] = s[i]
           /\ Append(s, x)[Len(s) + 1] = x
           /\ Append(s, x) # <<>>
           /\ Head(Append(s, x)) = IF s = <<>> THEN x ELSE Head(s)
           /\ s = <<>> <=> Len(s) = 0
<1>1. /\ Len(s) \in Nat /\ Append(s, x) \in Seq(S)
      /\ Len(Append(s, x)) = Len(s) + 1
      /\ \A i \in 1 .. Len(s) : Append(s, x)[i] = s[i]
      /\ Append(s, x)[Len(s) + 1] = x
      /\ DOMAIN s = 1 .. Len(s)
  BY AppendProperties, LenProperties
<1>2. DOMAIN Append(s, x) = 1 .. Len(s) + 1 /\ (s = <<>> <=> Len(s) = 0)
      /\ Append(s, x) # <<>>
  BY <1>1, LenProperties, EmptySeq
<1>3. Head(Append(s, x)) = Append(s, x)[1]
  BY <1>1, <1>2, HeadTailProperties
<1>4. s # <<>> => Head(s) = s[1] /\ 1 \in 1 .. Len(s)
  BY <1>1, <1>2, HeadTailProperties
<1> QED  BY <1>1, <1>2, <1>3, <1>4

\* A message is added to the buffer.
LEMMA BufferAppend ==
    ASSUME NEW s \in Seq(Seqs), NEW x \in Seqs
    PROVE  /\ DOMAIN Append(s, x) = 1 .. Len(s) + 1 /\ Append(s, x) # <<>>
           /\ \A i \in DOMAIN s : Append(s, x)[i] = s[i]
           /\ Append(s, x)[Len(s) + 1] = x
BY QueueAppend
-----------------------------------------------------------------------------
(* Types.                                                                  *)

\* The constants of the module, and what is a record number.
LEMMA Numbers ==
    /\ MaxSeq \in Nat /\ MaxFaults \in Nat /\ ChannelCap \in Nat /\ BufferCap \in Nat
    /\ ChannelCap > 0 /\ BufferCap > 0
    /\ \A n \in Seqs : n \in Nat /\ n < MaxSeq /\ n + 1 \in 0 .. MaxSeq
    /\ Timings \subseteq BOOLEAN
BY IngestConstants DEF Seqs

\* The events of the reader and their types.
LEMMA EventFields ==
    /\ Connected \in EventType /\ Disconnected \in EventType
    /\ \A n \in Seqs : ReadEvent(n) \in EventType
    /\ \A e \in EventType : e.type \in {"Read", "Connected", "Disconnected"}
    /\ \A e \in EventType : e.type = "Read" => e.seq \in Seqs
    /\ Connected.type = "Connected" /\ Disconnected.type = "Disconnected"
    /\ \A n \in Seqs : ReadEvent(n).type = "Read" /\ ReadEvent(n).seq = n
<1>1. Connected.type = "Connected" /\ Disconnected.type = "Disconnected"
  BY DEF Connected, Disconnected
<1>2. \A n \in Seqs : ReadEvent(n).type = "Read" /\ ReadEvent(n).seq = n
  BY DEF ReadEvent
<1>3. /\ Connected \in EventType /\ Disconnected \in EventType
      /\ \A n \in Seqs : ReadEvent(n) \in EventType
  BY DEF EventType
<1>4. ASSUME NEW e \in EventType
      PROVE  /\ e.type \in {"Read", "Connected", "Disconnected"}
             /\ e.type = "Read" => e.seq \in Seqs
  <2>1. e = Connected \/ e = Disconnected \/ \E n \in Seqs : e = ReadEvent(n)
    BY DEF EventType
  <2> QED  BY <1>1, <1>2, <2>1
<1> QED  BY <1>1, <1>2, <1>3, <1>4

\* The fields of requests and replies.
LEMMA MessageFields ==
    /\ \A f, l \in Seqs : ApplyReq(f, l) \in RequestType /\ IsApply(ApplyReq(f, l))
          /\ ApplyReq(f, l).first = f /\ ApplyReq(f, l).last = l
    /\ CursorReq \in RequestType /\ ~IsApply(CursorReq)
    /\ \A l \in Seqs, ok \in BOOLEAN : ApplyReply(l, ok) \in ReplyType
          /\ IsApply(ApplyReply(l, ok))
          /\ ApplyReply(l, ok).value = l /\ ApplyReply(l, ok).ok = ok
    /\ \A c \in 0 .. MaxSeq : CursorReply(c) \in ReplyType /\ ~IsApply(CursorReply(c))
          /\ CursorReply(c).value = c
<1> USE Numbers DEF IsApply
<1>1. \A f, l \in Seqs : ApplyReq(f, l) \in RequestType /\ IsApply(ApplyReq(f, l))
          /\ ApplyReq(f, l).first = f /\ ApplyReq(f, l).last = l
  BY DEF ApplyReq, RequestType
<1>2. CursorReq \in RequestType /\ ~IsApply(CursorReq)
  BY DEF CursorReq, RequestType
<1>3. \A l \in Seqs, ok \in BOOLEAN : ApplyReply(l, ok) \in ReplyType
          /\ IsApply(ApplyReply(l, ok))
          /\ ApplyReply(l, ok).value = l /\ ApplyReply(l, ok).ok = ok
  BY DEF ApplyReply, ReplyType, Seqs
<1>4. \A c \in 0 .. MaxSeq : CursorReply(c) \in ReplyType /\ ~IsApply(CursorReply(c))
          /\ CursorReply(c).value = c
  BY DEF CursorReply, ReplyType
<1> QED  BY <1>1, <1>2, <1>3, <1>4

\* The initial states are well typed.
LEMMA TypeInit == Init => TypeOK
<1> USE Numbers
<1> SUFFICES ASSUME Init PROVE TypeOK
  OBVIOUS
<1>1. engine \in EngineType /\ Len(engine.buffer) <= BufferCap
  BY EmptySeq DEF Init, EngineFrom, EngineType
<1>2. reader \in [state : {"connecting", "connected", "waiting"}, next : 0 .. MaxSeq]
  BY DEF Init, ReaderAt
<1>3. applied \in [Seqs -> Nat]
  BY DEF Init
<1>4. /\ slog \in Seq(Origins) /\ Len(slog) <= MaxSeq
      /\ toReader \in Seq(0 .. MaxSeq) /\ events \in Seq(EventType)
      /\ Len(events) <= ChannelCap /\ requests \in Seq(RequestType)
  BY EmptySeq DEF Init
<1> QED  BY <1>1, <1>2, <1>3, <1>4 DEF Init, TypeOK

\* Every step keeps the types, as long as the drain timer finds messages.
LEMMA TypeNext ==
    ASSUME TypeOK, up => StockInv /\ BatchInv, [Next]_vars
    PROVE  TypeOK'
<1> USE Numbers
<1>1. CASE \E origin \in Origins : Publish(origin)
  <2>1. PICK origin \in Origins : Publish(origin)
    BY <1>1
  <2>2. slog' \in Seq(Origins) /\ Len(slog') <= MaxSeq
    BY <2>1, AppendProperties DEF Publish, TypeOK
  <2> QED  BY <2>1, <2>2 DEF Publish, TypeOK, dbVars, readerVars, semVars
<1>2. CASE ReaderConnect
  <2>1. events' \in Seq(EventType) /\ Len(events') <= ChannelCap
    BY <1>2, QueueAppend, EventFields DEF ReaderConnect, Send, TypeOK
  <2>2. reader' \in [state : {"connecting", "connected", "waiting"}, next : 0 .. MaxSeq]
    BY <1>2 DEF ReaderConnect, TypeOK
  <2> QED  BY <1>2, <2>1, <2>2 DEF ReaderConnect, TypeOK, dbVars, semVars
<1>3. CASE ReaderRead
  <2>1. reader.next \in Seqs
    BY <1>3 DEF ReaderRead, TypeOK, Seqs
  <2>2. events' \in Seq(EventType) /\ Len(events') <= ChannelCap
    BY <1>3, <2>1, QueueAppend, EventFields DEF ReaderRead, Send, TypeOK
  <2>3. reader' \in [state : {"connecting", "connected", "waiting"}, next : 0 .. MaxSeq]
    BY <1>3, <2>1 DEF ReaderRead, TypeOK
  <2> QED  BY <1>3, <2>2, <2>3 DEF ReaderRead, TypeOK, dbVars, semVars
<1>4. CASE ReaderDisconnect
  <2>1. events' \in Seq(EventType) /\ Len(events') <= ChannelCap
    BY <1>4, QueueAppend, EventFields DEF ReaderDisconnect, Send, TypeOK
  <2>2. reader' \in [state : {"connecting", "connected", "waiting"}, next : 0 .. MaxSeq]
    BY <1>4 DEF ReaderDisconnect, TypeOK
  <2>3. faults' \in 0 .. MaxFaults
    BY <1>4 DEF ReaderDisconnect, TypeOK
  <2> QED  BY <1>4, <2>1, <2>2, <2>3 DEF ReaderDisconnect, TypeOK, dbVars, semVars
<1>5. CASE ReaderReconnect
  <2>1. toReader' \in Seq(0 .. MaxSeq) /\ Head(toReader) \in 0 .. MaxSeq
    BY <1>5, QueueTail DEF ReaderReconnect, TypeOK
  <2>2. reader' \in [state : {"connecting", "connected", "waiting"}, next : 0 .. MaxSeq]
    BY <1>5, <2>1 DEF ReaderReconnect, ReaderAt
  <2> QED  BY <1>5, <2>1, <2>2 DEF ReaderReconnect, TypeOK, dbVars, semVars
<1>6. CASE OnReaderConnected
  <2>1. events' \in Seq(EventType) /\ Len(events') <= ChannelCap
    BY <1>6, QueueTail DEF OnReaderConnected, TakeEvent, TypeOK
  <2>2. engine' \in EngineType /\ Len(engine'.buffer) <= BufferCap
    BY <1>6 DEF OnReaderConnected, TypeOK, EngineType
  <2> QED  BY <1>6, <2>1, <2>2
              DEF OnReaderConnected, TypeOK, dbVars, readerVars, semVars
<1>7. CASE OnReaderDisconnected
  <2>1. events' \in Seq(EventType) /\ Len(events') <= ChannelCap
    BY <1>7, QueueTail DEF OnReaderDisconnected, TakeEvent, TypeOK
  <2>2. engine' \in EngineType /\ Len(engine'.buffer) <= BufferCap
    BY <1>7 DEF OnReaderDisconnected, TypeOK, EngineType
  <2> QED  BY <1>7, <2>1, <2>2
              DEF OnReaderDisconnected, TypeOK, dbVars, readerVars, semVars
<1>8. CASE OnRead
  <2>1. Head(events).seq \in Seqs
    BY <1>8, QueueTail, EventFields DEF OnRead, TakeEvent, TypeOK
  <2>2. engine' \in EngineType /\ Len(engine'.buffer) <= BufferCap
    <3>1. engine.buffer \in Seq(Seqs) /\ Len(engine.buffer) < BufferCap
      BY <1>8 DEF OnRead, TakeEvent, HasCapacity, TypeOK, EngineType
    <3>2. /\ Append(engine.buffer, Head(events).seq) \in Seq(Seqs)
          /\ Len(Append(engine.buffer, Head(events).seq)) <= BufferCap
      BY <2>1, <3>1, QueueAppend
    <3> QED  BY <1>8, <3>2 DEF OnRead, TypeOK, EngineType
  <2>3. events' \in Seq(EventType) /\ Len(events') <= ChannelCap
    BY <1>8, QueueTail DEF OnRead, TakeEvent, TypeOK
  <2> QED  BY <1>8, <2>2, <2>3 DEF OnRead, TypeOK, dbVars, readerVars, semVars
<1>9. CASE DrainBuffer
  <2>1. up' \in BOOLEAN
    BY <1>9 DEF DrainBuffer, ContiguousBatch, TypeOK
  <2>2. engine' \in EngineType /\ Len(engine'.buffer) <= BufferCap
    <3>1. <<>> \in Seq(Seqs) /\ Len(<<>>) = 0
      BY EmptySeq
    <3>2. CASE engine.applyInFlight
      BY <1>9, <3>2 DEF DrainBuffer, TypeOK, EngineType
    <3>3. CASE ~engine.applyInFlight
      <4>1. engine' = [engine EXCEPT !.drainTimer = FALSE, !.buffer = <<>>,
                                    !.applyInFlight = TRUE]
        BY <1>9, <3>3 DEF DrainBuffer
      <4>2. ASSUME NEW q \in Seq(Seqs), Len(q) = 0,
                   engine' = [engine EXCEPT !.drainTimer = FALSE, !.buffer = q,
                                            !.applyInFlight = TRUE]
            PROVE  engine' \in EngineType /\ Len(engine'.buffer) <= BufferCap
        <5>1. engine \in EngineType
          BY DEF TypeOK
        <5>2. engine' \in EngineType
          BY <4>2, <5>1 DEF EngineType
        <5>3. engine'.buffer = q
          BY <4>2, <5>1 DEF EngineType
        <5> QED  BY <4>2, <5>2, <5>3
      <4> QED  BY <3>1, <4>1, <4>2
    <3> QED  BY <3>2, <3>3
  <2>3. requests' \in Seq(RequestType)
    <3>1. engine.buffer # <<>> /\ engine.buffer \in Seq(Seqs)
      BY <1>9 DEF DrainBuffer, StockInv, TypeOK, EngineType
    <3>2. engine.buffer[1] \in Seqs /\ engine.buffer[Len(engine.buffer)] \in Seqs
      BY <3>1, QueueTail, ElementOfSeq
    <3> DEFINE b == ApplyReq(engine.buffer[1], engine.buffer[Len(engine.buffer)])
    <3>3. b \in RequestType
      BY <3>2, MessageFields
    <3> HIDE DEF b
    <3>4. Append(requests, b) \in Seq(RequestType)
      BY <3>3, QueueAppend DEF TypeOK
    <3> QED  BY <1>9, <3>4 DEF DrainBuffer, TypeOK, b
  <2> QED  BY <1>9, <2>1, <2>2, <2>3 DEF DrainBuffer, TypeOK, dbVars, readerVars
<1>10. CASE ReaderReconnectTimer
  <2>1. engine' \in EngineType /\ Len(engine'.buffer) <= BufferCap
    BY <1>10 DEF ReaderReconnectTimer, TypeOK, EngineType
  <2>2. requests' \in Seq(RequestType)
    BY <1>10, MessageFields, QueueAppend DEF ReaderReconnectTimer, TypeOK
  <2> QED  BY <1>10, <2>1, <2>2 DEF ReaderReconnectTimer, TypeOK, dbVars, readerVars
<1>11. CASE OnApplyReply
  <2>1. PICK r \in replies :
            /\ IsApply(r) /\ replies' = replies \ {r} /\ up' = r.ok
            /\ engine' = [engine EXCEPT
                             !.applyInFlight = FALSE,
                             !.status = IF r.ok THEN r.value + 1 ELSE @,
                             !.drainTimer = @ \/ (r.ok /\ engine.buffer # <<>>)]
    BY <1>11 DEF OnApplyReply, IsApply
  <2>2. up /\ r \in ReplyType /\ (r.ok => r.value + 1 \in 0 .. MaxSeq)
    BY <1>11, <2>1 DEF OnApplyReply, BatchInv, TypeOK
  <2>3. up' \in BOOLEAN
    BY <2>1, <2>2 DEF ReplyType
  <2>4. engine' \in EngineType /\ Len(engine'.buffer) <= BufferCap
    BY <2>1, <2>2 DEF TypeOK, EngineType, ReplyType
  <2> QED  BY <1>11, <2>1, <2>3, <2>4 DEF OnApplyReply, TypeOK, dbVars, readerVars
<1>12. CASE OnCursorReply
  <2>1. engine' \in EngineType /\ Len(engine'.buffer) <= BufferCap
    BY <1>12 DEF OnCursorReply, TypeOK, EngineType
  <2>2. replies' \subseteq ReplyType /\ toReader' \in Seq(0 .. MaxSeq)
    <3>1. PICK r \in replies :
              /\ replies' = replies \ {r}
              /\ toReader' = IF engine.link = "Reconnecting"
                             THEN Append(toReader, r.value) ELSE toReader
      BY <1>12 DEF OnCursorReply
    <3>2. r.value \in 0 .. MaxSeq
      BY DEF TypeOK, ReplyType
    <3>3. Append(toReader, r.value) \in Seq(0 .. MaxSeq)
      BY <3>2, QueueAppend DEF TypeOK
    <3> QED  BY <3>1, <3>3 DEF TypeOK
  <2> QED  BY <1>12, <2>1, <2>2 DEF OnCursorReply, TypeOK, dbVars
<1>13. CASE ApplyBatch
  <2> DEFINE b == Head(requests)
  <2>1. requests' \in Seq(RequestType) /\ b \in RequestType /\ b = requests[1]
        /\ 1 \in DOMAIN requests /\ IsApply(b) /\ up
    BY <1>13, QueueTail DEF ApplyBatch, TakeRequest, TypeOK, IsApply
  <2>2. b.first <= b.last /\ b.last < Len(slog) /\ b.last \in Nat
    BY <2>1 DEF BatchInv, RequestType, Seqs
  <2>3. b.last \in Seqs /\ b.last + 1 \in 0 .. MaxSeq
    <3>1. Len(slog) \in Nat /\ Len(slog) <= MaxSeq
      BY LenProperties DEF TypeOK
    <3>2. PICK k, n : k = b.last /\ n = Len(slog)
      OBVIOUS
    <3> HIDE DEF b
    <3>3. k \in Nat /\ n \in Nat /\ k < n /\ n <= MaxSeq
      BY <2>2, <3>1, <3>2
    <3>4. k \in Seqs /\ k + 1 \in 0 .. MaxSeq
      BY <3>3 DEF Seqs
    <3> QED  BY <3>2, <3>4
  <2>4. cursor' \in 0 .. MaxSeq
    BY <1>13, <2>3 DEF ApplyBatch, TypeOK
  <2>5. replies' \subseteq ReplyType
    <3>1. ApplyReply(b.last, b.first = cursor) \in ReplyType
      BY <2>3, MessageFields
    <3> QED  BY <1>13, <3>1 DEF ApplyBatch, TypeOK
  <2>6. applied' \in [Seqs -> Nat]
    <3>1. WithApplied(Foreign(b.first, b.last)) \in [Seqs -> Nat]
      BY DEF TypeOK, WithApplied
    <3> QED  BY <1>13, <3>1 DEF ApplyBatch, TypeOK
  <2> QED  BY <1>13, <2>1, <2>4, <2>5, <2>6 DEF ApplyBatch, TypeOK, readerVars
<1>14. CASE ReadStableCursor
  <2>1. requests' \in Seq(RequestType)
    BY <1>14, QueueTail DEF ReadStableCursor, TakeRequest, TypeOK
  <2>2. replies' \subseteq ReplyType
    BY <1>14, MessageFields DEF ReadStableCursor, TypeOK
  <2> QED  BY <1>14, <2>1, <2>2 DEF ReadStableCursor, TypeOK, dbVars, readerVars
<1>15. CASE Crash
  <2>1. faults' \in 0 .. MaxFaults
    BY <1>15 DEF Crash, TypeOK
  <2> QED  BY <1>15, <2>1 DEF Crash, TypeOK, dbVars, readerVars, semVars
<1>16. CASE Restart
  <2>1. engine' \in EngineType /\ Len(engine'.buffer) <= BufferCap
    BY <1>16, EmptySeq DEF Restart, EngineFrom, EngineType, TypeOK
  <2>2. reader' \in [state : {"connecting", "connected", "waiting"}, next : 0 .. MaxSeq]
    BY <1>16 DEF Restart, ReaderAt, TypeOK
  <2>3. /\ toReader' \in Seq(0 .. MaxSeq) /\ events' \in Seq(EventType)
        /\ Len(events') <= ChannelCap /\ requests' \in Seq(RequestType)
    BY <1>16, EmptySeq DEF Restart
  <2> QED  BY <1>16, <2>1, <2>2, <2>3 DEF Restart, TypeOK, dbVars
<1>17. CASE UNCHANGED vars
  BY <1>17 DEF vars, TypeOK, dbVars, readerVars, semVars
<1> QED
  BY <1>1, <1>2, <1>3, <1>4, <1>5, <1>6, <1>7, <1>8, <1>9, <1>10, <1>11, <1>12, <1>13,
     <1>14, <1>15, <1>16, <1>17 DEF Next, Reader, Engine, Semantic
-----------------------------------------------------------------------------
(* The stable state, with any timing.                                      *)

\* One more record on the log takes nothing from what is known of the others.
LEMMA LogGrows ==
    ASSUME TypeOK, NEW origin \in Origins, Publish(origin)
    PROVE  /\ Len(slog) \in Nat /\ Len(slog') = Len(slog) + 1
           /\ \A n \in Nat : n < Len(slog) => OriginOf(n)' = OriginOf(n)
<1>1. /\ Len(slog) \in Nat /\ Len(slog') = Len(slog) + 1
      /\ \A i \in 1 .. Len(slog) : slog'[i] = slog[i]
  BY AppendProperties, LenProperties DEF Publish, TypeOK
<1> QED  BY <1>1 DEF OriginOf

\* A batch that starts at the cursor moves records and cursor together.
LEMMA ApplyBatchExact ==
    ASSUME TypeOK, AppliedExactlyOnce, up => BatchInv, ApplyBatch
    PROVE  AppliedExactlyOnce'
<1> DEFINE b == Head(requests)
<1> USE Numbers
<1>1. b \in RequestType /\ b = requests[1] /\ 1 \in DOMAIN requests /\ IsApply(b) /\ up
  BY QueueTail DEF ApplyBatch, TakeRequest, TypeOK, IsApply
<1>2. b.first <= b.last /\ b.last < Len(slog) /\ b.last \in Nat /\ b.first \in Nat
  BY <1>1 DEF BatchInv, RequestType, Seqs
<1>3. slog' = slog
  BY DEF ApplyBatch
<1>4. CASE b.first # cursor
  BY <1>3, <1>4 DEF ApplyBatch, AppliedExactlyOnce, OriginOf
<1>5. CASE b.first = cursor
  <2>1. cursor' = b.last + 1 /\ applied' = WithApplied(Foreign(b.first, b.last))
    BY <1>5 DEF ApplyBatch
  <2>2. cursor' <= Len(slog')
    BY <1>2, <1>3, <2>1, LenProperties DEF TypeOK
  <2>3. ASSUME NEW n \in Seqs
        PROVE  applied'[n] = IF n < cursor' /\ OriginOf(n)' = "other" THEN 1 ELSE 0
    <3>1. applied'[n] = applied[n] + IF n \in cursor .. b.last /\ OriginOf(n) = "other"
                                     THEN 1 ELSE 0
      BY <1>5, <2>1 DEF WithApplied, Foreign
    <3>2. applied[n] = IF n < cursor /\ OriginOf(n) = "other" THEN 1 ELSE 0
      BY DEF AppliedExactlyOnce
    <3>3. OriginOf(n)' = OriginOf(n)
      BY <1>3 DEF OriginOf
    <3>4. n \in Nat /\ cursor \in Nat
      BY DEF TypeOK
    <3> QED  BY <1>2, <1>5, <2>1, <3>1, <3>2, <3>3, <3>4
  <2> QED  BY <2>2, <2>3 DEF AppliedExactlyOnce
<1> QED  BY <1>4, <1>5

\* No step applies a record twice or leaves one out.
LEMMA ExactNext ==
    ASSUME TypeOK, AppliedExactlyOnce, up => BatchInv, [Next]_vars
    PROVE  AppliedExactlyOnce'
<1>1. CASE \E origin \in Origins : Publish(origin)
  <2>1. PICK origin \in Origins : Publish(origin)
    BY <1>1
  <2>2. cursor' = cursor /\ applied' = applied /\ cursor \in Nat
    BY <2>1, Numbers DEF Publish, dbVars, TypeOK
  <2>3. /\ Len(slog) \in Nat /\ Len(slog') = Len(slog) + 1
        /\ \A n \in Nat : n < Len(slog) => OriginOf(n)' = OriginOf(n)
    BY <2>1, LogGrows
  <2> QED  BY <2>2, <2>3, Numbers DEF AppliedExactlyOnce
<1>2. CASE ApplyBatch
  BY <1>2, ApplyBatchExact
<1>3. CASE UNCHANGED <<slog, cursor, applied>>
  BY <1>3 DEF AppliedExactlyOnce, OriginOf
<1>4. Reader \/ Engine \/ ReadStableCursor \/ Crash \/ Restart \/ UNCHANGED vars
      => UNCHANGED <<slog, cursor, applied>>
  BY DEF Reader, ReaderConnect, ReaderRead, ReaderDisconnect, ReaderReconnect, Engine,
         OnReaderConnected, OnReaderDisconnected, OnRead, DrainBuffer,
         ReaderReconnectTimer, OnApplyReply, OnCursorReply, ReadStableCursor, Crash,
         Restart, vars, dbVars
<1> QED  BY <1>1, <1>2, <1>3, <1>4 DEF Next, Semantic

\* What is in buffer and channel stays on the log, and the timer is armed only
\* for messages.
LEMMA StockNext ==
    ASSUME TypeOK, up => StockInv, [Next]_vars, up'
    PROVE  StockInv'
<1> USE Numbers
<1>0. /\ engine.buffer \in Seq(Seqs) /\ Len(engine.buffer) \in Nat
      /\ DOMAIN engine.buffer = 1 .. Len(engine.buffer)
      /\ events \in Seq(EventType) /\ DOMAIN events = 1 .. Len(events)
      /\ Len(events) \in Nat /\ Len(slog) \in Nat
      /\ engine \in EngineType
      /\ \A i \in DOMAIN engine.buffer : engine.buffer[i] \in Nat
      /\ \A i \in DOMAIN events : events[i].type = "Read" => events[i].seq \in Nat
  BY LenProperties, ElementOfSeq, EventFields DEF TypeOK, EngineType
<1>1. CASE \E origin \in Origins : Publish(origin)
  <2>1. PICK origin \in Origins : Publish(origin)
    BY <1>1
  <2>2. Len(slog') = Len(slog) + 1
    BY <2>1, LogGrows
  <2>3. UNCHANGED <<up, engine, events>>
    BY <2>1 DEF Publish
  <2>4. ASSUME NEW n \in Nat, n < Len(slog) PROVE n < Len(slog')
    BY <1>0, <2>2, <2>4
  <2>5. StockInv
    BY <2>3
  <2>6. \A i \in DOMAIN engine.buffer : engine.buffer[i] < Len(slog')
    BY <1>0, <2>4, <2>5 DEF StockInv
  <2>7. \A i \in DOMAIN events : events[i].type = "Read" => events[i].seq < Len(slog')
    BY <1>0, <2>4, <2>5 DEF StockInv
  <2> QED  BY <2>3, <2>5, <2>6, <2>7 DEF StockInv
<1>2. ASSUME NEW e \in EventType, e.type = "Read" => e.seq < Len(slog),
             up, events' = Append(events, e), UNCHANGED <<slog, engine>>
      PROVE  StockInv'
  <2>1. /\ DOMAIN events' = 1 .. Len(events) + 1 /\ events'[Len(events) + 1] = e
        /\ \A i \in DOMAIN events : events'[i] = events[i]
    BY <1>0, <1>2, QueueAppend
  <2>2. ASSUME NEW i \in DOMAIN events', events'[i].type = "Read"
        PROVE  events'[i].seq < Len(slog)
    BY <1>0, <1>2, <2>1, <2>2 DEF StockInv
  <2> QED  BY <1>2, <2>2 DEF StockInv
<1>3. CASE ReaderConnect \/ ReaderRead \/ ReaderDisconnect
  <2>1. ReaderRead => reader.next \in Seqs /\ reader.next < Len(slog)
    BY DEF ReaderRead, TypeOK, Seqs
  <2> QED  BY <1>2, <1>3, <2>1, EventFields
              DEF ReaderConnect, ReaderRead, ReaderDisconnect, Send
<1>4. ASSUME NEW type, TakeEvent(type)
      PROVE  /\ up /\ events # <<>>
             /\ \A i \in DOMAIN events' : events'[i] = events[i + 1] /\ i + 1 \in DOMAIN events
             /\ Head(events) = events[1] /\ 1 \in DOMAIN events
  BY <1>0, <1>4, QueueTail DEF TakeEvent
<1>5. CASE OnReaderConnected \/ OnReaderDisconnected
  <2>1. /\ engine'.buffer = engine.buffer /\ engine'.drainTimer = engine.drainTimer
        /\ slog' = slog
    BY <1>0, <1>5 DEF OnReaderConnected, OnReaderDisconnected, EngineType
  <2>2. TakeEvent("Connected") \/ TakeEvent("Disconnected")
    BY <1>5 DEF OnReaderConnected, OnReaderDisconnected
  <2>3. /\ up
        /\ \A i \in DOMAIN events' : events'[i] = events[i + 1] /\ i + 1 \in DOMAIN events
    BY <1>4, <2>2
  <2>4. StockInv
    BY <2>3
  <2> QED  BY <2>1, <2>3, <2>4 DEF StockInv
<1>6. CASE OnRead
  <2>1. /\ up /\ \A i \in DOMAIN events' : events'[i] = events[i + 1] /\ i + 1 \in DOMAIN events
        /\ Head(events) = events[1] /\ 1 \in DOMAIN events /\ events[1].type = "Read"
    BY <1>4, <1>6 DEF OnRead, TakeEvent
  <2>2. events[1].seq \in Seqs /\ events[1].seq < Len(slog)
    BY <1>0, <2>1, ElementOfSeq, EventFields DEF StockInv
  <2>3. engine'.buffer = Append(engine.buffer, events[1].seq) /\ slog' = slog
    BY <1>0, <1>6, <2>1 DEF OnRead, EngineType
  <2>4. /\ DOMAIN engine'.buffer = 1 .. Len(engine.buffer) + 1 /\ engine'.buffer # <<>>
        /\ \A i \in DOMAIN engine.buffer : engine'.buffer[i] = engine.buffer[i]
        /\ engine'.buffer[Len(engine.buffer) + 1] = events[1].seq
    <3> DEFINE x == events[1].seq
    <3> HIDE DEF x
    <3>1. x \in Seqs /\ engine'.buffer = Append(engine.buffer, x)
      BY <2>2, <2>3 DEF x
    <3>2. /\ DOMAIN Append(engine.buffer, x) = 1 .. Len(engine.buffer) + 1
          /\ Append(engine.buffer, x) # <<>>
          /\ \A i \in DOMAIN engine.buffer : Append(engine.buffer, x)[i] = engine.buffer[i]
          /\ Append(engine.buffer, x)[Len(engine.buffer) + 1] = x
      BY <1>0, <3>1, BufferAppend
    <3> QED  BY <3>1, <3>2 DEF x
  <2>5. ASSUME NEW i \in DOMAIN engine'.buffer PROVE engine'.buffer[i] < Len(slog)
    <3>1. \A j \in DOMAIN engine.buffer : engine.buffer[j] < Len(slog)
      BY <2>1 DEF StockInv
    <3>2. i \in DOMAIN engine.buffer \/ i = Len(engine.buffer) + 1
      BY <1>0, <2>4
    <3> QED  BY <2>2, <2>4, <3>1, <3>2
  <2>6. ASSUME NEW i \in DOMAIN events', events'[i].type = "Read"
        PROVE  events'[i].seq < Len(slog)
    BY <2>1, <2>6 DEF StockInv
  <2> QED  BY <2>3, <2>4, <2>5, <2>6 DEF StockInv
<1>7. CASE DrainBuffer
  <2>1. events' = events /\ slog' = slog /\ up /\ ~engine'.drainTimer
    BY <1>0, <1>7 DEF DrainBuffer, EngineType
  <2>2. engine'.buffer = engine.buffer \/ engine'.buffer = <<>>
    BY <1>0, <1>7 DEF DrainBuffer, EngineType
  <2> QED  BY <2>1, <2>2 DEF StockInv
<1>8. CASE OnApplyReply
  <2>1. PICK r \in replies :
            engine' = [engine EXCEPT
                             !.applyInFlight = FALSE,
                             !.status = IF r.ok THEN r.value + 1 ELSE @,
                             !.drainTimer = @ \/ (r.ok /\ engine.buffer # <<>>)]
    BY <1>8 DEF OnApplyReply
  <2>2. /\ engine'.buffer = engine.buffer
        /\ engine'.drainTimer => engine.drainTimer \/ engine.buffer # <<>>
    BY <1>0, <2>1 DEF EngineType
  <2> QED  BY <1>8, <2>2 DEF OnApplyReply, StockInv
<1>9. CASE ReaderReconnectTimer \/ OnCursorReply
  <2>1. engine'.buffer = engine.buffer /\ engine'.drainTimer = engine.drainTimer
    BY <1>0, <1>9 DEF ReaderReconnectTimer, OnCursorReply, EngineType
  <2> QED  BY <1>9, <2>1 DEF ReaderReconnectTimer, OnCursorReply, StockInv
<1>10. CASE Restart
  <2>1. ~engine'.drainTimer /\ engine'.buffer = <<>> /\ events' = <<>>
    BY <1>10 DEF Restart, EngineFrom
  <2> QED  BY <2>1 DEF StockInv
<1>11. CASE UNCHANGED <<up, slog, events, engine>>
  BY <1>11 DEF StockInv
<1>12. ReaderReconnect \/ Semantic \/ UNCHANGED vars => UNCHANGED <<up, slog, events, engine>>
  BY DEF ReaderReconnect, Semantic, ApplyBatch, ReadStableCursor, vars
<1>13. ~Crash
  BY DEF Crash
<1> QED
  BY <1>1, <1>3, <1>5, <1>6, <1>7, <1>8, <1>9, <1>10, <1>11, <1>12, <1>13
     DEF Next, Reader, Engine

\* The batch in flight and the cursor that status reports.
LEMMA BatchNext ==
    ASSUME TypeOK, up => StockInv /\ BatchInv, StatusFollowsCursor, [Next]_vars, up'
    PROVE  BatchInv' /\ StatusFollowsCursor'
<1> USE Numbers
<1>0. /\ engine \in EngineType /\ requests \in Seq(RequestType) /\ replies \subseteq ReplyType
      /\ DOMAIN requests = 1 .. Len(requests) /\ Len(requests) \in Nat
      /\ \A i \in DOMAIN requests :
            requests[i] \in RequestType /\ requests[i].first \in Nat /\ requests[i].last \in Nat
      /\ Len(slog) \in Nat /\ cursor \in Nat /\ engine.status \in Nat
  <2>1. /\ engine \in EngineType /\ requests \in Seq(RequestType) /\ replies \subseteq ReplyType
        /\ slog \in Seq(Origins)
    BY DEF TypeOK
  <2>2. /\ DOMAIN requests = 1 .. Len(requests) /\ Len(requests) \in Nat
        /\ \A i \in DOMAIN requests : requests[i] \in RequestType
        /\ Len(slog) \in Nat
    BY <2>1, LenProperties, ElementOfSeq
  <2>3. \A m \in RequestType : m.first \in Nat /\ m.last \in Nat
    BY DEF RequestType, Seqs
  <2>4. cursor \in Nat /\ engine.status \in Nat
    BY <2>1 DEF TypeOK, EngineType
  <2> QED  BY <2>1, <2>2, <2>3, <2>4
<1>1. CASE \E origin \in Origins : Publish(origin)
  <2>1. PICK origin \in Origins : Publish(origin)
    BY <1>1
  <2>2. Len(slog') = Len(slog) + 1
    BY <2>1, LogGrows
  <2>3. UNCHANGED <<up, engine, requests, replies, cursor>>
    BY <2>1 DEF Publish, semVars, dbVars
  <2> QED  BY <1>0, <2>2, <2>3 DEF BatchInv, StatusFollowsCursor
<1>2. CASE UNCHANGED <<up, slog, requests, replies, cursor, engine.applyInFlight, engine.status>>
  BY <1>2 DEF BatchInv, StatusFollowsCursor
<1>3. Reader \/ OnReaderConnected \/ OnReaderDisconnected \/ OnRead \/ UNCHANGED vars
      => UNCHANGED <<up, slog, requests, replies, cursor, engine.applyInFlight, engine.status>>
  <2>1. Reader \/ UNCHANGED vars
        => UNCHANGED <<up, slog, requests, replies, cursor, engine.applyInFlight, engine.status>>
    BY DEF Reader, ReaderConnect, ReaderRead, ReaderDisconnect, ReaderReconnect, Send,
           vars, dbVars, semVars
  <2>2. OnReaderConnected \/ OnReaderDisconnected \/ OnRead
        => UNCHANGED <<up, slog, requests, replies, cursor, engine.applyInFlight, engine.status>>
    BY <1>0 DEF OnReaderConnected, OnReaderDisconnected, OnRead, dbVars, semVars, EngineType
  <2> QED  BY <2>1, <2>2
<1>4. CASE DrainBuffer
  <2>1. CASE engine.applyInFlight
    BY <1>0, <1>2, <1>4, <2>1 DEF DrainBuffer, EngineType, dbVars
  <2>2. CASE ~engine.applyInFlight
    <3> DEFINE f == engine.buffer[1]
               l == engine.buffer[Len(engine.buffer)]
    <3>1. /\ engine'.applyInFlight /\ engine'.status = engine.status
          /\ ContiguousBatch(engine.buffer) /\ requests' = Append(requests, ApplyReq(f, l))
          /\ UNCHANGED <<slog, cursor, replies>> /\ up
      BY <1>0, <1>4, <2>2 DEF DrainBuffer, EngineType, dbVars
    <3>2. engine.buffer # <<>> /\ engine.buffer \in Seq(Seqs)
      BY <1>0, <1>4 DEF DrainBuffer, StockInv, EngineType
    <3>3. /\ Len(engine.buffer) \in Nat /\ Len(engine.buffer) > 0 /\ f \in Seqs /\ l \in Seqs
          /\ Len(engine.buffer) \in DOMAIN engine.buffer
      BY <3>2, QueueTail, ElementOfSeq
    <3>4. f <= l /\ l < Len(slog)
      <4>1. \A i \in 1 .. Len(engine.buffer) : engine.buffer[i] = engine.buffer[1] + i - 1
        BY <3>1 DEF ContiguousBatch
      <4>2. l = f + Len(engine.buffer) - 1
        <5>1. Len(engine.buffer) \in 1 .. Len(engine.buffer)
          BY <3>3
        <5> QED  BY <4>1, <5>1
      <4>3. l < Len(slog)
        BY <3>1, <3>3 DEF StockInv
      <4> QED  BY <3>3, <4>2, <4>3
    <3>5. ApplyReq(f, l) \in RequestType /\ ApplyReq(f, l).first = f /\ ApplyReq(f, l).last = l
      BY <3>3, MessageFields
    <3> HIDE DEF f, l
    <3>6. /\ DOMAIN requests' = 1 .. Len(requests) + 1
          /\ \A i \in DOMAIN requests : requests'[i] = requests[i]
          /\ requests'[Len(requests) + 1] = ApplyReq(f, l)
      BY <1>0, <3>1, <3>5, QueueAppend
    <3>7. /\ \A i \in DOMAIN requests : ~IsApply(requests[i])
          /\ \A r \in replies : ~IsApply(r)
          /\ engine.status = cursor
      BY <2>2, <3>1 DEF BatchInv, StatusFollowsCursor
    <3> QED  BY <1>0, <3>1, <3>4, <3>5, <3>6, <3>7 DEF BatchInv, StatusFollowsCursor
  <2> QED  BY <2>1, <2>2
<1>5. CASE ReaderReconnectTimer
  <2>1. engine'.applyInFlight = engine.applyInFlight /\ engine'.status = engine.status
    BY <1>0, <1>5 DEF ReaderReconnectTimer, EngineType
  <2>2. UNCHANGED <<up, slog, cursor, replies>> /\ up
    BY <1>5 DEF ReaderReconnectTimer, dbVars
  <2>3. CASE requests' = requests
    BY <2>1, <2>2, <2>3 DEF BatchInv, StatusFollowsCursor
  <2>4. CASE requests' = Append(requests, CursorReq)
    <3>1. /\ DOMAIN requests' = 1 .. Len(requests) + 1
          /\ \A i \in DOMAIN requests : requests'[i] = requests[i]
          /\ requests'[Len(requests) + 1] = CursorReq /\ ~IsApply(CursorReq)
      BY <1>0, <2>4, MessageFields, QueueAppend
    <3> QED  BY <1>0, <2>1, <2>2, <3>1 DEF BatchInv, StatusFollowsCursor
  <2> QED  BY <1>5, <2>3, <2>4 DEF ReaderReconnectTimer
<1>6. CASE OnApplyReply
  <2>1. PICK r \in replies :
            /\ IsApply(r) /\ replies' = replies \ {r} /\ up' = r.ok
            /\ engine' = [engine EXCEPT
                             !.applyInFlight = FALSE,
                             !.status = IF r.ok THEN r.value + 1 ELSE @,
                             !.drainTimer = @ \/ (r.ok /\ engine.buffer # <<>>)]
    BY <1>6 DEF OnApplyReply, IsApply
  <2>2. UNCHANGED <<slog, cursor, requests>> /\ up /\ r.ok
    BY <1>6, <2>1 DEF OnApplyReply, dbVars
  <2>3. engine'.status = r.value + 1 /\ cursor = r.value + 1
    BY <1>0, <2>1, <2>2 DEF BatchInv, EngineType
  <2>4. /\ \A s \in replies' : ~IsApply(s)
        /\ \A i \in DOMAIN requests : ~IsApply(requests[i])
    BY <2>1, <2>2 DEF BatchInv
  <2> QED  BY <1>0, <2>2, <2>3, <2>4 DEF BatchInv, StatusFollowsCursor
<1>7. CASE OnCursorReply
  <2>1. PICK r \in replies : ~IsApply(r) /\ replies' = replies \ {r}
    BY <1>7 DEF OnCursorReply, IsApply
  <2>2. /\ UNCHANGED <<up, slog, cursor, requests>> /\ up
        /\ engine'.applyInFlight = engine.applyInFlight /\ engine'.status = engine.status
    BY <1>0, <1>7 DEF OnCursorReply, dbVars, EngineType
  <2> QED  BY <2>1, <2>2 DEF BatchInv, StatusFollowsCursor
<1>8. ASSUME NEW type, TakeRequest(type)
      PROVE  /\ up /\ 1 \in DOMAIN requests /\ Head(requests) = requests[1]
             /\ requests[1].type = type
             /\ \A i \in DOMAIN requests' :
                   requests'[i] = requests[i + 1] /\ i + 1 \in DOMAIN requests /\ i \in Nat
                   /\ i + 1 # 1
  <2>1. /\ requests # <<>> /\ requests' = Tail(requests) /\ up /\ Head(requests).type = type
    BY <1>8 DEF TakeRequest
  <2>2. /\ DOMAIN Tail(requests) = 1 .. Len(requests) - 1 /\ Len(requests) > 0
        /\ \A i \in DOMAIN Tail(requests) :
               Tail(requests)[i] = requests[i + 1] /\ i + 1 \in DOMAIN requests
        /\ Head(requests) = requests[1] /\ 1 \in DOMAIN requests
    BY <1>0, <2>1, QueueTail
  <2> QED  BY <1>0, <2>1, <2>2
<1>9. CASE ApplyBatch
  <2> DEFINE b == Head(requests)
             new == ApplyReply(b.last, b.first = cursor)
  <2>1. /\ up /\ 1 \in DOMAIN requests /\ b = requests[1] /\ IsApply(b)
        /\ \A i \in DOMAIN requests' :
               requests'[i] = requests[i + 1] /\ i + 1 \in DOMAIN requests /\ i + 1 # 1
    BY <1>8, <1>9 DEF ApplyBatch, IsApply
  <2>2. /\ b.first <= b.last /\ b.last < Len(slog) /\ engine.applyInFlight
        /\ engine.status = cursor
        /\ \A i \in DOMAIN requests' : ~IsApply(requests'[i])
        /\ \A r \in replies : ~IsApply(r)
    BY <2>1 DEF BatchInv
  <2>3. b.last \in Seqs /\ b.first \in Nat /\ b.last \in Nat
    <3>1. b \in RequestType /\ Len(slog) \in Nat /\ Len(slog) <= MaxSeq
      BY <1>0, <2>1, ElementOfSeq DEF TypeOK
    <3>2. b.first \in Nat /\ b.last \in Nat
      BY <1>0, <2>1
    <3>3. PICK k, n : k = b.last /\ n = Len(slog)
      OBVIOUS
    <3> HIDE DEF b
    <3>4. k \in Nat /\ n \in Nat /\ k < n /\ n <= MaxSeq
      BY <2>2, <3>1, <3>2, <3>3
    <3>5. k \in Seqs
      BY <3>4 DEF Seqs
    <3> QED  BY <3>2, <3>3, <3>5
  <2>4. IsApply(new) /\ new.value = b.last /\ new.ok = (b.first = cursor)
    BY <2>3, MessageFields
  <2>5. /\ cursor' = IF b.first = cursor THEN b.last + 1 ELSE cursor
        /\ replies' = replies \cup {new} /\ UNCHANGED <<up, slog, engine>>
    BY <1>9 DEF ApplyBatch
  <2> HIDE DEF b, new
  <2>6. \A r \in replies' : IsApply(r) => r = new
    BY <2>2, <2>5
  <2>7. BatchInv'
    BY <2>2, <2>4, <2>5, <2>6 DEF BatchInv
  <2>8. StatusFollowsCursor'
    BY <1>0, <2>2, <2>3, <2>5 DEF StatusFollowsCursor
  <2> QED  BY <2>7, <2>8
<1>10. CASE ReadStableCursor
  <2>1. /\ up /\ \A i \in DOMAIN requests' :
               requests'[i] = requests[i + 1] /\ i + 1 \in DOMAIN requests /\ i \in Nat
    BY <1>8, <1>10 DEF ReadStableCursor
  <2>2. /\ replies' = replies \cup {CursorReply(cursor)} /\ ~IsApply(CursorReply(cursor))
        /\ UNCHANGED <<up, slog, engine, cursor>>
    BY <1>10, MessageFields DEF ReadStableCursor, dbVars, TypeOK
  <2>3. StatusFollowsCursor'
    BY <2>2 DEF StatusFollowsCursor
  <2>4. \A i \in DOMAIN requests', j \in DOMAIN requests' :
            IsApply(requests'[i]) /\ IsApply(requests'[j]) => j = i
    BY <2>1 DEF BatchInv
  <2>5. BatchInv'
    BY <2>1, <2>2, <2>4 DEF BatchInv
  <2> QED  BY <2>3, <2>5
<1>11. CASE Restart
  <2>1. engine'.status = cursor' /\ requests' = <<>> /\ replies' = {}
    BY <1>11 DEF Restart, EngineFrom, dbVars
  <2> QED  BY <1>0, <1>11, <2>1 DEF BatchInv, StatusFollowsCursor, Restart, dbVars
<1>12. ~Crash
  BY DEF Crash
<1> QED
  BY <1>1, <1>2, <1>3, <1>4, <1>5, <1>6, <1>7, <1>9, <1>10, <1>11, <1>12
     DEF Next, Engine, Semantic
-----------------------------------------------------------------------------
(* The run from the cursor to the reader, when transactions are prompt.    *)

\* The state in the terms of the proofs below.
LEMMA Shape ==
    ASSUME TypeOK
    PROVE  /\ engine \in EngineType /\ engine.buffer \in Seq(Seqs)
           /\ DOMAIN engine.buffer = 1 .. Len(engine.buffer) /\ Len(engine.buffer) \in Nat
           /\ events \in Seq(EventType) /\ DOMAIN events = 1 .. Len(events)
           /\ Len(events) \in Nat /\ (events = <<>> <=> Len(events) = 0)
           /\ (events # <<>> => Head(events) = events[1] /\ 1 \in DOMAIN events)
           /\ (engine.buffer = <<>> <=> Len(engine.buffer) = 0)
           /\ requests \in Seq(RequestType) /\ DOMAIN requests = 1 .. Len(requests)
           /\ Len(requests) \in Nat /\ (requests = <<>> <=> Len(requests) = 0)
           /\ (requests # <<>> => Head(requests) = requests[1] /\ 1 \in DOMAIN requests)
           /\ toReader \in Seq(0 .. MaxSeq)
           /\ cursor \in 0 .. MaxSeq /\ cursor \in Nat /\ Base \in Nat
           /\ reader \in [state : {"connecting", "connected", "waiting"}, next : 0 .. MaxSeq]
           /\ reader.next \in Nat
           /\ Greeting \in {0, 1}
<1> USE Numbers
<1>1. /\ engine \in EngineType /\ events \in Seq(EventType) /\ requests \in Seq(RequestType)
      /\ toReader \in Seq(0 .. MaxSeq) /\ cursor \in 0 .. MaxSeq
      /\ reader \in [state : {"connecting", "connected", "waiting"}, next : 0 .. MaxSeq]
  BY DEF TypeOK
<1>2. engine.buffer \in Seq(Seqs)
  BY <1>1 DEF EngineType
<1>3. /\ DOMAIN engine.buffer = 1 .. Len(engine.buffer) /\ Len(engine.buffer) \in Nat
      /\ (engine.buffer = <<>> <=> Len(engine.buffer) = 0)
  BY <1>2, LenProperties, EmptySeq
<1>4. /\ DOMAIN events = 1 .. Len(events) /\ Len(events) \in Nat
      /\ (events = <<>> <=> Len(events) = 0)
      /\ (events # <<>> => Head(events) = events[1] /\ 1 \in DOMAIN events)
  BY <1>1, LenProperties, EmptySeq, QueueTail
<1>5. /\ DOMAIN requests = 1 .. Len(requests) /\ Len(requests) \in Nat
      /\ (requests = <<>> <=> Len(requests) = 0)
      /\ (requests # <<>> => /\ Head(requests) = requests[1] /\ 1 \in DOMAIN requests
                             /\ Head(requests) \in RequestType)
  BY <1>1, LenProperties, EmptySeq, QueueTail
<1>6. \A m \in RequestType : m.last \in Nat
  BY DEF RequestType, Seqs
<1>7. cursor \in Nat /\ reader.next \in Nat
  BY <1>1
<1>8. Base \in Nat
  BY <1>5, <1>6, <1>7 DEF Base
<1>9. Greeting \in {0, 1}
  BY DEF Greeting
<1> QED  BY <1>1, <1>2, <1>3, <1>4, <1>5, <1>7, <1>8, <1>9

\* An event enters the channel behind the others, and leaves a greeting first.
LEMMA SendShape ==
    ASSUME TypeOK, NEW e \in EventType, Send(e)
    PROVE  /\ DOMAIN events' = 1 .. Len(events) + 1 /\ Len(events') = Len(events) + 1
           /\ \A i \in DOMAIN events : events'[i] = events[i]
           /\ events'[Len(events) + 1] = e /\ events' # <<>>
           /\ \A i \in DOMAIN events' : i \in DOMAIN events \/ i = Len(events) + 1
           /\ e.type # "Connected" => Greeting' = Greeting
<1>1. events' = Append(events, e) /\ events \in Seq(EventType) /\ Len(events) \in Nat
      /\ DOMAIN events = 1 .. Len(events)
  BY Shape DEF Send
<1>2. /\ DOMAIN Append(events, e) = 1 .. Len(events) + 1
      /\ Len(Append(events, e)) = Len(events) + 1
      /\ \A i \in DOMAIN events : Append(events, e)[i] = events[i]
      /\ Append(events, e)[Len(events) + 1] = e /\ Append(events, e) # <<>>
      /\ Head(Append(events, e)) = IF events = <<>> THEN e ELSE Head(events)
  BY <1>1, QueueAppend
<1>3. e.type # "Connected" => Greeting' = Greeting
  BY <1>1, <1>2 DEF Greeting
<1>4. \A i \in 1 .. Len(events) + 1 : i \in 1 .. Len(events) \/ i = Len(events) + 1
  BY <1>1
<1> QED  BY <1>1, <1>2, <1>3, <1>4

\* Where only the log grows.
LEMMA PromptQuiet ==
    ASSUME RunInv, SessionInv,
           UNCHANGED <<cursor, reader, toReader, events, engine, requests, replies>>
    PROVE  RunInv' /\ SessionInv'
<1>1. Base' = Base /\ Greeting' = Greeting
  BY DEF Base, Greeting
<1>2. RunInv'
  BY <1>1 DEF RunInv
<1>3. SessionInv'
  BY DEF SessionInv
<1> QED  BY <1>2, <1>3

\* The reader opens its session: no event of the one before is left.
LEMMA PromptConnect ==
    ASSUME TypeOK, RunInv, SessionInv, ReaderConnect
    PROVE  RunInv' /\ SessionInv'
<1> USE Shape, Numbers, EventFields
<1>1. reader.state = "connecting" /\ events = <<>> /\ Greeting = 0
  BY DEF ReaderConnect, SessionInv, Greeting
<1>2. UNCHANGED <<cursor, toReader, engine, requests, replies>> /\ Base' = Base
  BY DEF ReaderConnect, dbVars, semVars, Base
<1>3. reader'.state = "connected" /\ reader'.next = reader.next
  BY DEF ReaderConnect
<1>4. DOMAIN events' = {1} /\ events'[1] = Connected /\ events' # <<>> /\ Len(events') = 1
      /\ Head(events') = Connected
  BY <1>1, QueueAppend DEF ReaderConnect, Send
<1>5. Greeting' = 1
  BY <1>4 DEF Greeting
<1>6. RunInv'
  BY <1>1, <1>2, <1>3, <1>4, <1>5 DEF RunInv
<1>7. SessionInv'
  BY <1>1, <1>2, <1>3, <1>4 DEF SessionInv
<1> QED  BY <1>6, <1>7

\* The reader forwards the next record.
LEMMA PromptRead ==
    ASSUME TypeOK, RunInv, SessionInv, ReaderRead
    PROVE  RunInv' /\ SessionInv'
<1> USE Shape, Numbers, EventFields
<1> DEFINE e == ReadEvent(reader.next)
<1>1. reader.state = "connected" /\ reader.next \in Seqs
  BY DEF ReaderRead, TypeOK, Seqs
<1>2. e \in EventType /\ e.type = "Read" /\ e.seq = reader.next
  BY <1>1
<1>3. UNCHANGED <<cursor, toReader, engine, requests, replies>> /\ Base' = Base
  BY DEF ReaderRead, dbVars, semVars, Base
<1>4. reader'.state = "connected" /\ reader'.next = reader.next + 1
  BY <1>1 DEF ReaderRead
<1>5. Send(e)
  BY DEF ReaderRead
<1> HIDE DEF e
<1>6. /\ DOMAIN events' = 1 .. Len(events) + 1 /\ Len(events') = Len(events) + 1
      /\ \A i \in DOMAIN events : events'[i] = events[i]
      /\ events'[Len(events) + 1] = e /\ events' # <<>>
      /\ \A i \in DOMAIN events' : i \in DOMAIN events \/ i = Len(events) + 1
      /\ Greeting' = Greeting
  BY <1>2, <1>5, SendShape
<1>8. RunInv'
  <2>1. reader.next = Base + Len(engine.buffer) + Len(events) - Greeting
    BY <1>1 DEF RunInv
  <2>2. ASSUME NEW i \in DOMAIN events'
        PROVE  /\ events'[i].type = "Read" =>
                     events'[i].seq = Base + Len(engine.buffer) + i - 1 - Greeting
               /\ events'[i].type = "Connected" => i = 1
    <3>1. CASE i \in DOMAIN events
      BY <1>6, <3>1 DEF RunInv
    <3>2. CASE i = Len(events) + 1
      BY <1>2, <1>6, <2>1, <3>2
    <3> QED  BY <1>6, <3>1, <3>2
  <2>3. \A i \in DOMAIN engine.buffer : engine.buffer[i] = Base + i - 1
    BY DEF RunInv
  <2>4. reader'.next = Base + Len(engine.buffer) + Len(events') - Greeting
    <3> DEFINE n == Len(engine.buffer)
    <3>1. /\ Base \in Nat /\ n \in Nat /\ Len(events) \in Nat
          /\ Greeting \in Int /\ Len(events') = Len(events) + 1
          /\ reader'.next = (Base + n + Len(events) - Greeting) + 1
      BY <1>4, <1>6, <2>1
    <3> HIDE DEF n
    <3>2. reader'.next = Base + n + Len(events') - Greeting
      BY ONLY <3>1
    <3> QED  BY ONLY <3>2 DEF n
  <2> QED  BY <1>3, <1>6, <2>2, <2>3, <2>4 DEF RunInv
<1>9. SessionInv'
  <2>1. ASSUME NEW i \in DOMAIN events' PROVE events'[i].type # "Disconnected"
    <3>1. CASE i \in DOMAIN events
      BY <1>1, <1>6, <3>1 DEF SessionInv
    <3>2. CASE i = Len(events) + 1
      BY <1>2, <1>6, <3>2
    <3> QED  BY <1>6, <3>1, <3>2
  <2> QED  BY <1>1, <1>3, <1>4, <2>1 DEF SessionInv
<1> QED  BY <1>8, <1>9

\* The session ends: its report is the last event.
LEMMA PromptDisconnect ==
    ASSUME TypeOK, RunInv, SessionInv, ReaderDisconnect
    PROVE  RunInv' /\ SessionInv'
<1> USE Shape, Numbers, EventFields
<1>1. reader.state # "waiting"
  BY DEF ReaderDisconnect
<1>3. UNCHANGED <<cursor, toReader, engine, requests, replies>> /\ Base' = Base
  BY DEF ReaderDisconnect, dbVars, semVars, Base
<1>4. reader'.state = "waiting"
  BY <1>1 DEF ReaderDisconnect
<1>5. Send(Disconnected)
  BY DEF ReaderDisconnect
<1>6. /\ DOMAIN events' = 1 .. Len(events) + 1 /\ Len(events') = Len(events) + 1
      /\ \A i \in DOMAIN events : events'[i] = events[i]
      /\ events'[Len(events) + 1] = Disconnected /\ events' # <<>>
      /\ \A i \in DOMAIN events' : i \in DOMAIN events \/ i = Len(events) + 1
      /\ Greeting' = Greeting
  BY <1>5, SendShape
<1>8. RunInv'
  <2>2. ASSUME NEW i \in DOMAIN events'
        PROVE  /\ events'[i].type = "Read" =>
                     events'[i].seq = Base + Len(engine.buffer) + i - 1 - Greeting
               /\ events'[i].type = "Connected" => i = 1
    <3>1. CASE i \in DOMAIN events
      BY <1>6, <3>1 DEF RunInv
    <3>2. CASE i = Len(events) + 1
      BY <1>6, <3>2
    <3> QED  BY <1>6, <3>1, <3>2
  <2>3. \A i \in DOMAIN engine.buffer : engine.buffer[i] = Base + i - 1
    BY DEF RunInv
  <2> QED  BY <1>3, <1>4, <1>6, <2>2, <2>3 DEF RunInv
<1>9. SessionInv'
  <2>1. \A i \in DOMAIN events' : events'[i].type = "Disconnected" => i = Len(events')
    BY <1>1, <1>6 DEF SessionInv
  <2> QED  BY <1>1, <1>3, <1>4, <1>6, <2>1 DEF SessionInv
<1> QED  BY <1>8, <1>9

\* Nothing to apply is in the mailbox of the semantic actor, and no answer on its
\* way, while the engine waits for neither.
LEMMA PromptNothing ==
    ASSUME TypeOK, BatchInv, SessionInv, ~engine.applyInFlight
    PROVE  /\ ~engine.cursorInFlight => requests = <<>> /\ replies = {}
           /\ Base = cursor
<1> USE Shape
<1>1. \A i \in DOMAIN requests : ~IsApply(requests[i])
  BY DEF BatchInv
<1>2. Base = cursor
  BY <1>1 DEF Base
<1>3. ~engine.cursorInFlight => \A i \in DOMAIN requests : FALSE
  BY <1>1 DEF SessionInv
<1>4. ~engine.cursorInFlight => \A r \in replies : FALSE
  BY DEF SessionInv, BatchInv
<1>5. ~engine.cursorInFlight => requests = <<>>
  BY <1>3
<1> QED  BY <1>2, <1>4, <1>5

\* The reader starts again where the stable state ends.
LEMMA PromptReconnect ==
    ASSUME TypeOK, BatchInv, RunInv, SessionInv, ReaderReconnect
    PROVE  RunInv' /\ SessionInv'
<1> USE Shape, Numbers
<1>1. /\ reader.state = "waiting" /\ toReader # <<>> /\ reader' = ReaderAt("connecting", Head(toReader))
      /\ toReader' = Tail(toReader)
      /\ UNCHANGED <<cursor, events, engine, requests, replies>>
  BY DEF ReaderReconnect, dbVars, semVars
<1>2. /\ events = <<>> /\ toReader = <<cursor>> /\ ~engine.cursorInFlight
      /\ engine.buffer = <<>> /\ ~engine.applyInFlight /\ engine.link # "Offline"
  BY <1>1 DEF SessionInv
<1>3. toReader' = <<>> /\ reader'.state = "connecting" /\ reader'.next = cursor
  BY <1>1, <1>2 DEF ReaderAt
<1>4. Base' = cursor /\ Greeting' = 0
  BY <1>1, <1>2, PromptNothing DEF Base, Greeting
<1>5. RunInv'
  BY <1>1, <1>2, <1>3, <1>4 DEF RunInv
<1>6. SessionInv'
  BY <1>1, <1>2, <1>3 DEF SessionInv
<1> QED  BY <1>5, <1>6

\* The engine takes the first event of the channel.
LEMMA TakeShape ==
    ASSUME TypeOK, NEW type, TakeEvent(type)
    PROVE  /\ events # <<>> /\ Len(events) > 0 /\ Head(events) = events[1]
           /\ 1 \in DOMAIN events /\ events[1].type = type
           /\ DOMAIN events' = 1 .. Len(events) - 1 /\ Len(events') = Len(events) - 1
           /\ \A i \in DOMAIN events' : events'[i] = events[i + 1] /\ i + 1 \in DOMAIN events
           /\ events' = <<>> <=> Len(events) = 1
           /\ events' # <<>> => /\ Head(events') = events[2] /\ 2 \in DOMAIN events
                                /\ Len(events') \in DOMAIN events'
<1>1. events' = Tail(events) /\ events # <<>> /\ Head(events).type = type
      /\ events \in Seq(EventType)
  BY Shape DEF TakeEvent
<1>2. /\ Len(events) \in Nat /\ Len(events) > 0 /\ Tail(events) \in Seq(EventType)
      /\ Len(Tail(events)) = Len(events) - 1
      /\ DOMAIN events = 1 .. Len(events) /\ DOMAIN Tail(events) = 1 .. Len(events) - 1
      /\ \A i \in DOMAIN Tail(events) :
            Tail(events)[i] = events[i + 1] /\ i + 1 \in DOMAIN events
      /\ Head(events) = events[1] /\ 1 \in DOMAIN events
  BY <1>1, QueueTail
<1>3. Tail(events) = <<>> <=> Len(events) = 1
  <2>1. \A q \in Seq(EventType) : q = <<>> <=> Len(q) = 0
    BY EmptySeq
  <2>2. Tail(events) = <<>> <=> Len(Tail(events)) = 0
    BY <1>2, <2>1
  <2> QED  BY <1>2, <2>2
<1>4. Tail(events) # <<>> => Head(Tail(events)) = Tail(events)[1] /\ 1 \in DOMAIN Tail(events)
  BY <1>2, QueueTail
<1>5. Tail(events) # <<>> => /\ Head(Tail(events)) = events[2] /\ 2 \in DOMAIN events
                             /\ Len(Tail(events)) \in DOMAIN Tail(events)
  BY <1>2, <1>3, <1>4
<1> QED  BY <1>1, <1>2, <1>3, <1>5

\* The engine learns that the session is open.
LEMMA PromptOnConnected ==
    ASSUME TypeOK, RunInv, SessionInv, OnReaderConnected
    PROVE  RunInv' /\ SessionInv'
<1>0. /\ Base \in Nat /\ Len(engine.buffer) \in Nat /\ Len(events) \in Nat
      /\ engine \in EngineType /\ DOMAIN events = 1 .. Len(events)
      /\ DOMAIN engine.buffer = 1 .. Len(engine.buffer)
  BY Shape
<1>1. /\ engine' = [engine EXCEPT !.link = "Online"]
      /\ UNCHANGED <<cursor, reader, toReader, requests, replies>> /\ Base' = Base
  BY DEF OnReaderConnected, dbVars, readerVars, semVars, Base
<1>2. /\ engine'.link = "Online" /\ engine'.reconnectTimer = engine.reconnectTimer
      /\ engine'.cursorInFlight = engine.cursorInFlight
      /\ engine'.drainTimer = engine.drainTimer /\ engine'.buffer = engine.buffer
      /\ engine'.applyInFlight = engine.applyInFlight
  BY <1>0, <1>1 DEF EngineType
<1>3. /\ events # <<>> /\ Len(events) > 0 /\ Head(events) = events[1]
      /\ 1 \in DOMAIN events /\ events[1].type = "Connected"
      /\ DOMAIN events' = 1 .. Len(events) - 1 /\ Len(events') = Len(events) - 1
      /\ \A i \in DOMAIN events' : events'[i] = events[i + 1] /\ i + 1 \in DOMAIN events
      /\ events' = <<>> <=> Len(events) = 1
      /\ events' # <<>> => /\ Head(events') = events[2] /\ 2 \in DOMAIN events
                           /\ Len(events') \in DOMAIN events'
  BY TakeShape DEF OnReaderConnected
<1>4. Greeting = 1 /\ Greeting' = 0
  BY <1>0, <1>3 DEF Greeting, RunInv
<1>5. RunInv'
  <2>1. ASSUME NEW i \in DOMAIN events'
        PROVE  /\ events'[i].type = "Read" =>
                     events'[i].seq = Base + Len(engine.buffer) + i - 1
               /\ events'[i].type # "Connected"
    <3>1. i \in Nat /\ i > 0 /\ events'[i] = events[i + 1] /\ i + 1 \in DOMAIN events
      BY <1>0, <1>3
    <3>2. /\ events[i + 1].type = "Read" =>
               events[i + 1].seq = Base + Len(engine.buffer) + (i + 1) - 1 - Greeting
          /\ events[i + 1].type # "Connected"
      BY <3>1 DEF RunInv
    <3> QED  BY <1>0, <1>4, <3>1, <3>2
  <2>2. reader.state # "waiting" => reader.next = Base + Len(engine.buffer) + Len(events')
    BY <1>0, <1>3, <1>4 DEF RunInv
  <2>3. \A i \in DOMAIN engine.buffer : engine.buffer[i] = Base + i - 1
    BY DEF RunInv
  <2>4. \A i \in DOMAIN events' :
            events'[i].type = "Read" => events'[i].seq = Base + Len(engine.buffer) + i - 1 - 0
    BY <1>0, <1>3, <2>1
  <2>5. Base + Len(engine.buffer) + Len(events') - 0 = Base + Len(engine.buffer) + Len(events')
    BY <1>0, <1>3
  <2> QED  BY <1>1, <1>2, <1>4, <2>1, <2>2, <2>3, <2>4, <2>5 DEF RunInv
<1>6. SessionInv'
  <2>1. /\ toReader = <<>> /\ ~engine.cursorInFlight /\ ~engine.reconnectTimer
        /\ reader.state # "connecting"
    BY <1>3 DEF SessionInv
  <2>2. ASSUME NEW i \in DOMAIN events', events'[i].type = "Disconnected"
        PROVE  i = Len(events') /\ reader.state = "waiting"
    <3>1. i \in Nat /\ events[i + 1].type = "Disconnected" /\ i + 1 \in DOMAIN events
      BY <1>0, <1>3, <2>2
    <3>2. i + 1 = Len(events) /\ reader.state = "waiting"
      BY <3>1 DEF SessionInv
    <3> QED  BY <1>0, <1>3, <3>1, <3>2
  <2>3. reader.state = "waiting" /\ events' # <<>> =>
            events'[Len(events')].type = "Disconnected"
    <3>1. events' # <<>> => events'[Len(events')] = events[Len(events)]
      BY <1>0, <1>3
    <3> QED  BY <1>3, <3>1 DEF SessionInv
  <2> QED  BY <1>1, <1>2, <2>1, <2>2, <2>3 DEF SessionInv
<1> QED  BY <1>5, <1>6

\* The engine learns that the session is over: its events are taken.
LEMMA PromptOnDisconnected ==
    ASSUME TypeOK, RunInv, SessionInv, OnReaderDisconnected
    PROVE  RunInv' /\ SessionInv'
<1>0. /\ Base \in Nat /\ Len(engine.buffer) \in Nat /\ Len(events) \in Nat
      /\ engine \in EngineType
  BY Shape
<1>1. /\ engine' = [engine EXCEPT !.link = "Offline", !.reconnectTimer = TRUE]
      /\ UNCHANGED <<cursor, reader, toReader, requests, replies>> /\ Base' = Base
  BY DEF OnReaderDisconnected, dbVars, readerVars, semVars, Base
<1>2. /\ engine'.link = "Offline"
      /\ engine'.cursorInFlight = engine.cursorInFlight
      /\ engine'.drainTimer = engine.drainTimer /\ engine'.buffer = engine.buffer
      /\ engine'.applyInFlight = engine.applyInFlight
  BY <1>0, <1>1 DEF EngineType
<1>3. /\ events # <<>> /\ 1 \in DOMAIN events /\ events[1].type = "Disconnected"
      /\ DOMAIN events' = 1 .. Len(events) - 1
      /\ events' = <<>> <=> Len(events) = 1
  BY TakeShape DEF OnReaderDisconnected
<1>4. /\ events' = <<>> /\ DOMAIN events' = {} /\ reader.state = "waiting"
      /\ toReader = <<>> /\ ~engine.cursorInFlight
  BY <1>0, <1>3 DEF SessionInv
<1>5. RunInv'
  BY <1>1, <1>2, <1>4 DEF RunInv
<1>6. SessionInv'
  BY <1>1, <1>2, <1>4 DEF SessionInv
<1> QED  BY <1>5, <1>6

\* A record moves from the channel to the end of the buffer.
LEMMA PromptOnRead ==
    ASSUME TypeOK, RunInv, SessionInv, OnRead
    PROVE  RunInv' /\ SessionInv'
<1>0. /\ Base \in Nat /\ Len(engine.buffer) \in Nat /\ Len(events) \in Nat
      /\ engine \in EngineType /\ DOMAIN events = 1 .. Len(events)
      /\ DOMAIN engine.buffer = 1 .. Len(engine.buffer) /\ events \in Seq(EventType)
      /\ engine.buffer \in Seq(Seqs)
  BY Shape
<1>1. /\ engine' = [engine EXCEPT !.buffer = Append(@, Head(events).seq),
                                  !.drainTimer = @ \/ ~engine.applyInFlight]
      /\ UNCHANGED <<cursor, reader, toReader, requests, replies>> /\ Base' = Base
  BY DEF OnRead, dbVars, readerVars, semVars, Base
<1>2. /\ engine'.link = engine.link /\ engine'.reconnectTimer = engine.reconnectTimer
      /\ engine'.cursorInFlight = engine.cursorInFlight
      /\ engine'.drainTimer \/ engine'.applyInFlight
      /\ engine'.buffer = Append(engine.buffer, Head(events).seq)
  BY <1>0, <1>1 DEF EngineType
<1>3. /\ events # <<>> /\ Len(events) > 0 /\ Head(events) = events[1]
      /\ 1 \in DOMAIN events /\ events[1].type = "Read"
      /\ DOMAIN events' = 1 .. Len(events) - 1 /\ Len(events') = Len(events) - 1
      /\ \A i \in DOMAIN events' : events'[i] = events[i + 1] /\ i + 1 \in DOMAIN events
      /\ events' = <<>> <=> Len(events) = 1
      /\ events' # <<>> => /\ Head(events') = events[2] /\ 2 \in DOMAIN events
                           /\ Len(events') \in DOMAIN events'
  BY TakeShape DEF OnRead
<1>4. Greeting = 0 /\ Greeting' = 0
  BY <1>0, <1>3 DEF Greeting, RunInv
<1> DEFINE x == Head(events).seq
           n == Len(engine.buffer)
<1>5. x \in Seqs /\ engine'.buffer = Append(engine.buffer, x)
  BY <1>0, <1>2, <1>3, ElementOfSeq, EventFields
<1>6. x = Base + n
  <2>1. x = Base + n + 1 - 1 - 0
    BY <1>3, <1>4 DEF RunInv
  <2>2. Base \in Nat /\ n \in Nat
    BY <1>0
  <2> HIDE DEF x, n
  <2> QED  BY ONLY <2>1, <2>2
<1>7. n \in Nat /\ DOMAIN engine.buffer = 1 .. n
  BY <1>0
<1> HIDE DEF x
<1>8. /\ DOMAIN engine'.buffer = 1 .. n + 1 /\ Len(engine'.buffer) = n + 1
      /\ \A i \in DOMAIN engine.buffer : engine'.buffer[i] = engine.buffer[i]
      /\ engine'.buffer[n + 1] = x
  <2>1. /\ DOMAIN Append(engine.buffer, x) = 1 .. n + 1 /\ Len(Append(engine.buffer, x)) = n + 1
        /\ \A i \in DOMAIN engine.buffer : Append(engine.buffer, x)[i] = engine.buffer[i]
        /\ Append(engine.buffer, x)[n + 1] = x
    BY <1>0, <1>5, QueueAppend
  <2> QED  BY <1>5, <2>1
<1>9. RunInv'
  <2>1. ASSUME NEW i \in DOMAIN events'
        PROVE  /\ events'[i].type = "Read" => events'[i].seq = Base + (n + 1) + i - 1 - 0
               /\ events'[i].type # "Connected"
    <3>1. i \in Nat /\ i > 0 /\ events'[i] = events[i + 1] /\ i + 1 \in DOMAIN events
      BY <1>0, <1>3
    <3>2. /\ events[i + 1].type = "Read" => events[i + 1].seq = Base + n + (i + 1) - 1 - 0
          /\ events[i + 1].type # "Connected"
      BY <1>4, <3>1 DEF RunInv
    <3>3. Base + n + (i + 1) - 1 - 0 = Base + (n + 1) + i - 1 - 0
      <4> HIDE DEF n
      <4> QED  BY <1>0, <1>7, <3>1
    <3> QED  BY <3>1, <3>2, <3>3
  <2>2. reader.state # "waiting" => reader.next = Base + (n + 1) + Len(events') - 0
    <3>1. reader.state # "waiting" => reader.next = Base + n + Len(events) - 0
      BY <1>4 DEF RunInv
    <3>2. Base \in Nat /\ n \in Nat /\ Len(events) \in Nat /\ Len(events') = Len(events) - 1
      BY <1>0, <1>3
    <3> HIDE DEF n
    <3> QED  BY ONLY <3>1, <3>2
  <2>3. ASSUME NEW i \in DOMAIN engine'.buffer PROVE engine'.buffer[i] = Base + i - 1
    <3>1. CASE i \in DOMAIN engine.buffer
      BY <1>8, <3>1 DEF RunInv
    <3>2. CASE i = n + 1
      <4>1. Base + (n + 1) - 1 = Base + n
        <5> HIDE DEF n
        <5> QED  BY <1>0, <1>7
      <4> QED  BY <1>6, <1>8, <3>2, <4>1
    <3>3. i \in DOMAIN engine.buffer \/ i = n + 1
      <4> HIDE DEF n
      <4> QED  BY <1>7, <1>8
    <3> QED  BY <3>1, <3>2, <3>3
  <2> HIDE DEF n
  <2> QED  BY <1>1, <1>4, <1>8, <2>1, <2>2, <2>3 DEF RunInv
<1>10. SessionInv'
  <2>1. /\ toReader = <<>> /\ ~engine.cursorInFlight /\ ~engine.reconnectTimer
        /\ engine.link # "Offline" /\ reader.state # "connecting"
    BY <1>3 DEF SessionInv
  <2>2. ASSUME NEW i \in DOMAIN events', events'[i].type = "Disconnected"
        PROVE  i = Len(events') /\ reader.state = "waiting"
    <3>1. i \in Nat /\ events[i + 1].type = "Disconnected" /\ i + 1 \in DOMAIN events
      BY <1>0, <1>3, <2>2
    <3>2. i + 1 = Len(events) /\ reader.state = "waiting"
      BY <3>1 DEF SessionInv
    <3> QED  BY <1>0, <1>3, <3>1, <3>2
  <2>3. reader.state = "waiting" /\ events' # <<>> =>
            events'[Len(events')].type = "Disconnected"
    <3>1. events' # <<>> => events'[Len(events')] = events[Len(events)]
      BY <1>0, <1>3
    <3> QED  BY <1>3, <3>1 DEF SessionInv
  <2> QED  BY <1>1, <1>2, <2>1, <2>2, <2>3 DEF SessionInv
<1> QED  BY <1>9, <1>10

\* The buffer becomes a batch that starts at the cursor.
LEMMA PromptDrain ==
    ASSUME TypeOK, StockInv, BatchInv, RunInv, SessionInv, DrainBuffer
    PROVE  RunInv' /\ SessionInv'
<1>0. /\ cursor \in Nat /\ Len(engine.buffer) \in Nat /\ Len(events) \in Nat
      /\ engine \in EngineType /\ DOMAIN events = 1 .. Len(events)
      /\ DOMAIN engine.buffer = 1 .. Len(engine.buffer) /\ engine.buffer \in Seq(Seqs)
      /\ (engine.buffer = <<>> <=> Len(engine.buffer) = 0) /\ Greeting \in Int
  BY Shape
<1>1. /\ engine.drainTimer /\ engine.buffer # <<>>
      /\ UNCHANGED <<cursor, reader, toReader, events, replies>> /\ Greeting' = Greeting
  BY DEF DrainBuffer, dbVars, readerVars, Greeting, StockInv
<1>2. CASE engine.applyInFlight
  <2>1. engine' = [engine EXCEPT !.drainTimer = FALSE] /\ requests' = requests
    BY <1>2 DEF DrainBuffer
  <2>2. /\ engine'.link = engine.link /\ engine'.reconnectTimer = engine.reconnectTimer
        /\ engine'.cursorInFlight = engine.cursorInFlight
        /\ engine'.buffer = engine.buffer /\ engine'.applyInFlight = engine.applyInFlight
    BY <1>0, <2>1 DEF EngineType
  <2>3. Base' = Base
    BY <1>1, <2>1 DEF Base
  <2>4. RunInv'
    BY <1>1, <2>2, <2>3 DEF RunInv
  <2>5. SessionInv'
    BY <1>1, <1>2, <2>1, <2>2 DEF SessionInv
  <2> QED  BY <2>4, <2>5
<1>3. CASE ~engine.applyInFlight
  <2> DEFINE f == engine.buffer[1]
             n == Len(engine.buffer)
             l == engine.buffer[n]
  <2>1. /\ engine' = [engine EXCEPT !.drainTimer = FALSE, !.buffer = <<>>,
                                    !.applyInFlight = TRUE]
        /\ requests' = Append(requests, ApplyReq(f, l))
    BY <1>3 DEF DrainBuffer
  <2>2. /\ engine'.link = engine.link /\ engine'.reconnectTimer = engine.reconnectTimer
        /\ engine'.cursorInFlight = engine.cursorInFlight
        /\ engine'.buffer = <<>> /\ engine'.applyInFlight
    BY <1>0, <2>1 DEF EngineType
  <2>3. ~engine.cursorInFlight /\ toReader = <<>>
    BY <1>1 DEF SessionInv
  <2>4. Base = cursor /\ requests = <<>> /\ replies = {}
    BY <1>3, <2>3, PromptNothing
  <2>5. n \in Nat /\ n > 0 /\ 1 \in DOMAIN engine.buffer /\ n \in DOMAIN engine.buffer
    BY <1>0, <1>1
  <2>6. f \in Seqs /\ l \in Seqs
    BY <1>0, <2>5, ElementOfSeq
  <2>7. f = cursor /\ l + 1 = cursor + n
    <3>1. f = cursor + 1 - 1 /\ l = cursor + n - 1
      BY <2>4, <2>5 DEF RunInv
    <3>2. cursor \in Nat
      BY <1>0
    <3> HIDE DEF f, n, l
    <3> QED  BY ONLY <2>5, <3>1, <3>2
  <2>8. requests' = <<ApplyReq(f, l)>>
    BY <2>1, <2>4
  <2>9. IsApply(ApplyReq(f, l)) /\ ApplyReq(f, l).first = f /\ ApplyReq(f, l).last = l
    BY <2>6, MessageFields
  <2> HIDE DEF f, l
  <2>10. Base' = cursor + n
    BY <2>7, <2>8, <2>9 DEF Base
  <2>11. RunInv'
    <3>1. \A k \in Int : cursor + n + k = (cursor + n) + 0 + k
      <4> HIDE DEF n
      <4> QED  BY <1>0, <2>5
    <3>2. ASSUME NEW i \in DOMAIN events
          PROVE  /\ events[i].type = "Read" => events[i].seq = (cursor + n) + 0 + i - 1 - Greeting
                 /\ events[i].type = "Connected" => i = 1
      <4>1. /\ events[i].type = "Read" => events[i].seq = cursor + n + i - 1 - Greeting
            /\ events[i].type = "Connected" => i = 1
        BY <2>4 DEF RunInv
      <4> QED  BY <1>0, <3>1, <4>1
    <3>3. reader.state # "waiting" => reader.next = (cursor + n) + 0 + Len(events) - Greeting
      <4>1. reader.state # "waiting" => reader.next = cursor + n + Len(events) - Greeting
        BY <2>4 DEF RunInv
      <4> QED  BY <1>0, <3>1, <4>1
    <3>4. DOMAIN engine'.buffer = {} /\ Len(engine'.buffer) = 0
      BY <2>2
    <3> QED  BY <1>1, <2>10, <3>2, <3>3, <3>4 DEF RunInv
  <2>12. SessionInv'
    <3>1. /\ DOMAIN requests' = {1} /\ requests'[1] = ApplyReq(f, l) /\ Len(requests') <= 1
          /\ replies' = {}
      BY <1>1, <2>4, <2>8
    <3>2. \A i \in DOMAIN requests' :
              IF IsApply(requests'[i]) THEN requests'[i].first = cursor' ELSE engine'.cursorInFlight
      BY <1>1, <2>7, <2>9, <3>1
    <3> QED  BY <1>1, <2>2, <2>3, <3>1, <3>2 DEF SessionInv
  <2> QED  BY <2>11, <2>12
<1> QED  BY <1>2, <1>3

\* The timer asks for the cursor when nothing is left to apply.
LEMMA PromptTimer ==
    ASSUME TypeOK, prompt, BatchInv, RunInv, SessionInv, ReaderReconnectTimer
    PROVE  RunInv' /\ SessionInv'
<1>0. engine \in EngineType
  BY Shape
<1>1. /\ engine.reconnectTimer /\ ~engine.drainTimer /\ ~engine.applyInFlight
      /\ UNCHANGED <<cursor, reader, toReader, events, replies>> /\ Greeting' = Greeting
  BY DEF ReaderReconnectTimer, dbVars, readerVars, Greeting
<1>2. /\ engine.link = "Offline" /\ ~engine.cursorInFlight /\ toReader = <<>>
      /\ engine.buffer = <<>> /\ reader.state = "waiting" /\ events = <<>>
  BY <1>1 DEF SessionInv
<1>3. Base = cursor /\ requests = <<>> /\ replies = {}
  BY <1>1, <1>2, PromptNothing
<1>4. /\ engine' = [engine EXCEPT !.reconnectTimer = FALSE, !.link = "Reconnecting",
                                  !.cursorInFlight = TRUE]
      /\ requests' = Append(requests, CursorReq)
  BY <1>0, <1>2 DEF ReaderReconnectTimer, EngineType
<1>5. /\ engine'.link = "Reconnecting" /\ ~engine'.reconnectTimer /\ engine'.cursorInFlight
      /\ engine'.buffer = engine.buffer /\ engine'.applyInFlight = engine.applyInFlight
  BY <1>0, <1>4 DEF EngineType
<1>6. /\ requests' = <<CursorReq>> /\ ~IsApply(CursorReq)
      /\ DOMAIN requests' = {1} /\ requests'[1] = CursorReq /\ Len(requests') <= 1
  BY <1>3, <1>4, MessageFields
<1>7. Base' = Base
  BY <1>1, <1>3, <1>6 DEF Base
<1>8. RunInv'
  BY <1>1, <1>2, <1>5, <1>7 DEF RunInv
<1>9. SessionInv'
  BY <1>1, <1>2, <1>3, <1>5, <1>6 DEF SessionInv
<1> QED  BY <1>8, <1>9

\* The batch is applied: what arrived meanwhile is due.
LEMMA PromptOnApplied ==
    ASSUME TypeOK, BatchInv, RunInv, SessionInv, OnApplyReply
    PROVE  RunInv' /\ SessionInv'
<1>0. engine \in EngineType
  BY Shape
<1>1. PICK r \in replies :
          /\ IsApply(r) /\ replies' = replies \ {r} /\ up' = r.ok
          /\ engine' = [engine EXCEPT
                           !.applyInFlight = FALSE,
                           !.status = IF r.ok THEN r.value + 1 ELSE @,
                           !.drainTimer = @ \/ (r.ok /\ engine.buffer # <<>>)]
  BY DEF OnApplyReply, IsApply
<1>2. /\ UNCHANGED <<cursor, reader, toReader, events, requests>>
      /\ Base' = Base /\ Greeting' = Greeting
  BY DEF OnApplyReply, dbVars, readerVars, Greeting, Base
<1>3. engine.applyInFlight /\ r.ok
  BY <1>1 DEF BatchInv, SessionInv
<1>4. ~engine.cursorInFlight /\ toReader = <<>>
  BY <1>3 DEF SessionInv
<1>5. /\ engine'.link = engine.link /\ engine'.reconnectTimer = engine.reconnectTimer
      /\ engine'.cursorInFlight = engine.cursorInFlight
      /\ engine'.buffer = engine.buffer /\ ~engine'.applyInFlight
      /\ engine.buffer # <<>> => engine'.drainTimer
  BY <1>0, <1>1, <1>3 DEF EngineType
<1>6. \A s \in replies' : FALSE
  BY <1>1, <1>4 DEF SessionInv, BatchInv
<1>7. RunInv'
  BY <1>2, <1>5 DEF RunInv
<1>8. SessionInv'
  <2>1. requests = <<>>
    BY <1>1 DEF SessionInv
  <2> QED  BY <1>2, <1>4, <1>5, <1>6, <2>1 DEF SessionInv
<1> QED  BY <1>7, <1>8

\* The cursor is sent to the waiting reader.
LEMMA PromptOnCursor ==
    ASSUME TypeOK, BatchInv, RunInv, SessionInv, OnCursorReply
    PROVE  RunInv' /\ SessionInv'
<1>0. engine \in EngineType
  BY Shape
<1>1. PICK r \in replies :
          /\ ~IsApply(r) /\ replies' = replies \ {r}
          /\ toReader' = IF engine.link = "Reconnecting"
                         THEN Append(toReader, r.value) ELSE toReader
  BY DEF OnCursorReply, IsApply
<1>2. /\ UNCHANGED <<cursor, reader, events, requests>>
      /\ engine' = [engine EXCEPT !.cursorInFlight = FALSE]
      /\ Base' = Base /\ Greeting' = Greeting
  BY DEF OnCursorReply, dbVars, Greeting, Base
<1>3. r = CursorReply(cursor) /\ r.value = cursor /\ engine.cursorInFlight /\ requests = <<>>
  BY <1>1 DEF SessionInv, CursorReply
<1>4. /\ toReader = <<>> /\ engine.buffer = <<>> /\ ~engine.applyInFlight
      /\ reader.state = "waiting" /\ events = <<>> /\ engine.link # "Offline"
  BY <1>3 DEF SessionInv
<1>5. /\ engine'.link = engine.link /\ engine'.reconnectTimer = engine.reconnectTimer
      /\ ~engine'.cursorInFlight /\ engine'.drainTimer = engine.drainTimer
      /\ engine'.buffer = engine.buffer /\ engine'.applyInFlight = engine.applyInFlight
  BY <1>0, <1>2 DEF EngineType
<1>6. toReader' = <<>> \/ toReader' = <<cursor>>
  BY <1>1, <1>3, <1>4
<1>7. \A s \in replies' : FALSE
  BY <1>1, <1>3, <1>4 DEF SessionInv, BatchInv
<1>8. RunInv'
  BY <1>2, <1>4, <1>5 DEF RunInv
<1>9. SessionInv'
  BY <1>2, <1>3, <1>4, <1>5, <1>6, <1>7 DEF SessionInv
<1> QED  BY <1>8, <1>9

\* The semantic actor takes the only request it has, and no answer is waiting.
LEMMA PromptTake ==
    ASSUME TypeOK, SessionInv, NEW type, TakeRequest(type)
    PROVE  /\ requests' = <<>> /\ replies = {} /\ Head(requests) = requests[1]
           /\ requests # <<>> /\ 1 \in DOMAIN requests /\ requests[1].type = type
<1>1. /\ requests # <<>> /\ requests' = Tail(requests) /\ Head(requests).type = type
      /\ requests \in Seq(RequestType) /\ Len(requests) <= 1
  BY Shape DEF TakeRequest, SessionInv
<1>2. /\ Len(requests) \in Nat /\ Len(requests) > 0 /\ Tail(requests) \in Seq(RequestType)
      /\ Len(Tail(requests)) = Len(requests) - 1
      /\ Head(requests) = requests[1] /\ 1 \in DOMAIN requests
  BY <1>1, QueueTail
<1>3. Tail(requests) = <<>>
  <2>1. \A q \in Seq(RequestType) : Len(q) = 0 => q = <<>>
    BY EmptySeq
  <2>2. Len(Tail(requests)) = 0
    BY <1>1, <1>2
  <2> QED  BY <1>2, <2>1, <2>2
<1>4. replies = {}
  BY <1>1 DEF SessionInv
<1> QED  BY <1>1, <1>2, <1>3, <1>4

\* The cursor moves over the batch, and the run stays where it was.
LEMMA PromptApply ==
    ASSUME TypeOK, BatchInv, RunInv, SessionInv, ApplyBatch
    PROVE  RunInv' /\ SessionInv'
<1> DEFINE b == Head(requests)
<1>1. /\ requests' = <<>> /\ replies = {} /\ b = requests[1] /\ 1 \in DOMAIN requests
      /\ requests # <<>> /\ IsApply(b)
  BY PromptTake DEF ApplyBatch, IsApply
<1>2. /\ engine.applyInFlight /\ b.first = cursor
      /\ b.first <= b.last /\ b.last < Len(slog)
  BY <1>1 DEF BatchInv, SessionInv
<1>3. ~engine.cursorInFlight /\ toReader = <<>>
  BY <1>2 DEF SessionInv
<1>4. /\ cursor' = b.last + 1 /\ replies' = {ApplyReply(b.last, TRUE)}
      /\ UNCHANGED <<reader, toReader, events, engine>> /\ Greeting' = Greeting
  BY <1>1, <1>2 DEF ApplyBatch, readerVars, Greeting
<1>5. Base' = Base
  BY <1>1, <1>4 DEF Base
<1>6. b.last \in Seqs
  <2>1. requests[1] \in RequestType
    BY <1>1, Shape, ElementOfSeq
  <2>2. b.last \in Nat
    BY <1>1, <2>1 DEF RequestType, Seqs
  <2> QED  BY <1>2, <2>2, Numbers, LenProperties DEF TypeOK, Seqs
<1>7. IsApply(ApplyReply(b.last, TRUE)) /\ ApplyReply(b.last, TRUE).ok
  BY <1>6, MessageFields
<1> HIDE DEF b
<1>8. RunInv'
  BY <1>4, <1>5 DEF RunInv
<1>9. SessionInv'
  <2>1. \A r \in replies' : IsApply(r) /\ r.ok
    BY <1>4, <1>7
  <2>2. DOMAIN requests' = {} /\ Len(requests') = 0
    BY <1>1
  <2>3. \A r \in replies' :
            /\ requests' = <<>>
            /\ IF IsApply(r) THEN r.ok
               ELSE r = CursorReply(cursor') /\ engine'.cursorInFlight
    BY <1>1, <2>1
  <2>4. \A i \in DOMAIN requests' :
            IF IsApply(requests'[i]) THEN requests'[i].first = cursor'
                                     ELSE engine'.cursorInFlight
    BY <2>2
  <2>5. UNCHANGED <<reader, toReader, events, engine>> /\ toReader = <<>>
    BY <1>3, <1>4
  <2> QED  BY <1>3, <2>2, <2>3, <2>4, <2>5 DEF SessionInv
<1> QED  BY <1>8, <1>9

\* The answer is the cursor at which the stable state stays until it is used.
LEMMA PromptCursor ==
    ASSUME TypeOK, BatchInv, RunInv, SessionInv, ReadStableCursor
    PROVE  RunInv' /\ SessionInv'
<1>1. /\ requests' = <<>> /\ replies = {} /\ 1 \in DOMAIN requests /\ requests # <<>>
      /\ Head(requests) = requests[1] /\ ~IsApply(requests[1])
  BY PromptTake DEF ReadStableCursor, IsApply
<1>2. engine.cursorInFlight
  BY <1>1 DEF SessionInv
<1>3. toReader = <<>> /\ ~engine.applyInFlight
  BY <1>2 DEF SessionInv
<1>4. /\ replies' = {CursorReply(cursor)} /\ ~IsApply(CursorReply(cursor))
      /\ UNCHANGED <<cursor, reader, toReader, events, engine>> /\ Greeting' = Greeting
  BY <1>1, Shape, MessageFields DEF ReadStableCursor, dbVars, readerVars, Greeting
<1>5. Base' = Base
  BY <1>1, <1>4 DEF Base
<1>6. RunInv'
  BY <1>4, <1>5 DEF RunInv
<1>7. CursorReply(cursor) = CursorReply(cursor)'
  BY <1>4 DEF CursorReply
<1>8. SessionInv'
  BY <1>1, <1>2, <1>3, <1>4, <1>7 DEF SessionInv
<1> QED  BY <1>6, <1>8

\* A new process starts with nothing on its way, at the cursor it finds.
LEMMA PromptStart ==
    ASSUME NEW c, cursor' = c, c \in Nat, reader' = ReaderAt("connecting", c),
           toReader' = <<>>, events' = <<>>, engine' = EngineFrom(c),
           requests' = <<>>, replies' = {}
    PROVE  RunInv' /\ SessionInv'
<1>1. /\ engine'.link = "Reconnecting" /\ ~engine'.reconnectTimer /\ ~engine'.cursorInFlight
      /\ engine'.buffer = <<>> /\ reader'.state = "connecting" /\ reader'.next = c
  BY DEF EngineFrom, ReaderAt
<1>2. Base' = c /\ Greeting' = 0
  BY DEF Base, Greeting
<1>3. RunInv'
  BY <1>1, <1>2 DEF RunInv
<1>4. SessionInv'
  BY <1>1 DEF SessionInv
<1> QED  BY <1>3, <1>4

\* Prompt transactions keep cursor, batch, buffer, channel and reader in line.
LEMMA PromptNext ==
    ASSUME TypeOK, IngestInv, [Next]_vars, up', prompt'
    PROVE  RunInv' /\ SessionInv'
<1>1. prompt
  BY DEF Next, vars, Publish, Reader, ReaderConnect, ReaderRead, ReaderDisconnect,
         ReaderReconnect, Engine, OnReaderConnected, OnReaderDisconnected, OnRead,
         DrainBuffer, ReaderReconnectTimer, OnApplyReply, OnCursorReply, Semantic,
         ApplyBatch, ReadStableCursor, Crash, Restart
<1>2. CASE Restart
  BY <1>2, Shape, PromptStart DEF Restart, dbVars
<1>3. CASE ~Restart
  <2>1. up
    <3>1. Reader \/ Engine \/ Semantic \/ Crash => up
      BY DEF Reader, ReaderConnect, ReaderRead, ReaderDisconnect, Send, ReaderReconnect,
             Engine, OnReaderConnected, OnReaderDisconnected, OnRead, TakeEvent,
             DrainBuffer, ReaderReconnectTimer, OnApplyReply, OnCursorReply, Semantic,
             ApplyBatch, ReadStableCursor, TakeRequest, Crash
    <3>2. (\E origin \in Origins : Publish(origin)) \/ UNCHANGED vars => up' = up
      BY DEF Publish, vars
    <3> QED  BY <1>3, <3>1, <3>2 DEF Next
  <2>2. StockInv /\ BatchInv /\ RunInv /\ SessionInv
    BY <1>1, <2>1 DEF IngestInv
  <2>3. CASE (\E origin \in Origins : Publish(origin)) \/ UNCHANGED vars
    <3>1. UNCHANGED <<cursor, reader, toReader, events, engine, requests, replies>>
      BY <2>3 DEF Publish, vars, dbVars, readerVars, semVars
    <3> QED  BY <2>2, <3>1, PromptQuiet
  <2>4. CASE Reader
    BY <2>2, <2>4, PromptConnect, PromptRead, PromptDisconnect, PromptReconnect DEF Reader
  <2>5. CASE Engine
    BY <1>1, <2>2, <2>5, PromptOnConnected, PromptOnDisconnected, PromptOnRead, PromptDrain,
       PromptTimer, PromptOnApplied, PromptOnCursor DEF Engine
  <2>6. CASE Semantic
    BY <2>2, <2>6, PromptApply, PromptCursor DEF Semantic
  <2>7. ~Crash
    BY DEF Crash
  <2> QED  BY <1>3, <2>3, <2>4, <2>5, <2>6, <2>7 DEF Next
<1> QED  BY <1>2, <1>3
-----------------------------------------------------------------------------
(* Theorems.                                                               *)

\* The initial states satisfy the invariant.
LEMMA IngestInit == Init => IngestInv
<1> SUFFICES ASSUME Init PROVE IngestInv
  OBVIOUS
<1> USE Numbers DEF Init
<1>1. /\ engine.link = "Reconnecting" /\ ~engine.reconnectTimer /\ ~engine.cursorInFlight
      /\ ~engine.drainTimer /\ engine.buffer = <<>> /\ engine.status = 0
      /\ reader.state = "connecting" /\ reader.next = 0
  BY DEF EngineFrom, ReaderAt
<1>2. Base = 0 /\ Greeting = 0
  BY DEF Base, Greeting
<1>3. AppliedExactlyOnce
  BY DEF AppliedExactlyOnce, Seqs
<1>4. StatusFollowsCursor
  BY <1>1 DEF StatusFollowsCursor
<1>5. StockInv
  BY <1>1 DEF StockInv
<1>6. BatchInv
  BY DEF BatchInv
<1>7. RunInv
  BY <1>1, <1>2 DEF RunInv
<1>8. SessionInv
  BY <1>1 DEF SessionInv
<1> QED  BY <1>3, <1>4, <1>5, <1>6, <1>7, <1>8 DEF IngestInv

\* Every step keeps the invariant.
LEMMA IngestNext ==
    ASSUME TypeOK, IngestInv, [Next]_vars
    PROVE  IngestInv'
<1>1. /\ AppliedExactlyOnce /\ StatusFollowsCursor /\ (up => StockInv /\ BatchInv)
  BY DEF IngestInv
<1>2. AppliedExactlyOnce'
  BY <1>1, ExactNext
<1>3. up' => StockInv'
  BY <1>1, StockNext
<1>4. up' => BatchInv' /\ StatusFollowsCursor'
  BY <1>1, BatchNext
<1>5. StatusFollowsCursor'
  BY <1>4 DEF StatusFollowsCursor
<1>6. up' /\ prompt' => RunInv' /\ SessionInv'
  BY PromptNext
<1> QED  BY <1>2, <1>3, <1>4, <1>5, <1>6 DEF IngestInv

\* With any timing of the transactions, TypeOK and the inductive invariant IngestInv
\* hold in every reachable state of reader, engine and semantic actor.
THEOREM IngestInvariant == Spec => [](TypeOK /\ IngestInv)
<1>1. Init => TypeOK /\ IngestInv
  BY TypeInit, IngestInit
<1>2. TypeOK /\ IngestInv /\ [Next]_vars => (TypeOK /\ IngestInv)'
  <2> SUFFICES ASSUME TypeOK, IngestInv, [Next]_vars PROVE TypeOK' /\ IngestInv'
    OBVIOUS
  <2>1. TypeOK'
    BY TypeNext DEF IngestInv
  <2>2. IngestInv'
    BY IngestNext
  <2> QED  BY <2>1, <2>2
<1> QED  BY <1>1, <1>2, PTL DEF Spec

\* The variables have their types: channel, buffer and fault counter keep their
\* bounds.
THEOREM IngestTypes == Spec => []TypeOK
BY IngestInvariant, PTL

\* Whatever is read twice, refused or lost in a crash, every foreign record below
\* the stable cursor has been applied exactly once and none above it.
THEOREM IngestAppliesOnce == Spec => []AppliedExactlyOnce
<1>1. IngestInv => AppliedExactlyOnce
  BY DEF IngestInv
<1> QED  BY <1>1, IngestInvariant, PTL

\* The cursor that status reports never runs ahead of the durable one.
THEOREM IngestStatus == Spec => []StatusFollowsCursor
<1>1. IngestInv => StatusFollowsCursor
  BY DEF IngestInv
<1> QED  BY <1>1, IngestInvariant, PTL

\* If no reconnect timer fires during a transaction, the assertion of the drain
\* timer holds, no buffer has a gap and no batch is refused.
THEOREM IngestBatchesFit == Spec => []PromptBatchesFit
<1>1. TypeOK /\ IngestInv => PromptBatchesFit
  <2> SUFFICES ASSUME TypeOK, IngestInv, prompt, up
               PROVE  /\ engine.drainTimer =>
                             engine.buffer # <<>> /\ ContiguousBatch(engine.buffer)
                      /\ requests # <<>> /\ Head(requests).type = "Apply"
                             => Head(requests).first = cursor
    BY DEF PromptBatchesFit, BatchesFit
  <2>1. StockInv /\ RunInv /\ SessionInv
    BY DEF IngestInv
  <2>2. engine.buffer # <<>> => ContiguousBatch(engine.buffer)
    <3> DEFINE q == engine.buffer
               n == Len(q)
    <3>1. /\ Base \in Nat /\ n \in Nat /\ DOMAIN q = 1 .. n /\ (q = <<>> <=> n = 0)
          /\ \A i \in DOMAIN q : q[i] = Base + i - 1
      BY <2>1, Shape DEF RunInv
    <3> HIDE DEF q, n
    <3>2. q # <<>> => q[1] = Base + 1 - 1
      BY <3>1
    <3>3. q # <<>> => \A i \in 1 .. n : q[i] = q[1] + i - 1
      BY <3>1, <3>2
    <3> QED  BY <3>3 DEF ContiguousBatch, q, n
  <2>3. requests # <<>> => Head(requests) = requests[1] /\ 1 \in DOMAIN requests
    BY Shape
  <2>4. requests # <<>> /\ Head(requests).type = "Apply" => Head(requests).first = cursor
    BY <2>1, <2>3 DEF SessionInv, IsApply
  <2> QED  BY <2>1, <2>2, <2>4 DEF StockInv
<1> QED  BY <1>1, IngestInvariant, PTL
=============================================================================
