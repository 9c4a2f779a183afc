---------------------------- MODULE OutboxFacts -----------------------------
(***************************************************************************)
(* What the parts of DeliveryInv say about a record or a sequence when it  *)
(* is changed: lemmas about mailboxes, channels, sessions and the log, with *)
(* no mention of the state of OutboxPipeline.                              *)
(***************************************************************************)
EXTENDS OutboxInvariant, OutboxPipelineProofs

(* Types.                                                                  *)

\* Ids are natural numbers, and NoId is none of them.
LEMMA IdsAreNats == (\A x \in Ids : x \in Nat) /\ NoId = -1
BY ConstantsAssumption DEF Ids, NoId

\* The fields of messages are integers.
LEMMA MessageFields ==
    /\ \A q \in SemanticRequests : q.through \in Int
    /\ \A r \in SemanticReplies : r.first \in Int /\ r.last \in Int
    /\ \A q \in WriterRequests : q.id \in Int /\ (q.type = "Append" => q.id \in Ids)
    /\ \A q \in WriterResponses : q.id \in Int /\ (q.type = "Durable" => q.id \in Ids)
<1> USE IdsAreNats
<1>1. \A q \in SemanticRequests : q.through \in Int
  BY DEF SemanticRequests, ReadReq, ReleaseReq, TrimReq
<1>2. \A r \in SemanticReplies : r.first \in Int /\ r.last \in Int
  BY DEF SemanticReplies, ReadReply, ReleaseReply
<1>3. \A q \in WriterRequests : q.id \in Int /\ (q.type = "Append" => q.id \in Ids)
  BY DEF WriterRequests, ReconnectReq, AppendReq
<1>4. \A q \in WriterResponses : q.id \in Int /\ (q.type = "Durable" => q.id \in Ids)
  BY DEF WriterResponses, Connected, Disconnected, Durable
<1> QED  BY <1>1, <1>2, <1>3, <1>4
-----------------------------------------------------------------------------
(* Sequences and runs of ids.                                              *)

\* The first element and the rest of a queue.
LEMMA TailFacts ==
    ASSUME NEW S, NEW s \in Seq(S), s # <<>>
    PROVE  /\ Len(s) \in Nat /\ Len(s) > 0 /\ Tail(s) \in Seq(S)
           /\ Len(Tail(s)) = Len(s) - 1
           /\ \A i \in 1 .. Len(s) - 1 : Tail(s)[i] = s[i + 1]
           /\ Head(s) = s[1] /\ s[1] \in S
           /\ Tail(s) = <<>> <=> Len(s) = 1
<1>1. Len(s) \in Nat /\ Len(s) > 0 /\ s[1] \in S
  OBVIOUS
<1>2. /\ Tail(s) \in Seq(S) /\ Len(Tail(s)) = Len(s) - 1 /\ Head(s) = s[1]
      /\ \A i \in 1 .. Len(s) - 1 : Tail(s)[i] = s[i + 1]
  BY <1>1, HeadTailProperties
<1>3. Tail(s) = <<>> <=> Len(Tail(s)) = 0
  BY <1>2, EmptySeq
<1> QED  BY <1>1, <1>2, <1>3

\* A queue with one more element.
LEMMA AppendFacts ==
    ASSUME NEW S, NEW s \in Seq(S), NEW x \in S
    PROVE  /\ Len(s) \in Nat /\ Append(s, x) \in Seq(S)
           /\ Len(Append(s, x)) = Len(s) + 1
           /\ \A i \in 1 .. Len(s) : Append(s, x)[i] = s[i]
           /\ Append(s, x)[Len(s) + 1] = x
           /\ Append(s, x) # <<>>
BY AppendProperties, LenProperties, EmptySeq

\* What is left of a run of ids without its first.
LEMMA ConsecutiveTail ==
    ASSUME NEW p \in Seq(Ids), p # <<>>, Consecutive(p)
    PROVE  /\ Consecutive(Tail(p)) /\ Head(p) = p[1] /\ p[1] \in Nat
           /\ Tail(p) # <<>> => /\ Tail(p)[1] = p[1] + 1
                                /\ Tail(p)[Len(Tail(p))] = p[Len(p)]
           /\ Tail(p) = <<>> => Len(p) = 1
<1>1. /\ Len(p) \in Nat /\ Len(p) > 0 /\ Tail(p) \in Seq(Ids)
      /\ Len(Tail(p)) = Len(p) - 1
      /\ \A i \in 1 .. Len(p) - 1 : Tail(p)[i] = p[i + 1]
      /\ Head(p) = p[1] /\ p[1] \in Ids
      /\ Tail(p) = <<>> <=> Len(p) = 1
  BY TailFacts
<1>2. p[1] \in Nat
  BY <1>1, IdsAreNats
<1>3. \A i \in 1 .. Len(p) : p[i] = p[1] + i - 1
  BY DEF Consecutive
<1>4. \A i \in 1 .. Len(p) - 1 : i + 1 \in 1 .. Len(p) /\ (i + 1) - 1 = i
  BY <1>1
<1>5. \A i \in 1 .. Len(p) - 1 : Tail(p)[i] = p[1] + (i + 1) - 1
  BY <1>1, <1>3, <1>4
<1>6. ASSUME Tail(p) # <<>>
      PROVE  Tail(p)[1] = p[1] + 1 /\ Tail(p)[Len(Tail(p))] = p[Len(p)]
  <2>1. 1 \in 1 .. Len(p) - 1 /\ Len(p) - 1 \in 1 .. Len(p) - 1 /\ (Len(p) - 1) + 1 = Len(p)
    BY <1>1, <1>6
  <2> QED  BY <1>1, <1>2, <1>5, <2>1
<1>7. Consecutive(Tail(p))
  <2> SUFFICES ASSUME NEW i \in 1 .. Len(p) - 1 PROVE Tail(p)[i] = Tail(p)[1] + i - 1
    BY <1>1 DEF Consecutive
  <2>1. Tail(p) # <<>>
    BY <1>1
  <2>2. Tail(p)[1] = p[1] + 1
    BY <1>6, <2>1
  <2>3. Tail(p)[i] = p[1] + (i + 1) - 1
    BY <1>5
  <2>4. p[1] + (i + 1) - 1 = p[1] + 1 + i - 1
    BY <1>1, <1>2
  <2> QED  BY <2>2, <2>3, <2>4
<1> QED  BY <1>1, <1>2, <1>6, <1>7
-----------------------------------------------------------------------------
(* The log.                                                                *)

\* A record added to the log takes nothing off it.
LEMMA AllOnAppend ==
    ASSUME NEW l \in Seq(Ids), NEW x \in Ids
    PROVE  /\ Range(Append(l, x)) = Range(l) \cup {x}
           /\ \A n : AllOn(l, n) => AllOn(Append(l, x), n)
           /\ AllOn(l, x) => AllOn(Append(l, x), x + 1)
<1>1. /\ Append(l, x) \in Seq(Ids) /\ Len(Append(l, x)) = Len(l) + 1
      /\ \A i \in 1 .. Len(l) : Append(l, x)[i] = l[i]
      /\ Append(l, x)[Len(l) + 1] = x /\ Len(l) \in Nat
  BY AppendProperties, LenProperties
<1>2. DOMAIN l = 1 .. Len(l) /\ DOMAIN Append(l, x) = 1 .. Len(l) + 1
  BY <1>1, LenProperties
<1>3. Range(Append(l, x)) = Range(l) \cup {x}
  <2>1. ASSUME NEW y \in Range(Append(l, x)) PROVE y \in Range(l) \cup {x}
    <3>1. PICK i \in 1 .. Len(l) + 1 : Append(l, x)[i] = y
      BY <1>2, <2>1 DEF Range
    <3> QED  BY <1>1, <1>2, <3>1 DEF Range
  <2>2. ASSUME NEW y \in Range(l) PROVE y \in Range(Append(l, x))
    <3>1. PICK i \in 1 .. Len(l) : l[i] = y
      BY <1>2, <2>2 DEF Range
    <3> QED  BY <1>1, <1>2, <3>1 DEF Range
  <2>3. x \in Range(Append(l, x))
    BY <1>1, <1>2 DEF Range
  <2> QED  BY <2>1, <2>2, <2>3
<1>5. \A n : AllOn(l, n) => AllOn(Append(l, x), n)
  BY <1>3 DEF AllOn
<1>6. AllOn(l, x) => AllOn(Append(l, x), x + 1)
  BY <1>3 DEF AllOn, Ids
<1> QED  BY <1>3, <1>5, <1>6

\* A log that holds all ids below n holds all ids below any m <= n.
LEMMA AllOnDown ==
    ASSUME NEW l, NEW m \in Int, NEW n \in Int, m <= n, AllOn(l, n)
    PROVE  AllOn(l, m)
BY DEF AllOn

\* More on the log: every promise about it still holds.
LEMMA LogGrows ==
    ASSUME NEW l, NEW l2, \A n : AllOn(l, n) => AllOn(l2, n)
    PROVE  /\ \A q : TrimsOn(q, l) => TrimsOn(q, l2)
           /\ \A f : DurablesOn(f, l) => DurablesOn(f, l2)
           /\ \A s : Continues(s, l) => Continues(s, l2)
           /\ \A w : Session(w, l) => Session(w, l2)
           /\ \A mid, w, rel, t, R : Chain(mid, w, rel, t, R, l) => Chain(mid, w, rel, t, R, l2)
<1>1. \A q : TrimsOn(q, l) => TrimsOn(q, l2)
  BY DEF TrimsOn
<1>2. \A f : DurablesOn(f, l) => DurablesOn(f, l2)
  BY DEF DurablesOn
<1>3. \A s : Continues(s, l) => Continues(s, l2)
  BY DEF Continues
<1>4. \A w : Session(w, l) => Session(w, l2)
  BY DEF Session
<1>5. ASSUME NEW mid, NEW w, NEW rel, NEW t, NEW R, Chain(mid, w, rel, t, R, l)
      PROVE  Chain(mid, w, rel, t, R, l2)
  <2>1. \A n : SentUpTo(n, w, t, l) => SentUpTo(n, w, t, l2)
    BY DEF SentUpTo
  <2> QED  BY <1>5, <2>1 DEF Chain
<1> QED  BY <1>1, <1>2, <1>3, <1>4, <1>5
-----------------------------------------------------------------------------
(* The mailbox.                                                            *)

\* The requests that are left when the first one is taken.
LEMMA MailboxTail ==
    ASSUME NEW q \in Seq(SemanticRequests), q # <<>>
    PROVE  /\ HasRequest(q, Head(q).type)
           /\ \A type : HasRequest(Tail(q), type) => HasRequest(q, type)
           /\ Mailbox(q) =>
                 /\ Mailbox(Tail(q))
                 /\ Head(q).type \in {"ReadOutbox", "ReleaseOutbox"}
                       => ~HasRequest(Tail(q), Head(q).type)
                 /\ Head(q).type = "ReleaseOutbox" => ~HasRequest(Tail(q), "ReadOutbox")
           /\ \A l : TrimsOn(q, l) =>
                 /\ TrimsOn(Tail(q), l)
                 /\ Head(q).type = "TrimOutbox" => AllOn(l, Head(q).through + 1)
<1>1. /\ Len(q) \in Nat /\ Len(q) > 0 /\ Len(Tail(q)) = Len(q) - 1
      /\ \A i \in 1 .. Len(q) - 1 : Tail(q)[i] = q[i + 1]
      /\ Head(q) = q[1]
  BY HeadTailProperties, LenProperties, EmptySeq
<1>2. HasRequest(q, Head(q).type)
  BY <1>1 DEF HasRequest
<1>3. ASSUME NEW type, HasRequest(Tail(q), type) PROVE HasRequest(q, type)
  <2>1. PICK i \in 1 .. Len(q) - 1 : Tail(q)[i].type = type
    BY <1>1, <1>3 DEF HasRequest
  <2> QED  BY <1>1, <2>1 DEF HasRequest
<1>4. ASSUME Mailbox(q) PROVE Mailbox(Tail(q))
  <2> SUFFICES ASSUME NEW i \in 1 .. Len(q) - 1, NEW j \in 1 .. Len(q) - 1, i < j
               PROVE  /\ Tail(q)[i].type \in {"ReadOutbox", "ReleaseOutbox"}
                            => Tail(q)[j].type # Tail(q)[i].type
                      /\ Tail(q)[i].type = "ReleaseOutbox" => Tail(q)[j].type # "ReadOutbox"
    BY <1>1 DEF Mailbox
  <2>1. i + 1 \in 1 .. Len(q) /\ j + 1 \in 1 .. Len(q) /\ i + 1 < j + 1
    BY <1>1
  <2> QED  BY <1>1, <1>4, <2>1 DEF Mailbox
<1>5. ASSUME Mailbox(q), NEW i \in 1 .. Len(q) - 1
      PROVE  /\ Head(q).type \in {"ReadOutbox", "ReleaseOutbox"}
                   => Tail(q)[i].type # Head(q).type
             /\ Head(q).type = "ReleaseOutbox" => Tail(q)[i].type # "ReadOutbox"
  <2>1. i + 1 \in 1 .. Len(q) /\ 1 \in 1 .. Len(q) /\ 1 < i + 1
    BY <1>1
  <2> QED  BY <1>1, <1>5, <2>1 DEF Mailbox
<1>6. ASSUME NEW l, TrimsOn(q, l)
      PROVE  /\ TrimsOn(Tail(q), l)
             /\ Head(q).type = "TrimOutbox" => AllOn(l, Head(q).through + 1)
  <2>1. ASSUME NEW i \in 1 .. Len(q) - 1, Tail(q)[i].type = "TrimOutbox"
        PROVE  AllOn(l, Tail(q)[i].through + 1)
    BY <1>1, <1>6, <2>1 DEF TrimsOn
  <2> QED  BY <1>1, <1>6, <2>1 DEF TrimsOn
<1> QED  BY <1>1, <1>2, <1>3, <1>4, <1>5, <1>6 DEF HasRequest

\* A request added to the mailbox.
LEMMA MailboxAppend ==
    ASSUME NEW q \in Seq(SemanticRequests), NEW x \in SemanticRequests
    PROVE  /\ \A type : HasRequest(Append(q, x), type) <=> HasRequest(q, type) \/ x.type = type
           /\ Mailbox(q)
              /\ (x.type \in {"ReadOutbox", "ReleaseOutbox"} => ~HasRequest(q, x.type))
              /\ (x.type = "ReadOutbox" => ~HasRequest(q, "ReleaseOutbox"))
                 => Mailbox(Append(q, x))
           /\ \A l : TrimsOn(q, l) /\ (x.type = "TrimOutbox" => AllOn(l, x.through + 1))
                       => TrimsOn(Append(q, x), l)
<1> DEFINE a == Append(q, x)
<1>1. /\ Len(a) = Len(q) + 1 /\ \A i \in 1 .. Len(q) : a[i] = q[i]
      /\ a[Len(q) + 1] = x /\ Len(q) \in Nat
  BY AppendProperties, LenProperties
<1> HIDE DEF a
<1>2. ASSUME NEW type PROVE HasRequest(a, type) <=> HasRequest(q, type) \/ x.type = type
  <2>1. ASSUME HasRequest(a, type) PROVE HasRequest(q, type) \/ x.type = type
    <3>1. PICK i \in 1 .. Len(q) + 1 : a[i].type = type
      BY <1>1, <2>1 DEF HasRequest
    <3> QED  BY <1>1, <3>1 DEF HasRequest
  <2>2. ASSUME HasRequest(q, type) PROVE HasRequest(a, type)
    <3>1. PICK i \in 1 .. Len(q) : q[i].type = type
      BY <2>2 DEF HasRequest
    <3> QED  BY <1>1, <3>1 DEF HasRequest
  <2>3. x.type = type => HasRequest(a, type)
    BY <1>1 DEF HasRequest
  <2> QED  BY <2>1, <2>2, <2>3
<1>3. ASSUME Mailbox(q),
             x.type \in {"ReadOutbox", "ReleaseOutbox"} => ~HasRequest(q, x.type),
             x.type = "ReadOutbox" => ~HasRequest(q, "ReleaseOutbox")
      PROVE  Mailbox(a)
  <2> SUFFICES ASSUME NEW i \in 1 .. Len(q) + 1, NEW j \in 1 .. Len(q) + 1, i < j
               PROVE  /\ a[i].type \in {"ReadOutbox", "ReleaseOutbox"}
                            => a[j].type # a[i].type
                      /\ a[i].type = "ReleaseOutbox" => a[j].type # "ReadOutbox"
    BY <1>1 DEF Mailbox
  <2>1. i \in 1 .. Len(q) /\ a[i] = q[i]
    BY <1>1
  <2>2. CASE j \in 1 .. Len(q)
    BY <1>1, <1>3, <2>1, <2>2 DEF Mailbox
  <2>3. CASE j = Len(q) + 1
    BY <1>1, <1>3, <2>1, <2>3 DEF HasRequest
  <2> QED  BY <1>1, <2>2, <2>3
<1>4. ASSUME NEW l, TrimsOn(q, l), x.type = "TrimOutbox" => AllOn(l, x.through + 1)
      PROVE  TrimsOn(a, l)
  BY <1>1, <1>4 DEF TrimsOn
<1> QED  BY <1>2, <1>3, <1>4 DEF a
-----------------------------------------------------------------------------
(* The engine's bookkeeping.                                               *)

\* maybe_start_outbox_read: nothing, or one more read in the mailbox.
LEMMA MaybeStartReadFields ==
    ASSUME NEW e \in EngineType
    PROVE  LET m == MaybeStartRead(e)
               go == e.readRequested /\ ~e.readInFlight /\ ~e.releaseInFlight
                     /\ ~e.releaseRequested /\ e.link = "Online"
           IN  /\ m.link = e.link /\ m.reconnectTimer = e.reconnectTimer
               /\ m.releaseInFlight = e.releaseInFlight
               /\ m.releaseRequested = e.releaseRequested
               /\ go => m.requests = Append(e.requests, ReadReq) /\ m.readInFlight
               /\ ~go => m = e
BY DEF MaybeStartRead, EngineType

\* It keeps the order of requests, and adds no trim.
LEMMA MaybeStartReadKeeps ==
    ASSUME NEW e \in EngineType, NEW R, NEW res
    PROVE  /\ Requested(e, R, res) => Requested(MaybeStartRead(e), R, res)
           /\ Requested(e, R, res) /\ Settled(e, res) => Settled(MaybeStartRead(e), res)
           /\ \A l : TrimsOn(e.requests, l) => TrimsOn(MaybeStartRead(e).requests, l)
<1> DEFINE m == MaybeStartRead(e)
           go == e.readRequested /\ ~e.readInFlight /\ ~e.releaseInFlight
                 /\ ~e.releaseRequested /\ e.link = "Online"
<1>1. /\ m.link = e.link /\ m.reconnectTimer = e.reconnectTimer
      /\ m.releaseInFlight = e.releaseInFlight
      /\ m.releaseRequested = e.releaseRequested
      /\ go => m.requests = Append(e.requests, ReadReq) /\ m.readInFlight
      /\ ~go => m = e
  BY MaybeStartReadFields
<1>2. CASE ~go
  BY <1>1, <1>2
<1>3. CASE go
  <2>1. /\ e.requests \in Seq(SemanticRequests) /\ ReadReq \in SemanticRequests
        /\ ReadReq.type = "ReadOutbox"
    BY DEF EngineType, SemanticRequests, ReadReq
  <2>2. /\ \A type : HasRequest(m.requests, type)
                       <=> HasRequest(e.requests, type) \/ "ReadOutbox" = type
        /\ \A l : TrimsOn(e.requests, l) => TrimsOn(m.requests, l)
    <3>1. m.requests = Append(e.requests, ReadReq)
      BY <1>1, <1>3
    <3> HIDE DEF m, go
    <3>2. \A type : HasRequest(m.requests, type)
                      <=> HasRequest(e.requests, type) \/ "ReadOutbox" = type
      BY <2>1, <3>1, MailboxAppend
    <3>3. \A l : TrimsOn(e.requests, l) => TrimsOn(m.requests, l)
      BY <2>1, <3>1, MailboxAppend
    <3> QED  BY <3>2, <3>3
  <2>3. ASSUME Requested(e, R, res) PROVE Requested(m, R, res)
    <3>1. /\ Mailbox(e.requests) /\ ~HasRequest(e.requests, "ReadOutbox")
          /\ ~HasRequest(e.requests, "ReleaseOutbox") /\ Reads(R) = {} /\ ReleaseReply \notin R
      BY <1>3, <2>3 DEF Requested
    <3>2. Mailbox(m.requests)
      BY <1>1, <1>3, <2>1, <3>1, MailboxAppend
    <3>3. ~HasRequest(m.requests, "ReleaseOutbox")
      BY <2>2, <3>1
    <3> QED  BY <1>1, <1>3, <2>3, <3>1, <3>2, <3>3 DEF Requested
  <2>4. Settled(m, res)
    BY <1>1, <1>3 DEF Settled
  <2> QED  BY <2>2, <2>3, <2>4
<1> HIDE DEF go
<1> QED  BY <1>2, <1>3

\* The read_requested flag is no part of the order of requests.
LEMMA SameRequests ==
    ASSUME NEW e, NEW m, NEW R, NEW res,
           m.link = e.link, m.reconnectTimer = e.reconnectTimer,
           m.readInFlight = e.readInFlight, m.releaseInFlight = e.releaseInFlight,
           m.releaseRequested = e.releaseRequested, m.requests = e.requests
    PROVE  /\ Requested(e, R, res) => Requested(m, R, res)
           /\ Settled(e, res) => Settled(m, res)
           /\ \A l : TrimsOn(e.requests, l) => TrimsOn(m.requests, l)
BY DEF Requested, Settled

\* request_outbox_release: one release in flight, and a second one noted.
LEMMA RequestReleaseFields ==
    ASSUME NEW e \in EngineType
    PROVE  LET m == RequestRelease(e)
           IN  /\ m \in EngineType
               /\ m.link = e.link /\ m.reconnectTimer = e.reconnectTimer
               /\ m.readInFlight = e.readInFlight
               /\ m.readRequested = e.readRequested
               /\ m.releaseInFlight
               /\ m.releaseRequested = e.releaseInFlight
               /\ e.releaseInFlight => m.requests = e.requests
               /\ ~e.releaseInFlight => m.requests = Append(e.requests, ReleaseReq)
<1> DEFINE e1 == [e EXCEPT !.releaseRequested = TRUE]
<1>1. /\ e1 \in EngineType /\ e1.releaseRequested /\ e1.link = e.link
      /\ e1.reconnectTimer = e.reconnectTimer /\ e1.readInFlight = e.readInFlight
      /\ e1.readRequested = e.readRequested /\ e1.releaseInFlight = e.releaseInFlight
      /\ e1.requests = e.requests
  BY DEF EngineType
<1>2. RequestRelease(e) = MaybeStartRelease(e1)
  BY DEF RequestRelease
<1>5. RequestRelease(e) \in EngineType
  BY BookkeepingType
<1> HIDE DEF e1
<1>3. CASE e.releaseInFlight
  <2>1. MaybeStartRelease(e1) = e1
    BY <1>1, <1>3 DEF MaybeStartRelease
  <2> QED  BY <1>1, <1>2, <1>3, <1>5, <2>1 DEF EngineType
<1>4. CASE ~e.releaseInFlight
  <2>1. MaybeStartRelease(e1) =
           [e1 EXCEPT !.requests = Append(@, ReleaseReq),
                      !.releaseRequested = FALSE, !.releaseInFlight = TRUE]
    BY <1>1, <1>4 DEF MaybeStartRelease
  <2> DEFINE m == RequestRelease(e)
  <2>2. /\ m.link = e1.link /\ m.reconnectTimer = e1.reconnectTimer
        /\ m.readInFlight = e1.readInFlight /\ m.readRequested = e1.readRequested
    BY <1>1, <1>2, <2>1 DEF EngineType
  <2>3. m.releaseInFlight = TRUE /\ m.releaseRequested = FALSE
    BY <1>1, <1>2, <2>1 DEF EngineType
  <2>4. m.requests = Append(e1.requests, ReleaseReq)
    BY <1>1, <1>2, <2>1 DEF EngineType
  <2>5. e.releaseInFlight = FALSE
    BY <1>4 DEF EngineType
  <2> HIDE DEF m
  <2>6. m \in EngineType
    BY <1>5 DEF m
  <2> QED  BY <1>1, <1>4, <2>2, <2>3, <2>4, <2>5, <2>6 DEF m
<1> QED  BY <1>3, <1>4

\* A link that is down asks for a release: from then on the requests are settled.
LEMMA RequestReleaseKeeps ==
    ASSUME NEW e \in EngineType, NEW R, NEW res, e.link # "Online"
    PROVE  /\ Requested(e, R, res) =>
                 Requested(RequestRelease(e), R, res) /\ Settled(RequestRelease(e), res)
           /\ \A l : TrimsOn(e.requests, l) => TrimsOn(RequestRelease(e).requests, l)
<1> DEFINE m == RequestRelease(e)
<1>1. /\ m.link = e.link /\ m.reconnectTimer = e.reconnectTimer
      /\ m.readInFlight = e.readInFlight
      /\ m.releaseInFlight
      /\ e.releaseInFlight => m.requests = e.requests
      /\ ~e.releaseInFlight => m.requests = Append(e.requests, ReleaseReq)
  BY RequestReleaseFields
<1> HIDE DEF m
<1>2. CASE e.releaseInFlight
  BY <1>1, <1>2 DEF Requested, Settled, m
<1>3. CASE ~e.releaseInFlight
  <2>1. /\ e.requests \in Seq(SemanticRequests) /\ ReleaseReq \in SemanticRequests
        /\ ReleaseReq.type = "ReleaseOutbox"
    BY DEF EngineType, SemanticRequests, ReleaseReq
  <2>2. /\ \A type : HasRequest(m.requests, type)
                       <=> HasRequest(e.requests, type) \/ "ReleaseOutbox" = type
        /\ \A l : TrimsOn(e.requests, l) => TrimsOn(m.requests, l)
    <3>1. m.requests = Append(e.requests, ReleaseReq)
      BY <1>1, <1>3
    <3>2. ReleaseReq.type # "TrimOutbox"
      BY <2>1
    <3> QED  BY <2>1, <3>1, <3>2, MailboxAppend
  <2>3. ASSUME Requested(e, R, res) PROVE Requested(m, R, res)
    <3>1. /\ Mailbox(e.requests) /\ ~HasRequest(e.requests, "ReleaseOutbox")
          /\ ReleaseReply \notin R
      BY <1>3, <2>3 DEF Requested
    <3>2. Mailbox(m.requests)
      BY <1>1, <1>3, <2>1, <3>1, MailboxAppend
    <3>3. HasRequest(m.requests, "ReadOutbox") <=> HasRequest(e.requests, "ReadOutbox")
      BY <2>2
    <3> QED  BY <1>1, <1>3, <2>3, <3>1, <3>2, <3>3 DEF Requested
  <2>4. Settled(m, res)
    BY <1>1, <1>3 DEF Settled
  <2> QED  BY <2>2, <2>3, <2>4 DEF m
<1> QED  BY <1>2, <1>3

\* The release is over: the next one starts, or nothing is in flight and nothing
\* reserved.
LEMMA ReleaseDone ==
    ASSUME NEW e \in EngineType, NEW R, NEW res, ReleaseReply \in R, Requested(e, R, res)
    PROVE  LET m == MaybeStartRelease([e EXCEPT !.releaseInFlight = FALSE])
           IN  /\ m \in EngineType /\ m.link = e.link
               /\ Requested(m, R \ {ReleaseReply}, res) /\ Settled(m, res)
               /\ \A l : TrimsOn(e.requests, l) => TrimsOn(m.requests, l)
<1> DEFINE e1 == [e EXCEPT !.releaseInFlight = FALSE]
           m == MaybeStartRelease(e1)
<1>1. /\ e1 \in EngineType /\ ~e1.releaseInFlight /\ e1.link = e.link
      /\ e1.reconnectTimer = e.reconnectTimer /\ e1.readInFlight = e.readInFlight
      /\ e1.releaseRequested = e.releaseRequested /\ e1.requests = e.requests
      /\ e1.releaseRequested \in BOOLEAN
  BY DEF EngineType
<1>2. m \in EngineType
  BY <1>1, BookkeepingType
<1>3. /\ e.releaseInFlight /\ res = {} /\ ~HasRequest(e.requests, "ReadOutbox")
      /\ ~HasRequest(e.requests, "ReleaseOutbox") /\ Mailbox(e.requests)
  BY DEF Requested
<1>4. Reads(R \ {ReleaseReply}) = Reads(R)
  BY DEF Reads, ReleaseReply
<1> HIDE DEF e1
<1>5. CASE ~e1.releaseRequested
  <2>1. m = e1
    BY <1>5 DEF MaybeStartRelease
  <2>2. Requested(e1, R \ {ReleaseReply}, res) /\ Settled(e1, res)
    BY <1>1, <1>3, <1>4, <1>5 DEF Requested, Settled
  <2> QED  BY <1>1, <1>2, <2>1, <2>2 DEF e1
<1>6. CASE e1.releaseRequested
  <2>1. m = [e1 EXCEPT !.requests = Append(@, ReleaseReq),
                       !.releaseRequested = FALSE, !.releaseInFlight = TRUE]
    BY <1>1, <1>6 DEF MaybeStartRelease
  <2>2. /\ m.requests = Append(e.requests, ReleaseReq) /\ m.link = e.link
        /\ m.reconnectTimer = e.reconnectTimer /\ m.readInFlight = e.readInFlight
        /\ m.releaseInFlight /\ ~m.releaseRequested
    BY <1>1, <2>1 DEF EngineType
  <2>3. /\ e.requests \in Seq(SemanticRequests) /\ ReleaseReq \in SemanticRequests
        /\ ReleaseReq.type = "ReleaseOutbox"
    BY DEF EngineType, SemanticRequests, ReleaseReq
  <2> HIDE DEF m
  <2>4. /\ ~HasRequest(m.requests, "ReadOutbox") /\ Mailbox(m.requests)
        /\ \A l : TrimsOn(e.requests, l) => TrimsOn(m.requests, l)
    BY <1>3, <2>2, <2>3, MailboxAppend
  <2>5. Requested(m, R \ {ReleaseReply}, res) /\ Settled(m, res)
    BY <1>3, <1>4, <2>2, <2>4 DEF Requested, Settled
  <2> QED  BY <1>2, <2>2, <2>4, <2>5 DEF m, e1
<1> QED  BY <1>5, <1>6
-----------------------------------------------------------------------------
(* The channels to and from the writer.                                    *)

\* The channel to the writer with the appends of one batch.
LEMMA ConcatAppends ==
    ASSUME NEW t \in Seq(WriterRequests), NEW f \in Ids, NEW l \in Ids, f <= l
    PROVE  LET s == t \o Appends(f, l)
           IN  /\ Len(t) \in Nat /\ Len(s) = Len(t) + (l - f + 1)
               /\ \A i \in 1 .. Len(t) : s[i] = t[i]
               /\ \A i \in Len(t) + 1 .. Len(s) : s[i] = AppendReq(f + (i - Len(t)) - 1)
<1>0. f \in Nat /\ l \in Nat /\ l - f + 1 \in Nat
  BY IdsAreNats
<1>1. \A i \in 1 .. l - f + 1 : AppendReq(f + i - 1) \in WriterRequests
  <2> SUFFICES ASSUME NEW i \in 1 .. l - f + 1 PROVE f + i - 1 \in Ids
    BY DEF WriterRequests
  <2> QED  BY <1>0, ConstantsAssumption DEF Ids
<1>2. Appends(f, l) \in Seq(WriterRequests) /\ Len(Appends(f, l)) = l - f + 1
  <2>1. Appends(f, l) \in [1 .. l - f + 1 -> WriterRequests]
    BY <1>1 DEF Appends
  <2>2. Appends(f, l) \in Seq(WriterRequests)
    BY <1>0, <2>1, SeqDef
  <2>3. 1 .. Len(Appends(f, l)) = 1 .. l - f + 1 /\ Len(Appends(f, l)) \in Nat
    BY <2>1, <2>2, LenProperties
  <2> QED  BY <1>0, <2>2, <2>3
<1>3. \A i \in 1 .. l - f + 1 : Appends(f, l)[i] = AppendReq(f + i - 1)
  BY DEF Appends
<1>4. /\ Len(t \o Appends(f, l)) = Len(t) + (l - f + 1) /\ Len(t) \in Nat
      /\ \A i \in 1 .. Len(t) + (l - f + 1) : (t \o Appends(f, l))[i] =
            IF i <= Len(t) THEN t[i] ELSE Appends(f, l)[i - Len(t)]
  <2>1. PICK a \in Seq(WriterRequests) : a = Appends(f, l) /\ Len(a) = l - f + 1
    BY <1>2
  <2>2. /\ Len(t \o a) = Len(t) + Len(a) /\ Len(t) \in Nat
        /\ \A i \in 1 .. Len(t) + Len(a) : (t \o a)[i] =
              IF i <= Len(t) THEN t[i] ELSE a[i - Len(t)]
    BY ConcatProperties, LenProperties
  <2> QED  BY <2>1, <2>2
<1>5. ASSUME NEW i \in Len(t) + 1 .. Len(t) + (l - f + 1)
      PROVE  (t \o Appends(f, l))[i] = AppendReq(f + (i - Len(t)) - 1)
  <2>1. i - Len(t) \in 1 .. l - f + 1 /\ ~(i <= Len(t)) /\ i \in 1 .. Len(t) + (l - f + 1)
    BY <1>0, <1>4
  <2> QED  BY <1>3, <1>4, <2>1
<1>6. \A i \in 1 .. Len(t) : (t \o Appends(f, l))[i] = t[i]
  BY <1>0, <1>4
<1> QED  BY <1>4, <1>5, <1>6

\* An answer without rows sends nothing.
LEMMA ConcatNoAppends ==
    ASSUME NEW t \in Seq(WriterRequests), NEW f \in Int, NEW l \in Int, ~(f <= l)
    PROVE  t \o Appends(f, l) = t
<1>1. 1 .. l - f + 1 = 1 .. 0
  OBVIOUS
<1>2. [i \in 1 .. 0 |-> AppendReq(f + i - 1)] = <<>>
  OBVIOUS
<1>3. Appends(f, l) = <<>>
  BY <1>1, <1>2 DEF Appends
<1> QED  BY <1>3, ConcatEmptySeq

\* The appends of a batch keep the channel free of Reconnect requests.
LEMMA BatchInChannel ==
    ASSUME NEW t \in Seq(WriterRequests), NEW f \in Ids, NEW l \in Ids, f <= l
    PROVE  /\ AllAppends(t) => AllAppends(t \o Appends(f, l))
           /\ \A n \in Int : (\A i \in 1 .. Len(t) : t[i].id < n) /\ l < n
                 => \A i \in 1 .. Len(t \o Appends(f, l)) : (t \o Appends(f, l))[i].id < n
<1> DEFINE s == t \o Appends(f, l)
<1>1. /\ Len(t) \in Nat /\ Len(s) = Len(t) + (l - f + 1)
      /\ \A i \in 1 .. Len(t) : s[i] = t[i]
      /\ \A i \in Len(t) + 1 .. Len(s) : s[i] = AppendReq(f + (i - Len(t)) - 1)
  BY ConcatAppends
<1>2. f \in Nat /\ l \in Nat
  BY IdsAreNats
<1>3. \A x : AppendReq(x).id = x /\ AppendReq(x).type = "Append"
  BY DEF AppendReq
<1> HIDE DEF s
<1>4. \A i \in 1 .. Len(s) : i \in 1 .. Len(t) \/ i \in Len(t) + 1 .. Len(s)
  BY <1>1, <1>2
<1>5. AllAppends(t) => AllAppends(s)
  BY <1>1, <1>3, <1>4 DEF AllAppends
<1>6. ASSUME NEW n \in Int, \A i \in 1 .. Len(t) : t[i].id < n, l < n,
             NEW i \in 1 .. Len(s)
      PROVE  s[i].id < n
  <2>1. CASE i \in 1 .. Len(t)
    BY <1>1, <1>6, <2>1
  <2>2. CASE i \in Len(t) + 1 .. Len(s)
    <3>1. s[i].id = f + (i - Len(t)) - 1
      BY <1>1, <1>3, <2>2
    <3>2. f + (i - Len(t)) - 1 <= l
      BY <1>1, <1>2, <2>2
    <3> QED  BY <1>1, <1>2, <1>6, <2>2, <3>1, <3>2
  <2> QED  BY <1>4, <2>1, <2>2
<1> QED  BY <1>5, <1>6 DEF s

\* Taking the first request off the writer's channel.
LEMMA RequestTaken ==
    ASSUME NEW t \in Seq(WriterRequests), t # <<>>
    PROVE  /\ Head(t) = t[1] /\ t[1] \in WriterRequests
           /\ AllAppends(t) => AllAppends(Tail(t)) /\ Head(t).type = "Append"
           /\ OnlyLast(t, "Reconnect") =>
                 IF Head(t).type = "Reconnect" THEN Tail(t) = <<>>
                                               ELSE OnlyLast(Tail(t), "Reconnect")
           /\ \A n : (\A i \in 1 .. Len(t) : t[i].id < n)
                       => t[1].id < n /\ \A i \in 1 .. Len(Tail(t)) : Tail(t)[i].id < n
<1>1. /\ Len(t) \in Nat /\ Len(t) > 0 /\ Tail(t) \in Seq(WriterRequests)
      /\ Len(Tail(t)) = Len(t) - 1
      /\ \A i \in 1 .. Len(t) - 1 : Tail(t)[i] = t[i + 1]
      /\ Head(t) = t[1] /\ t[1] \in WriterRequests
      /\ Tail(t) = <<>> <=> Len(t) = 1
  BY TailFacts
<1>2. 1 \in 1 .. Len(t) /\ \A i \in 1 .. Len(t) - 1 : i + 1 \in 1 .. Len(t)
  BY <1>1
<1>3. AllAppends(t) => AllAppends(Tail(t)) /\ Head(t).type = "Append"
  BY <1>1, <1>2 DEF AllAppends
<1>4. ASSUME OnlyLast(t, "Reconnect")
      PROVE  IF Head(t).type = "Reconnect" THEN Tail(t) = <<>>
                                           ELSE OnlyLast(Tail(t), "Reconnect")
  <2>1. \A i \in 1 .. Len(t) : t[i].type = "Reconnect" <=> i = Len(t)
    BY <1>4 DEF OnlyLast
  <2>2. Head(t).type = "Reconnect" <=> 1 = Len(t)
    BY <1>1, <1>2, <2>1
  <2>3. CASE Head(t).type = "Reconnect"
    BY <1>1, <2>2, <2>3
  <2>4. CASE Head(t).type # "Reconnect"
    <3>1. Tail(t) # <<>>
      BY <1>1, <2>2, <2>4
    <3>2. \A i \in 1 .. Len(t) - 1 : Tail(t)[i].type = "Reconnect" <=> i + 1 = Len(t)
      BY <1>1, <1>2, <2>1
    <3>3. \A i \in 1 .. Len(t) - 1 : i + 1 = Len(t) <=> i = Len(t) - 1
      BY <1>1
    <3> QED  BY <1>1, <2>4, <3>1, <3>2, <3>3 DEF OnlyLast
  <2> QED  BY <2>3, <2>4
<1>5. ASSUME NEW n, \A i \in 1 .. Len(t) : t[i].id < n
      PROVE  t[1].id < n /\ \A i \in 1 .. Len(Tail(t)) : Tail(t)[i].id < n
  BY <1>1, <1>2, <1>5
<1> QED  BY <1>1, <1>3, <1>4, <1>5

\* Taking the first response off the writer's channel.
LEMMA ResponseTaken ==
    ASSUME NEW f \in Seq(WriterResponses), f # <<>>
    PROVE  /\ \A l : DurablesOn(f, l) =>
                 /\ DurablesOn(Tail(f), l)
                 /\ Head(f).type = "Durable" => AllOn(l, Head(f).id + 1)
           /\ OnlyLast(f, "Disconnected") =>
                 IF Head(f).type = "Disconnected" THEN Tail(f) = <<>>
                                                  ELSE OnlyLast(Tail(f), "Disconnected")
           /\ f = <<Connected>> => Tail(f) = <<>> /\ Head(f).type = "Connected"
           /\ (\A i \in 1 .. Len(f) : f[i].type = "Durable") =>
                 /\ Head(f).type = "Durable"
                 /\ \A i \in 1 .. Len(Tail(f)) : Tail(f)[i].type = "Durable"
<1>1. /\ Len(f) \in Nat /\ Len(f) > 0 /\ Tail(f) \in Seq(WriterResponses)
      /\ Len(Tail(f)) = Len(f) - 1
      /\ \A i \in 1 .. Len(f) - 1 : Tail(f)[i] = f[i + 1]
      /\ Head(f) = f[1]
      /\ Tail(f) = <<>> <=> Len(f) = 1
  BY TailFacts
<1>2. ASSUME NEW l, DurablesOn(f, l)
      PROVE  /\ DurablesOn(Tail(f), l)
             /\ Head(f).type = "Durable" => AllOn(l, Head(f).id + 1)
  <2>1. ASSUME NEW i \in 1 .. Len(f) - 1, Tail(f)[i].type = "Durable"
        PROVE  AllOn(l, Tail(f)[i].id + 1)
    BY <1>1, <1>2, <2>1 DEF DurablesOn
  <2> QED  BY <1>1, <1>2, <2>1 DEF DurablesOn
<1>3. ASSUME OnlyLast(f, "Disconnected")
      PROVE  IF Head(f).type = "Disconnected" THEN Tail(f) = <<>>
                                              ELSE OnlyLast(Tail(f), "Disconnected")
  <2>1. \A i \in 1 .. Len(f) : f[i].type = "Disconnected" <=> i = Len(f)
    BY <1>3 DEF OnlyLast
  <2>4. 1 \in 1 .. Len(f) /\ \A i \in 1 .. Len(f) - 1 : i + 1 \in 1 .. Len(f)
    BY <1>1
  <2>5. Head(f).type = "Disconnected" <=> 1 = Len(f)
    BY <1>1, <2>1, <2>4
  <2>2. CASE Head(f).type = "Disconnected"
    BY <1>1, <2>5, <2>2
  <2>3. CASE Head(f).type # "Disconnected"
    <3>1. Tail(f) # <<>>
      BY <1>1, <2>3, <2>5
    <3>2. \A i \in 1 .. Len(f) - 1 : Tail(f)[i].type = "Disconnected" <=> i + 1 = Len(f)
      BY <1>1, <2>1, <2>4
    <3>3. \A i \in 1 .. Len(f) - 1 : i + 1 = Len(f) <=> i = Len(f) - 1
      BY <1>1
    <3> QED  BY <1>1, <2>3, <3>1, <3>2, <3>3 DEF OnlyLast
  <2> QED  BY <2>2, <2>3
<1>4. ASSUME f = <<Connected>> PROVE Tail(f) = <<>> /\ Head(f).type = "Connected"
  <2>1. Len(f) = 1 /\ f[1] = Connected
    BY <1>4
  <2> QED  BY <1>1, <2>1 DEF Connected
<1>5. ASSUME \A i \in 1 .. Len(f) : f[i].type = "Durable"
      PROVE  /\ Head(f).type = "Durable"
             /\ \A i \in 1 .. Len(Tail(f)) : Tail(f)[i].type = "Durable"
  BY <1>1, <1>5
<1> QED  BY <1>2, <1>3, <1>4, <1>5

\* A response that is no acknowledgement promises nothing.
LEMMA ResponseAdded ==
    ASSUME NEW f \in Seq(WriterResponses), NEW x \in WriterResponses
    PROVE  /\ \A l : DurablesOn(f, l) /\ (x.type = "Durable" => AllOn(l, x.id + 1))
                        => DurablesOn(Append(f, x), l)
           /\ (\A i \in 1 .. Len(f) : f[i].type = "Durable") /\ x.type = "Durable"
                => \A i \in 1 .. Len(Append(f, x)) : Append(f, x)[i].type = "Durable"
           /\ (\A i \in 1 .. Len(f) : f[i].type # "Disconnected") /\ x.type = "Disconnected"
                => OnlyLast(Append(f, x), "Disconnected")
<1> DEFINE a == Append(f, x)
<1>1. /\ Len(f) \in Nat /\ Len(a) = Len(f) + 1 /\ a # <<>>
      /\ \A i \in 1 .. Len(f) : a[i] = f[i]
      /\ a[Len(f) + 1] = x
  BY AppendFacts
<1> HIDE DEF a
<1>2. \A i \in 1 .. Len(a) : \/ i \in 1 .. Len(f) /\ i # Len(a)
                             \/ i = Len(f) + 1 /\ i = Len(a)
  BY <1>1
<1>3. ASSUME NEW l, DurablesOn(f, l), x.type = "Durable" => AllOn(l, x.id + 1)
      PROVE  DurablesOn(a, l)
  BY <1>1, <1>2, <1>3 DEF DurablesOn
<1>4. (\A i \in 1 .. Len(f) : f[i].type = "Durable") /\ x.type = "Durable"
         => \A i \in 1 .. Len(a) : a[i].type = "Durable"
  BY <1>1, <1>2
<1>5. (\A i \in 1 .. Len(f) : f[i].type # "Disconnected") /\ x.type = "Disconnected"
         => OnlyLast(a, "Disconnected")
  BY <1>1, <1>2 DEF OnlyLast
<1> QED  BY <1>3, <1>4, <1>5 DEF a
-----------------------------------------------------------------------------
(* The writer's session.                                                   *)

\* A writer without a session.
LEMMA FreshSession ==
    ASSUME NEW s
    PROVE  /\ WriterIn(s).state = s /\ WriterIn(s).expected = NoId
           /\ WriterIn(s).upload = NoId /\ WriterIn(s).pending = <<>>
           /\ WriterIn(s).landed = 0
           /\ \A l : Session(WriterIn(s), l)
<1>1. /\ WriterIn(s).state = s /\ WriterIn(s).expected = NoId
      /\ WriterIn(s).upload = NoId /\ WriterIn(s).pending = <<>>
      /\ WriterIn(s).landed = 0
  BY DEF WriterIn
<1>2. Consecutive(<<>>)
  BY DEF Consecutive
<1> QED  BY <1>1, <1>2 DEF Session

\* Only a connected writer has anything in hand.
LEMMA IdleUnlessConnected ==
    ASSUME NEW w, NEW l, Session(w, l), w.state # "connected"
    PROVE  w.expected = NoId /\ w.upload = NoId /\ w.pending = <<>> /\ w.landed = 0
<1>1. w = WriterIn(w.state)
  BY DEF Session
<1> QED  BY <1>1, FreshSession

\* The next record continues what is submitted.
LEMMA PendingAppend ==
    ASSUME NEW p \in Seq(Ids), NEW id \in Ids, NEW l, NEW landed \in Nat, landed <= Len(p),
           Consecutive(p), p # <<>> => p[Len(p)] = id - 1 /\ AllOn(l, p[1] + landed),
           p = <<>> => AllOn(l, id)
    PROVE  LET s == Append(p, id)
           IN  /\ s # <<>> /\ Consecutive(s) /\ s[Len(s)] = id
               /\ AllOn(l, s[1] + landed)
<1> DEFINE s == Append(p, id)
<1>1. /\ Len(p) \in Nat /\ Len(s) = Len(p) + 1 /\ s # <<>>
      /\ \A i \in 1 .. Len(p) : s[i] = p[i]
      /\ s[Len(p) + 1] = id
  BY AppendFacts
<1>2. id \in Nat
  BY IdsAreNats
<1> HIDE DEF s
<1>3. CASE p = <<>>
  <2>1. Len(p) = 0 /\ landed = 0
    BY <1>3
  <2>2. Len(s) = 1 /\ s[1] = id
    BY <1>1, <2>1
  <2>3. Consecutive(s)
    BY <1>2, <2>2 DEF Consecutive
  <2>4. s[1] + landed = id
    BY <1>2, <2>1, <2>2
  <2> QED  BY <1>1, <1>3, <2>2, <2>3, <2>4 DEF s
<1>4. CASE p # <<>>
  <2>1. Len(p) >= 1 /\ 1 \in 1 .. Len(p) /\ Len(p) \in 1 .. Len(p)
    BY <1>1, <1>4, EmptySeq
  <2>2. p[1] \in Ids /\ s[1] = p[1]
    BY <1>1, <2>1
  <2>3. p[1] \in Nat
    BY <2>2, IdsAreNats
  <2>4. p[Len(p)] = p[1] + Len(p) - 1
    BY <2>1 DEF Consecutive
  <2>5. id = p[1] + Len(p)
    BY <1>1, <1>2, <1>4, <2>3, <2>4
  <2>6. ASSUME NEW i \in 1 .. Len(s) PROVE s[i] = s[1] + i - 1
    <3>1. CASE i \in 1 .. Len(p)
      BY <1>1, <2>2, <3>1 DEF Consecutive
    <3>2. CASE i = Len(p) + 1
      BY <1>1, <2>2, <2>3, <2>5, <3>2
    <3> QED  BY <1>1, <3>1, <3>2
  <2>7. Consecutive(s)
    BY <2>6 DEF Consecutive
  <2>8. AllOn(l, s[1] + landed)
    BY <1>4, <2>2
  <2> QED  BY <1>1, <2>7, <2>8 DEF s
<1> QED  BY <1>3, <1>4

\* The session, when it takes the next id: at once, or as an upload.
LEMMA SessionTakes ==
    ASSUME NEW w \in WriterType, w.landed <= Len(w.pending), NEW l, Session(w, l),
           NEW id \in Ids, w.state = "connected", w.upload = NoId,
           IF w.expected = NoId THEN AllOn(l, id) ELSE w.expected = id
    PROVE  /\ Session([w EXCEPT !.expected = id + 1, !.upload = id], l)
           /\ Session([w EXCEPT !.expected = id + 1, !.pending = Append(@, id)], l)
<1>1. /\ w.pending \in Seq(Ids) /\ w.landed \in Nat /\ w.expected \in Int
      /\ id \in Nat /\ id + 1 # NoId /\ id # NoId
  <2>1. w.expected \in (0 .. MaxId) \cup {NoId}
    BY DEF WriterType
  <2>2. id \in Nat /\ NoId = -1
    BY IdsAreNats
  <2> QED  BY <2>1, <2>2 DEF WriterType
<1>2. w.pending = <<>> => AllOn(l, id)
  BY DEF Session, Submitted
<1>3. w.pending # <<>> => /\ w.pending[Len(w.pending)] = id - 1
                          /\ AllOn(l, w.pending[1] + w.landed)
  BY DEF Session, Submitted
<1>4. Consecutive(w.pending)
  BY DEF Session
<1>5. Session([w EXCEPT !.expected = id + 1, !.upload = id], l)
  <2>1. PICK w2 : w2 = [w EXCEPT !.expected = id + 1, !.upload = id]
    OBVIOUS
  <2>2. /\ w2.state = "connected" /\ w2.expected = id + 1 /\ w2.upload = id
        /\ w2.pending = w.pending /\ w2.landed = w.landed
    BY <2>1 DEF WriterType
  <2>3. Submitted(w2) = id
    BY <1>1, <2>2 DEF Submitted
  <2>4. w2.upload = w2.expected - 1
    BY <1>1, <2>2
  <2>5. Session(w2, l)
    BY <1>1, <1>2, <1>3, <1>4, <2>2, <2>3, <2>4 DEF Session
  <2> QED  BY <2>1, <2>5
<1>6. Session([w EXCEPT !.expected = id + 1, !.pending = Append(@, id)], l)
  <2>1. PICK w2 : w2 = [w EXCEPT !.expected = id + 1, !.pending = Append(@, id)]
    OBVIOUS
  <2>2. /\ w2.state = "connected" /\ w2.expected = id + 1 /\ w2.upload = NoId
        /\ w2.pending = Append(w.pending, id) /\ w2.landed = w.landed
    BY <2>1 DEF WriterType
  <2>3. /\ w2.pending # <<>> /\ Consecutive(w2.pending)
        /\ w2.pending[Len(w2.pending)] = id /\ AllOn(l, w2.pending[1] + w2.landed)
    BY <1>1, <1>2, <1>3, <1>4, <2>2, PendingAppend
  <2>4. Submitted(w2) - 1 = id
    BY <1>1, <2>2 DEF Submitted
  <2>5. Session(w2, l)
    BY <1>1, <2>2, <2>3, <2>4 DEF Session
  <2> QED  BY <2>1, <2>5
<1> QED  BY <1>5, <1>6

\* What a session submitted but the log does not hold yet continues the log.
LEMMA UnlandedContinues ==
    ASSUME NEW w \in WriterType, w.landed <= Len(w.pending), NEW l, Session(w, l),
           NEW n \in Int, \A i \in 1 .. Len(w.pending) : w.pending[i] < n
    PROVE  LET u == SubSeq(w.pending, w.landed + 1, Len(w.pending))
           IN  Continues(u, l) /\ \A i \in 1 .. Len(u) : u[i] < n
<1> DEFINE p == w.pending
           u == SubSeq(p, w.landed + 1, Len(p))
<1>1. p \in Seq(Ids) /\ w.landed \in Nat /\ Len(p) \in Nat
  BY LenProperties DEF WriterType
<1>2. /\ Len(u) = Len(p) - w.landed
      /\ \A i \in 1 .. Len(p) - w.landed : u[i] = p[w.landed + i]
  <2>1. \A i \in w.landed + 1 .. Len(p) : p[i] \in Ids
    BY <1>1
  <2>2. w.landed + 1 \in Int /\ Len(p) \in Int
    BY <1>1
  <2>3. /\ Len(u) = IF w.landed + 1 <= Len(p) THEN Len(p) - (w.landed + 1) + 1 ELSE 0
        /\ \A i \in 1 .. Len(p) - (w.landed + 1) + 1 : u[i] = p[w.landed + 1 + i - 1]
    BY <2>1, <2>2, SubSeqProperties
  <2> HIDE DEF u
  <2>4. Len(p) - (w.landed + 1) + 1 = Len(p) - w.landed
    BY <1>1
  <2>5. \A i \in 1 .. Len(p) - w.landed : w.landed + 1 + i - 1 = w.landed + i
    BY <1>1
  <2>6. Len(u) = Len(p) - w.landed
    BY <1>1, <2>3
  <2> QED  BY <2>3, <2>4, <2>5, <2>6
<1>8. u \in Seq(Ids)
  <2>1. \A i \in w.landed + 1 .. Len(p) : p[i] \in Ids
    BY <1>1
  <2>2. w.landed + 1 \in Int /\ Len(p) \in Int
    BY <1>1
  <2> QED  BY <2>1, <2>2, SubSeqProperties
<1> HIDE DEF u
<1>3. \A i \in 1 .. Len(u) : w.landed + i \in 1 .. Len(p)
  BY <1>1, <1>2
<1>4. \A i \in 1 .. Len(u) : u[i] = p[1] + (w.landed + i) - 1
  BY <1>2, <1>3 DEF Session, Consecutive
<1>5. ASSUME u # <<>> PROVE p # <<>> /\ p[1] \in Nat /\ 1 \in 1 .. Len(u)
  <2>1. Len(u) > 0
    <3>1. Len(u) \in Nat /\ Len(u) # 0
      BY <1>5, <1>8, EmptySeq
    <3> QED  BY <3>1
  <2>2. Len(p) > 0 /\ p # <<>>
    BY <1>1, <1>2, <2>1
  <2> QED  BY <1>1, <2>1, <2>2, <1>2, IdsAreNats
<1>6. Continues(u, l)
  <2>1. CASE u = <<>>
    BY <2>1 DEF Continues, Consecutive
  <2>2. CASE u # <<>>
    <3>1. u[1] = p[1] + w.landed
      BY <1>1, <1>4, <1>5, <2>2
    <3>2. \A i \in 1 .. Len(u) : u[i] = u[1] + i - 1
      <4> SUFFICES ASSUME NEW i \in 1 .. Len(u) PROVE u[i] = u[1] + i - 1
        OBVIOUS
      <4>1. u[i] = p[1] + (w.landed + i) - 1 /\ p[1] \in Nat /\ w.landed \in Nat
        BY <1>1, <1>4, <1>5, <2>2
      <4>2. i \in Int
        BY <1>1, <1>2
      <4>3. \A a \in Nat, b \in Nat : a + (b + i) - 1 = a + b + i - 1
        BY <4>2
      <4> QED  BY <3>1, <4>1, <4>3
    <3>3. AllOn(l, u[1])
      BY <1>5, <2>2, <3>1 DEF Session
    <3> QED  BY <3>2, <3>3 DEF Continues, Consecutive
  <2> QED  BY <2>1, <2>2
<1>7. \A i \in 1 .. Len(u) : u[i] < n
  BY <1>2, <1>3
<1> QED  BY <1>6, <1>7 DEF u
-----------------------------------------------------------------------------
(* The chain of appends.                                                   *)

\* A session that was sent nothing stands where the log has no gap.
LEMMA IdleChain ==
    ASSUME NEW w, NEW t, NEW R, NEW l, NEW mid, NEW releasing \in BOOLEAN,
           w.expected = NoId, t = <<>>, Reads(R) = {}, releasing \/ AllOn(l, mid)
    PROVE  Chain(mid, w, releasing, t, R, l)
<1>1. Len(t) = 0
  OBVIOUS
<1>2. \A i \in 1 .. Len(t) : t[i].id = t[1].id + i - 1
  BY <1>1
<1>3. SentUpTo(mid, w, t, l) \/ releasing
  BY DEF SentUpTo
<1> QED  BY <1>2, <1>3 DEF Chain

\* A batch that starts where the session stands prolongs the chain.
LEMMA ChainAppends ==
    ASSUME NEW t \in Seq(WriterRequests), NEW f \in Ids, NEW l \in Ids, f <= l,
           NEW R, NEW R2, Reads(R2) = {}, NEW r \in Reads(R), r.first = f, r.last = l,
           NEW w, NEW lg, NEW mid \in Int, Chain(mid, w, FALSE, t, R, lg)
    PROVE  Chain(mid, w, FALSE, t \o Appends(f, l), R2, lg)
<1> DEFINE s == t \o Appends(f, l)
<1>1. /\ Len(t) \in Nat /\ Len(s) = Len(t) + (l - f + 1)
      /\ \A i \in 1 .. Len(t) : s[i] = t[i]
      /\ \A i \in Len(t) + 1 .. Len(s) : s[i] = AppendReq(f + (i - Len(t)) - 1)
  BY ConcatAppends
<1>2. f \in Nat /\ l \in Nat
  BY IdsAreNats
<1>3. l + 1 = mid /\ SentUpTo(f, w, t, lg)
  BY DEF Chain
<1>4. \A x : AppendReq(x).id = x
  BY DEF AppendReq
<1>5. \A i \in Len(t) + 1 .. Len(s) : s[i].id = f + (i - Len(t)) - 1
  BY <1>1, <1>4
<1>6. Len(s) \in Nat /\ Len(s) >= 1 /\ Len(s) \in Len(t) + 1 .. Len(s)
  BY <1>1, <1>2
<1> HIDE DEF s
<1>7. s # <<>>
  BY <1>6
<1>8. s[Len(s)].id = mid - 1
  BY <1>1, <1>2, <1>3, <1>5, <1>6
<1>9. CASE t = <<>>
  <2>1. Len(t) = 0
    BY <1>9
  <2>2. \A i \in 1 .. Len(s) : s[i].id = f + i - 1
    BY <1>2, <1>5, <1>6, <2>1
  <2>3. s[1].id = f /\ \A i \in 1 .. Len(s) : s[i].id = s[1].id + i - 1
    BY <1>2, <1>6, <2>2
  <2>4. IF w.expected = NoId THEN AllOn(lg, f) ELSE f = w.expected
    BY <1>3, <1>9 DEF SentUpTo
  <2> QED  BY <1>7, <1>8, <2>3, <2>4 DEF Chain, SentUpTo, s
<1>10. CASE t # <<>>
  <2>1. Len(t) >= 1 /\ t[Len(t)].id = f - 1
    BY <1>1, <1>3, <1>10, EmptySeq DEF SentUpTo
  <2>2. \A i \in 1 .. Len(t) : t[i].id = t[1].id + i - 1
    BY DEF Chain
  <2>3. t[1].id \in Int
    <3>1. t[1] \in WriterRequests
      BY <1>1, <2>1
    <3> QED  BY <3>1, MessageFields
  <2>4. t[1].id + Len(t) - 1 = f - 1
    BY <1>1, <2>1, <2>2
  <2>5. s[1] = t[1]
    BY <1>1, <2>1
  <2>6. \A i \in 1 .. Len(s) : s[i].id = t[1].id + i - 1
    <3> SUFFICES ASSUME NEW i \in 1 .. Len(s) PROVE s[i].id = t[1].id + i - 1
      OBVIOUS
    <3>1. CASE i \in 1 .. Len(t)
      BY <1>1, <2>2, <3>1
    <3>2. CASE i \in Len(t) + 1 .. Len(s)
      <4>1. s[i].id = f + (i - Len(t)) - 1
        BY <1>5, <3>2
      <4>2. Len(t) \in Int /\ i \in Int
        BY <1>1, <3>2, <1>6
      <4> QED  BY <1>2, <2>3, <2>4, <4>1, <4>2
    <3> QED  BY <1>1, <1>6, <3>1, <3>2
  <2>7. IF w.expected = NoId THEN AllOn(lg, t[1].id) ELSE t[1].id = w.expected
    BY <1>10 DEF Chain
  <2> QED  BY <1>7, <1>8, <2>5, <2>6, <2>7 DEF Chain, SentUpTo, s
<1> QED  BY <1>9, <1>10

\* The chain, when the writer takes its first append.
LEMMA ChainTaken ==
    ASSUME NEW t \in Seq(WriterRequests), t # <<>>, t[1].id \in Int, NEW mid \in Int,
           NEW w, NEW w2, NEW rel, NEW R, NEW l, Chain(mid, w, rel, t, R, l),
           \A r \in Reads(R) : r.first \in Int,
           w2.expected = t[1].id + 1, w2.expected # NoId
    PROVE  Chain(mid, w2, rel, Tail(t), R, l)
<1>1. /\ Len(t) \in Nat /\ Len(t) > 0 /\ Tail(t) \in Seq(WriterRequests)
      /\ Len(Tail(t)) = Len(t) - 1
      /\ \A i \in 1 .. Len(t) - 1 : Tail(t)[i] = t[i + 1]
      /\ Tail(t) = <<>> <=> Len(t) = 1
  BY TailFacts
<1>2. ~rel
  BY DEF Chain
<1>3. \A i \in 1 .. Len(t) : t[i].id = t[1].id + i - 1
  BY DEF Chain
<1>4. \A i \in 1 .. Len(t) - 1 : i + 1 \in 1 .. Len(t)
  BY <1>1
<1>5. \A i \in 1 .. Len(t) - 1 : Tail(t)[i].id = t[1].id + (i + 1) - 1
  BY <1>1, <1>3, <1>4
<1>6. Tail(t) # <<>> => Tail(t)[1].id = t[1].id + 1
  <2> SUFFICES ASSUME Tail(t) # <<>> PROVE Tail(t)[1].id = t[1].id + 1
    OBVIOUS
  <2>1. 1 \in 1 .. Len(t) - 1
    BY <1>1
  <2>2. Tail(t)[1].id = t[1].id + (1 + 1) - 1
    BY <1>5, <2>1
  <2> QED  BY <2>2
<1>7. \A i \in 1 .. Len(Tail(t)) : Tail(t)[i].id = Tail(t)[1].id + i - 1
  <2> SUFFICES ASSUME NEW i \in 1 .. Len(t) - 1 PROVE Tail(t)[i].id = Tail(t)[1].id + i - 1
    BY <1>1
  <2>1. Tail(t) # <<>>
    BY <1>1
  <2>2. Tail(t)[1].id = t[1].id + 1 /\ Tail(t)[i].id = t[1].id + (i + 1) - 1
    BY <1>5, <1>6, <2>1
  <2>3. \A a \in Int : a + (i + 1) - 1 = a + 1 + i - 1
    BY <1>1
  <2> QED  BY <2>2, <2>3
<1>8. ASSUME NEW next \in Int, SentUpTo(next, w, t, l) PROVE SentUpTo(next, w2, Tail(t), l)
  <2>1. t[Len(t)].id = next - 1
    BY <1>8 DEF SentUpTo
  <2>2. Tail(t) = <<>> => w2.expected = next
    BY <1>1, <2>1
  <2>3. Tail(t) # <<>> => Tail(t)[Len(Tail(t))].id = next - 1
    <3> SUFFICES ASSUME Tail(t) # <<>> PROVE Tail(t)[Len(Tail(t))].id = next - 1
      OBVIOUS
    <3>1. Len(t) - 1 \in 1 .. Len(t) - 1 /\ (Len(t) - 1) + 1 = Len(t)
      BY <1>1
    <3> QED  BY <1>1, <2>1, <3>1
  <2> QED  BY <2>2, <2>3 DEF SentUpTo
<1>9. (\A r \in Reads(R) : r.last < r.first) => SentUpTo(mid, w2, Tail(t), l)
  BY <1>2, <1>8 DEF Chain
<1>10. \A r \in Reads(R) : r.first <= r.last =>
          r.last + 1 = mid /\ SentUpTo(r.first, w2, Tail(t), l)
  BY <1>2, <1>8 DEF Chain
<1>11. Tail(t) # <<>> => IF w2.expected = NoId THEN AllOn(l, Tail(t)[1].id)
                                              ELSE Tail(t)[1].id = w2.expected
  BY <1>6
<1> QED  BY <1>2, <1>7, <1>9, <1>10, <1>11 DEF Chain

\* The chain sees of a session only the id it expects.
LEMMA ChainSameExpected ==
    ASSUME NEW mid, NEW w, NEW w2, NEW rel, NEW t, NEW R, NEW l,
           Chain(mid, w, rel, t, R, l), w2.expected = w.expected
    PROVE  Chain(mid, w2, rel, t, R, l)
BY DEF Chain, SentUpTo
-----------------------------------------------------------------------------
(* A daemon that has just started.                                         *)

\* What the parts say of a daemon that has just started.
LEMMA FreshStart ==
    /\ Requested(EngineAtStart, {}, {}) /\ Settled(EngineAtStart, {})
    /\ Link(WriterIn("connecting"), EngineAtStart.link, <<>>, <<>>)
    /\ EngineAtStart.link = "Reconnecting" /\ EngineAtStart.requests = <<>>
    /\ \A l : TrimsOn(<<>>, l) /\ DurablesOn(<<>>, l)
<1>1. /\ EngineAtStart.link = "Reconnecting" /\ EngineAtStart.requests = <<>>
      /\ ~EngineAtStart.readInFlight /\ ~EngineAtStart.releaseInFlight
      /\ ~EngineAtStart.releaseRequested /\ ~EngineAtStart.reconnectTimer
  BY DEF EngineAtStart
<1>2. Mailbox(<<>>) /\ \A type : ~HasRequest(<<>>, type)
  BY DEF Mailbox, HasRequest
<1>3. Reads({}) = {}
  BY DEF Reads
<1>4. Requested(EngineAtStart, {}, {}) /\ Settled(EngineAtStart, {})
  BY <1>1, <1>2, <1>3 DEF Requested, Settled
<1>5. Link(WriterIn("connecting"), EngineAtStart.link, <<>>, <<>>)
  BY <1>1, FreshSession DEF Link
<1>6. \A l : TrimsOn(<<>>, l) /\ DurablesOn(<<>>, l)
  BY DEF TrimsOn, DurablesOn
<1> QED  BY <1>1, <1>4, <1>5, <1>6
=============================================================================
