-------------------------- MODULE OutboxInvariant --------------------------
(***************************************************************************)
(* The inductive invariant behind the delivery theorems of OutboxPipeline, *)
(* under the assumption PromptReads.  Each part says what one actor may    *)
(* rely on about the others.                                               *)
(***************************************************************************)
EXTENDS OutboxPipeline

\* All ids below n are in the log l.
AllOn(l, n) == \A id \in 0 .. n - 1 : id \in Range(l)

\* A run of successive ids.
Consecutive(s) == \A i \in 1 .. Len(s) : s[i] = s[1] + i - 1

\* The requests about the outbox in the mailbox q, the read replies in R.
HasRequest(q, type) == \E i \in 1 .. Len(q) : q[i].type = type

Reads(R) == {r \in R : r.type = "ReadOutbox"}
-----------------------------------------------------------------------------
\* Only ids below nextId travel.
BoundsInv ==
    /\ \A r \in Reads(replies) : r.last < nextId
    /\ \A i \in 1 .. Len(toWriter) : toWriter[i].id < nextId
    /\ writer.expected <= nextId
    /\ writer.upload < nextId
    /\ \A i \in 1 .. Len(writer.pending) : writer.pending[i] < nextId
    /\ \A k \in 1 .. Len(late) : \A i \in 1 .. Len(late[k]) : late[k][i] < nextId

\* An acknowledgement, and a trim, vouch for every id up to theirs.
TrimsOn(q, l) ==
    \A i \in 1 .. Len(q) : q[i].type = "TrimOutbox" => AllOn(l, q[i].through + 1)

DurablesOn(f, l) ==
    \A i \in 1 .. Len(f) : f[i].type = "Durable" => AllOn(l, f[i].id + 1)

AckInv == TrimsOn(engine.requests, log) /\ DurablesOn(fromWriter, log)

\* What a dead session left behind would continue the log without a gap.
Continues(s, l) == Consecutive(s) /\ (s # <<>> => AllOn(l, s[1]))

LateInv == \A k \in 1 .. Len(late) : Continues(late[k], log)

\* The id after the last one submitted in the session.
Submitted(w) == IF w.upload # NoId THEN w.upload ELSE w.expected

\* A session submits successive ids, starting where the log has no gap.
Session(w, l) ==
    /\ w.state # "connected" => w = WriterIn(w.state)
    /\ w.expected = NoId => w.upload = NoId /\ w.pending = <<>>
    /\ w.upload # NoId => w.upload = w.expected - 1
    /\ Consecutive(w.pending)
    /\ w.pending # <<>> => /\ w.pending[Len(w.pending)] = Submitted(w) - 1
                           /\ AllOn(l, w.pending[1] + w.landed)
    /\ w.pending = <<>> /\ w.expected # NoId => AllOn(l, Submitted(w))

SessionInv == Session(writer, log) /\ (~up => writer.state = "waiting")

\* Requests and replies about the outbox: one read and one release at a time,
\* no read behind a release, and nothing reserved once a release is over.
Mailbox(q) ==
    \A i, j \in 1 .. Len(q) : i < j =>
        /\ q[i].type \in {"ReadOutbox", "ReleaseOutbox"} => q[j].type # q[i].type
        /\ q[i].type = "ReleaseOutbox" => q[j].type # "ReadOutbox"

Requested(e, R, res) ==
    /\ Mailbox(e.requests)
    /\ e.reconnectTimer <=> e.link = "Offline"
    /\ e.releaseRequested => e.releaseInFlight
    /\ HasRequest(e.requests, "ReadOutbox") => e.readInFlight /\ Reads(R) = {}
    /\ Reads(R) # {} => e.readInFlight
    /\ \A r, q \in Reads(R) : r = q
    /\ HasRequest(e.requests, "ReleaseOutbox") => e.releaseInFlight /\ ReleaseReply \notin R
    /\ ReleaseReply \in R =>
          e.releaseInFlight /\ res = {} /\ ~HasRequest(e.requests, "ReadOutbox")
    /\ e.link = "Reconnecting" => ~e.readInFlight
    /\ e.link = "Online" /\ e.releaseInFlight => ~e.readInFlight

Settled(e, res) ==
    (e.link # "Online" /\ ~e.releaseInFlight)
        => res = {} /\ ~HasRequest(e.requests, "ReadOutbox")

RequestInv == Requested(engine, replies, reserved) /\ Settled(engine, reserved)

\* What the engine believes of the link against what the writer does.
AllAppends(t) == \A i \in 1 .. Len(t) : t[i].type = "Append"

OnlyLast(s, type) == s # <<>> /\ \A i \in 1 .. Len(s) : (s[i].type = type) <=> (i = Len(s))

Link(w, link, t, f) ==
    /\ w.state = "connecting" => link = "Reconnecting" /\ t = <<>> /\ f = <<>>
    /\ w.state = "connected" =>
          \/ link = "Reconnecting" /\ t = <<>> /\ f = <<Connected>> /\ w.expected = NoId
          \/ /\ link = "Online" /\ AllAppends(t)
             /\ \A i \in 1 .. Len(f) : f[i].type = "Durable"
    /\ w.state = "waiting" =>
          \/ /\ OnlyLast(f, "Disconnected")
             /\ \/ link = "Online" /\ AllAppends(t)
                \/ link = "Reconnecting" /\ t = <<>>
          \/ link = "Offline" /\ f = <<>> /\ AllAppends(t)
          \/ link = "Reconnecting" /\ f = <<>> /\ OnlyLast(t, "Reconnect")

LinkInv == Link(writer, engine.link, toWriter, fromWriter)

\* The engine is about to send the id after the last one the session was sent.
SentUpTo(next, w, t, l) ==
    /\ t # <<>> => t[Len(t)].id = next - 1
    /\ t = <<>> /\ w.expected # NoId => w.expected = next
    /\ t = <<>> /\ w.expected = NoId => AllOn(l, next)

\* In a session the engine knows of, the appends form one run of ids from the
\* log's end to the reservation frontier mid.
Chain(mid, w, releasing, t, R, l) ==
    /\ releasing => w.expected = NoId /\ t = <<>>
    /\ \A i \in 1 .. Len(t) : t[i].id = t[1].id + i - 1
    /\ t # <<>> => IF w.expected = NoId THEN AllOn(l, t[1].id)
                                        ELSE t[1].id = w.expected
    /\ ~releasing =>
          /\ (\A r \in Reads(R) : r.last < r.first) => SentUpTo(mid, w, t, l)
          /\ \A r \in Reads(R) : r.first <= r.last =>
                                    r.last + 1 = mid /\ SentUpTo(r.first, w, t, l)

ChainInv(mid) ==
    (up /\ writer.state = "connected" /\ engine.link = "Online") =>
        Chain(mid, writer, engine.releaseInFlight, toWriter, replies, log)

Table(lo, mid) == OutboxShape(lo, mid) /\ AllOn(log, lo) /\ ChainInv(mid)

TableInv == \E lo, mid \in 0 .. MaxId : Table(lo, mid)

\* The inductive invariant.
DeliveryInv ==
    /\ TypeOK
    /\ BoundsInv /\ AckInv /\ LateInv /\ SessionInv
    /\ up => RequestInv /\ LinkInv
    /\ TableInv
    /\ LogInOrder
=============================================================================
