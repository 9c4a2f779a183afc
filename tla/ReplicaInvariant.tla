-------------------------- MODULE ReplicaInvariant --------------------------
(***************************************************************************)
(* The inductive invariant of Simulation: how the tables of a daemon hang  *)
(* together with the log and with its outbox.  A daemon knows a message    *)
(* when it applied it or wrote it itself; its stable tables are what the   *)
(* known messages add up to.  The operators take the log and the parts of  *)
(* a daemon's record as parameters, so that they can be used of both sides *)
(* of a step.                                                              *)
(***************************************************************************)
EXTENDS Simulation

IsSeq(q) == q \in Seq(Range(q))
-----------------------------------------------------------------------------
(* Shapes.                                                                 *)

IsDoc(doc) ==
    /\ doc = [ins |-> doc.ins, del |-> doc.del]
    /\ doc.ins = [i \in DOMAIN doc.ins |-> doc.ins[i]]

IsNamespace(ns) ==
    /\ ns = [objects |-> ns.objects, claims |-> ns.claims, removed |-> ns.removed]
    /\ IsFiniteSet(ns.claims)
    /\ \A c \in ns.claims : c.object # <<>>

IsTables(t) == t = [x \in {"ns", "tree", "docs"} |-> t[x]]

IsDaemon(s) ==
    /\ DOMAIN s = {"disk", "clock", "ids", "faults", "prior", "stable", "intents", "epoch",
                   "ignored", "outbox", "sent", "cursor", "tail", "scan", "mode", "clobber", "link"}
    /\ IsFiniteSet(DOMAIN s.disk)
    /\ IsTables(s.prior) /\ IsTables(s.stable)
    /\ DOMAIN s.epoch = {"todo", "done", "ns"}

\* A message of daemon d: a change of the namespace says something, and the
\* insertions of a document have ids of the daemon that captured them.
IsMessage(d, m) ==
    /\ m.origin = d
    /\ m.object = <<>> => /\ IsNamespace(m.update)
                          /\ m.update.claims # {} \/ m.update.removed # {}
    /\ m.object # <<>> => /\ IsDoc(m.update)
                          /\ \A id \in DOMAIN m.update.ins : id[1] = d
-----------------------------------------------------------------------------
(* The log l and an outbox q.                                              *)

LogOK(l) == IsSeq(l) /\ \A i \in DOMAIN l : IsMessage(l[i].origin, l[i])

OutboxOK(d, q) == IsSeq(q) /\ \A i \in DOMAIN q : IsMessage(d, q[i])

\* The messages that have reached the tables of daemon d with its cursor at c.
Known(l, d, q, c) ==
    {l[i] : i \in {i \in DOMAIN l : i <= c \/ l[i].origin = d}} \cup Range(q)
-----------------------------------------------------------------------------
(* The stable tables t.                                                    *)

TablesOK(t) ==
    /\ IsNamespace(t.ns)
    /\ t.tree = IF t.ns = EmptyNamespace THEN <<>> ELSE Materialize(t.ns)
    /\ t.docs = [o \in DOMAIN t.docs |-> t.docs[o]]
    /\ \A o \in DOMAIN t.docs : IsDoc(t.docs[o]) /\ o # <<>>

About(K, o) == {m \in K : m.object = o}

\* The tables are what the messages K add up to.
Reflects(K, t) ==
    /\ t.ns.objects = UNION {m.update.objects : m \in About(K, <<>>)}
    /\ t.ns.claims  = UNION {m.update.claims  : m \in About(K, <<>>)}
    /\ t.ns.removed = UNION {m.update.removed : m \in About(K, <<>>)}
    /\ \A m \in K : m.object # <<>> => m.object \in DOMAIN t.docs
    /\ \A o \in DOMAIN t.docs :
          /\ DOMAIN t.docs[o].ins = UNION {DOMAIN m.update.ins : m \in About(K, o)}
          /\ t.docs[o].del = UNION {m.update.del : m \in About(K, o)}

\* Message m inserts the operation id into object o.
Says(m, o, id) == m.object = o /\ id \in DOMAIN m.update.ins

Silent(messages, o, id) == \A i \in DOMAIN messages : ~Says(messages[i], o, id)

\* The first of the messages that inserts id gives it the word w.
FirstSays(messages, o, id, w) ==
    \E i \in DOMAIN messages :
        /\ Says(messages[i], o, id) /\ messages[i].update.ins[id] = w
        /\ \A j \in 1 .. i - 1 : ~Says(messages[j], o, id)

\* An operation has the word of the first message that inserts it, in the order
\* of the log: should an id be used twice, all daemons keep the same word.
WordsOK(l, q, t) ==
    \A o \in DOMAIN t.docs : \A id \in DOMAIN t.docs[o].ins :
        LET w == t.docs[o].ins[id]
        IN  FirstSays(l, o, id, w) \/ (Silent(l, o, id) /\ FirstSays(q, o, id, w))

StableOK(l, d, q, c, t) ==
    /\ OutboxOK(d, q)
    /\ c \in 0 .. Len(l)
    /\ TablesOK(t)
    /\ Reflects(Known(l, d, q, c), t)
    /\ WordsOK(l, q, t)
-----------------------------------------------------------------------------
(* The prior tables p and the projection epoch e.                          *)

NsWithin(a, b) == a.claims \subseteq b.claims /\ a.removed \subseteq b.removed
DocWithin(a, b) == DOMAIN a.ins \subseteq DOMAIN b.ins /\ a.del \subseteq b.del

\* prior is behind stable.
PriorOK(t, p) ==
    /\ IsFiniteSet(DOMAIN p.tree)
    /\ \A x \in DOMAIN p.tree :
          /\ DOMAIN p.tree[x] = {"object", "claim", "stat", "key", "gone"}
          /\ p.tree[x].object # <<>>
    /\ NsWithin(p.ns, t.ns)
    /\ \A o \in DOMAIN p.docs : DocWithin(p.docs[o], Lookup(t.docs, o))

\* A projected document is one that stable had when the epoch was planned.
ActionOK(t, a) ==
    /\ DOMAIN a = {"op", "path", "object", "claim", "doc", "before"}
    /\ a.op = "write" =>
          a.object # <<>> /\ DocWithin(a.doc, Lookup(t.docs, a.object))

\* So prior stays behind stable when the epoch commits.  An epoch under way has
\* an action left.
EpochOK(t, e) ==
    /\ e = NoEpoch \/ e.todo # <<>>
    /\ NsWithin(e.ns, t.ns)
    /\ IsSeq(e.todo) /\ \A i \in DOMAIN e.todo : ActionOK(t, e.todo[i])
    /\ IsSeq(e.done) /\ \A i \in DOMAIN e.done : ActionOK(t, e.done[i].action)
-----------------------------------------------------------------------------
\* What init has appended and not trimmed is on the log.
SentOK(l, mode, q, n) ==
    /\ n \in 0 .. Len(q) /\ (mode = "sync" => n = 0)
    /\ \A i \in 1 .. n : q[i] \in Range(l)

DaemonOK(l, d, s) ==
    /\ IsDaemon(s)
    /\ SentOK(l, s.mode, s.outbox, s.sent)
    /\ StableOK(l, d, s.outbox, s.cursor, s.stable)
    /\ PriorOK(s.stable, s.prior)
    /\ EpochOK(s.stable, s.epoch)

\* Where the controller is in its workload.
ScriptOK ==
    /\ work \in Scripts
    /\ daemon = [d \in DOMAIN Workload(work).start |-> daemon[d]]
    /\ part \in Nat \ {0}
    /\ pc \in [Daemons -> Nat]

\* The inductive invariant: the log is well formed and every daemon's tables are
\* what the messages it knows add up to, prior behind stable, each operation
\* with the word of its first message.
SharedInv == ScriptOK /\ LogOK(log) /\ \A d \in Daemons : DaemonOK(log, d, daemon[d])
=============================================================================
