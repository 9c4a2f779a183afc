----------------------------- MODULE Bootstrap -----------------------------
(***************************************************************************)
(* The one-shot engines that create a checkout: init shares the files of a *)
(* directory as a new workspace, clone writes an existing workspace into a *)
(* directory.  Each ends, with success or an error; a daemon started after *)
(* that syncs on the database the engine left behind.                      *)
(***************************************************************************)
EXTENDS Replicas

\* A process ends, or another one begins: the epoch is forgotten, and what was
\* appended but not trimmed.
Over(s, mode) == [s EXCEPT !.mode = mode, !.epoch = NoEpoch, !.sent = 0]

Fail(d, reason) == Becomes(d, Over(daemon[d], reason))

\* A process that starts in sync mode asks for a full scan.
Started(s) == [Over(s, "sync") EXCEPT !.scan = {Full}]
-----------------------------------------------------------------------------
(* init                                                                    *)

EmptyTables(s) ==
    /\ s.stable = [ns |-> EmptyNamespace, tree |-> <<>>, docs |-> <<>>]
    /\ s.prior = s.stable
    /\ s.outbox = <<>>

\* apply_init_scan and the import of every file; a file that changes during its
\* read is left for the first scan of the sync daemon.
InitImport(d) ==
    LET s == daemon[d]
    IN  /\ s.mode = "init"
        /\ IF EmptyTables(s)
           THEN Becomes(d, [ScanAndImport(d, s, Full) EXCEPT !.mode = "draining"])
           ELSE Fail(d, "refused")
        /\ UNCHANGED log

\* drain_outbox, in one batch: the messages are appended one by one, trimmed when
\* the last of them is durable, and the process ends when the outbox is empty.  A
\* lost connection ends it with any part of the batch on the log and all of it
\* still in the outbox.
InitAppend(d) ==
    LET s == daemon[d]
    IN  /\ s.mode = "draining" /\ s.link.send /\ s.sent < Len(s.outbox)
        /\ log' = Append(log, s.outbox[s.sent + 1])
        /\ Becomes(d, [s EXCEPT !.sent = @ + 1])

InitTrim(d) ==
    LET s == daemon[d]
    IN  /\ s.mode = "draining" /\ s.outbox # <<>> /\ s.sent = Len(s.outbox)
        /\ Becomes(d, [s EXCEPT !.outbox = <<>>, !.sent = 0])
        /\ UNCHANGED log

InitDrained(d) ==
    LET s == daemon[d]
    IN  /\ s.mode = "draining" /\ s.outbox = <<>>
        /\ Becomes(d, [s EXCEPT !.mode = "done"])
        /\ UNCHANGED log

InitDisconnected(d) ==
    /\ daemon[d].mode = "draining" /\ daemon[d].outbox # <<>> /\ ~daemon[d].link.send
    /\ Fail(d, "failed")
    /\ UNCHANGED log
-----------------------------------------------------------------------------
(* clone                                                                   *)

\* Without clobber the directory must be empty.  The tail of the log at the
\* start is how far the clone reads.
CloneStart(d) ==
    LET s == daemon[d]
    IN  /\ s.mode = "clone"
        /\ IF ~s.clobber /\ Observed(s, Full) # {} THEN Fail(d, "refused")
           ELSE IF ~s.link.recv THEN Fail(d, "failed")
           ELSE Becomes(d, [s EXCEPT !.mode = "pulling", !.tail = Len(log)])
        /\ UNCHANGED log

\* One record of a flush of the buffer, which may hold records behind the tail.
ClonePull(d) ==
    LET s == daemon[d]
    IN  /\ s.mode = "pulling" /\ s.link.recv
        /\ s.cursor < Len(log)
        /\ Becomes(d, ApplyNext(d, s))
        /\ UNCHANGED log

CloneDisconnected(d) ==
    /\ daemon[d].mode = "pulling" /\ daemon[d].cursor < daemon[d].tail
    /\ ~daemon[d].link.recv
    /\ Fail(d, "failed")
    /\ UNCHANGED log

\* Mutant: every clone overwrites.
UnguardedAlways(s) ==
    [s EXCEPT !.epoch.todo =
        [i \in DOMAIN @ |-> IF @[i].op = "write" THEN [@[i] EXCEPT !.before = Anything]
                            ELSE @[i]]]

\* unguard_write_action: with clobber a write replaces whatever is there.
Unguarded(s) ==
    IF ~s.clobber THEN s
    ELSE [s EXCEPT !.epoch.todo =
            [i \in DOMAIN @ |-> IF @[i].op = "write" THEN [@[i] EXCEPT !.before = Anything]
                                ELSE @[i]]]

ClonePlan(d) ==
    LET s == daemon[d]
    IN  /\ s.mode = "pulling" /\ s.cursor >= s.tail
        /\ IF Actions(s) = <<>> THEN Becomes(d, [s EXCEPT !.mode = "done"])
           ELSE Becomes(d, Unguarded([PlanProjection(s) EXCEPT !.mode = "projecting"]))
        /\ UNCHANGED log

\* Mutant: an invalidated epoch counts as the end of the plan.
CloneActIgnoresConflict(d) ==
    LET t == Perform(daemon[d])
    IN  /\ daemon[d].mode = "projecting" /\ daemon[d].epoch # NoEpoch
        /\ Becomes(d, IF t.epoch # NoEpoch THEN t ELSE [t EXCEPT !.mode = "done"])
        /\ UNCHANGED log

\* A write that does not succeed ends the clone; the last one commits the epoch.
CloneAct(d) ==
    LET s == daemon[d]
        t == Perform(s)
    IN  /\ s.mode = "projecting" /\ s.epoch # NoEpoch
        /\ IF t.epoch # NoEpoch THEN Becomes(d, t)
           ELSE IF t.prior = s.prior THEN Becomes(d, [t EXCEPT !.mode = "failed"])
           ELSE Becomes(d, [t EXCEPT !.mode = "done"])
        /\ UNCHANGED log

Bootstrapping(d) ==
    \/ InitImport(d) \/ InitAppend(d) \/ InitTrim(d) \/ InitDrained(d) \/ InitDisconnected(d)
    \/ CloneStart(d) \/ ClonePull(d) \/ CloneDisconnected(d) \/ ClonePlan(d) \/ CloneAct(d)
=============================================================================
