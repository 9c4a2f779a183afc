------------------------------ MODULE Replicas ------------------------------
(***************************************************************************)
(* Daemons that share one log: the directory each of them watches, its     *)
(* tables, and the semantic operations that move changes from directory to *)
(* log and back.  Where SyncCycle follows the actors of one daemon message *)
(* by message on a fixed set of objects, this module keeps a scan with its *)
(* import in one step and follows objects, claims, conflict paths, safe    *)
(* saves, renames, ignored files, projection epochs and several daemons.   *)
(*                                                                         *)
(* daemon[d] is a record; the operations are operators on such records:    *)
(*   disk     path -> file: text, kind (text, binary, huge), stat, key     *)
(*   faults   errors the file layer will report, each once                 *)
(*   prior    the accepted baseline: namespace, tree with tombstones, docs *)
(*   stable   the shared state: namespace, derived tree, documents         *)
(*   intents  the projection write-intent journal                          *)
(*   epoch    the projection epoch: actions to do and done, namespace      *)
(*   ignored  ignored_files                                                *)
(*   outbox   messages to send; sent, how many of them init has appended   *)
(*   cursor, scan (pending scope), mode, link, ids and clock               *)
(* Tombstones are younger than the reuse window of five minutes.           *)
(***************************************************************************)
EXTENDS Namespace, TextDoc

VARIABLES
    daemon, \* the daemons
    log     \* the shared log: messages with their origin

\* A ScanScope is the path of a single file, or Full.
Full == <<>>
InScope(p, scope) == scope \in {Full, p}

\* request_scan with coalesce_scan_scopes: pending is {} or {scope}.
Coalesce(pending, scope) == IF pending \subseteq {scope} THEN {scope} ELSE {Full}

Without(f, keys) == [x \in DOMAIN f \ keys |-> f[x]]

Lookup(docs, object) == IF object \in DOMAIN docs THEN docs[object] ELSE EmptyDoc

\* The temporary files of a guarded write; scans skip the first kind.
TempPath(p) == p \o <<-1>>
SwapPath(p) == p \o <<-2>>
HardIgnored(p) == p[Len(p)] = -1

NoEpoch == [todo |-> <<>>, done |-> <<>>, ns |-> EmptyNamespace]

\* A new database and a directory with the files given.  A new file has the
\* next number as its file key and its stat; a change in place, only as stat.
Fresh(mode, files) ==
    LET n(p) == Cardinality({q \in DOMAIN files : Less(q, p)}) + 1
    IN  [disk |-> [p \in DOMAIN files |->
                      [text |-> files[p], kind |-> "text", stat |-> n(p), key |-> n(p)]],
         clock |-> Cardinality(DOMAIN files), ids |-> 0, faults |-> {},
         prior |-> [ns |-> EmptyNamespace, tree |-> <<>>, docs |-> <<>>],
         stable |-> [ns |-> EmptyNamespace, tree |-> <<>>, docs |-> <<>>],
         intents |-> {}, epoch |-> NoEpoch, ignored |-> <<>>, outbox |-> <<>>,
         sent |-> 0, cursor |-> 0, tail |-> 0, scan |-> {Full}, mode |-> mode, clobber |-> FALSE,
         link |-> [send |-> TRUE, recv |-> TRUE]]
-----------------------------------------------------------------------------
(* The file layer (InMemoryFileIO).                                        *)

WriteFile(s, p, text, kind) ==
    [s EXCEPT !.clock = @ + 1,
              !.disk = Put(@, p, [text |-> text, kind |-> kind, stat |-> s.clock + 1,
                                  key |-> s.clock + 1])]

ReplaceFile(s, p, text, kind) ==
    IF p \notin DOMAIN s.disk THEN WriteFile(s, p, text, kind)
    ELSE [s EXCEPT !.clock = @ + 1,
                   !.disk[p] = [text |-> text, kind |-> kind, stat |-> s.clock + 1,
                                key |-> @.key]]

\* append_file and prepend_file
AddToFile(s, p, words) ==
    ReplaceFile(s, p, Plus(IF p \in DOMAIN s.disk THEN s.disk[p].text ELSE EmptyText, words),
                "text")

DeleteFile(s, p) == [s EXCEPT !.disk = Without(@, {p})]

RenameFile(s, p, q) == [s EXCEPT !.disk = Put(Without(@, {p}), q, s.disk[p])]

\* The faults of one kind on a path; take_fault removes the one it reports.
FaultsOn(s, kind, p) == {f \in s.faults : f.kind = kind /\ f.path = p}
Taken(s, fs) == [s EXCEPT !.faults = @ \ fs]
Replacement(fs) == (CHOOSE f \in fs : TRUE).text
-----------------------------------------------------------------------------
(* Scan and import.                                                        *)

LivePrior(s) == {p \in DOMAIN s.prior.tree : s.prior.tree[p].gone = 0}

NsMessage(d, update) == [origin |-> d, object |-> <<>>, update |-> update]
TextMessage(d, object, update) == [origin |-> d, object |-> object, update |-> update]

\* A local change of the namespace goes to prior, to stable (whose tree is
\* derived anew) and to the outbox.
LocalNamespaceUpdate(d, s, update) ==
    LET ns == Merge(s.stable.ns, update)
    IN  [s EXCEPT !.prior.ns = Merge(@, update),
                  !.stable.ns = ns, !.stable.tree = Materialize(ns),
                  !.outbox = Append(@, NsMessage(d, update))]

\* Mutant: the tombstones are written and the claims stay.
RemoveMissingKeepsClaims(d, s, paths) ==
    [s EXCEPT !.clock = @ + 1,
              !.prior.tree = [p \in DOMAIN @ |->
                  IF p \in paths THEN [@[p] EXCEPT !.gone = s.clock + 1] ELSE @[p]]]

\* apply_missing_prior_paths_as_local_deletes_tx
RemoveMissing(d, s, paths) ==
    IF paths = {} THEN s
    ELSE LET t == LocalNamespaceUpdate(d, s,
                      RemoveClaims({s.prior.tree[p].claim : p \in paths}))
         IN  [t EXCEPT !.clock = @ + 1,
                       !.prior.tree = [p \in DOMAIN @ |->
                           IF p \in paths THEN [@[p] EXCEPT !.gone = s.clock + 1] ELSE @[p]]]

Observed(s, scope) == {p \in DOMAIN s.disk : InScope(p, scope) /\ ~HardIgnored(p)}

\* An ignored file is looked at again when it changed; one that could not be
\* opened is tried at every scan, as permissions are not part of the stat.
StillIgnored(s, p) ==
    /\ p \in DOMAIN s.ignored
    /\ s.ignored[p].stat = s.disk[p].stat
    /\ s.ignored[p].reason # "PermissionDenied"

\* The paths apply_scan has to look at: changed ones, then new ones.
Changed(s, scope) ==
    {p \in Observed(s, scope) \cap LivePrior(s) : s.disk[p].stat # s.prior.tree[p].stat
                                                 /\ ~StillIgnored(s, p)}
New(s, scope) == {p \in Observed(s, scope) \ LivePrior(s) : ~StillIgnored(s, p)}

\* ... and those that are no longer there.
GonePrior(s, scope) == {p \in LivePrior(s) : InScope(p, scope)} \ Observed(s, scope)
GoneIgnored(s, scope) == {p \in DOMAIN s.ignored : InScope(p, scope)} \ Observed(s, scope)

Differences(s) == Changed(s, Full) \cup New(s, Full) \cup GonePrior(s, Full)
                  \cup GoneIgnored(s, Full)

TooLarge(s, paths) == {p \in paths : s.disk[p].kind = "huge"}

ReadsOf(s, scope) ==
    SortedPaths(Changed(s, scope) \ TooLarge(s, Changed(s, scope)))
    \o SortedPaths(New(s, scope) \ TooLarge(s, New(s, scope)))

Ignore(s, p, reason) ==
    [s EXCEPT !.ignored = Put(@, p, [stat |-> s.disk[p].stat, reason |-> reason])]

\* What apply_scan writes itself: files too large, ignored files that are gone,
\* and the local deletions.
AfterScan(d, s, scope) ==
    LET large == TooLarge(s, Changed(s, scope) \cup New(s, scope))
    IN  RemoveMissing(d,
            [s EXCEPT !.ignored =
                [p \in large \cup (DOMAIN @ \ GoneIgnored(s, scope)) |->
                    IF p \in large THEN [stat |-> s.disk[p].stat, reason |-> "TooLarge"]
                    ELSE @[p]]],
            GonePrior(s, scope))

PriorRow(object, claim, file) ==
    [object |-> object, claim |-> claim, stat |-> file.stat, key |-> file.key, gone |-> 0]

ForgetIntents(s, p) == [s EXCEPT !.intents = {i \in @ : i.path # p}]

\* Mutant: the journal is not consulted.
NoOwnWrites(s, p) == {}

\* select_applied_projection_write_intent, and the three conditions under which
\* realign_prior_from_write_intent_tx takes a file for the daemon's own write.
OwnWrites(s, p) ==
    {i \in s.intents :
        /\ i.path = p /\ i.text = s.disk[p].text /\ i.applied = s.disk[p].stat
        /\ p \in DOMAIN s.stable.tree /\ s.stable.tree[p].object = i.object
        /\ i.object \in DOMAIN s.stable.docs /\ s.stable.docs[i.object] = i.doc}

Realign(s, p) ==
    LET i == CHOOSE i \in OwnWrites(s, p) : TRUE
    IN  ForgetIntents(
            [s EXCEPT !.prior.docs = Put(@, i.object, i.doc),
                      !.prior.tree = Put(@, p, PriorRow(i.object, s.stable.tree[p].claim,
                                                        s.disk[p]))], p)

\* The recent tombstone a new file continues: one of its own path, else the
\* latest one with its file key.
Tombstones(s) == DOMAIN s.prior.tree \ LivePrior(s)

Reusable(s, p) ==
    LET tree   == s.prior.tree
        byKey  == {q \in Tombstones(s) : tree[q].key = s.disk[p].key}
        latest == {q \in byKey : \A r \in byKey : tree[r].gone <= tree[q].gone}
    IN  IF p \in Tombstones(s) THEN {p}
        ELSE {q \in latest : \A r \in latest \ {q} : Less(q, r)}

\* A row of import_staged_files.  New ids come from the daemon's counter.
StagedRow(kind, p, object, claim, doc, update, send) ==
    [kind |-> kind, path |-> p, object |-> object, claim |-> claim,
     doc |-> doc, update |-> update, send |-> send]

\* stage_existing_text_file: no capture and no message when the text is the same.
StageExisting(d, s, p, kind, row, claim) ==
    LET doc    == Lookup(s.prior.docs, row.object)
        update == Capture(d, doc, s.disk[p].text)
        same   == Text(doc) = s.disk[p].text
    IN  StagedRow(kind, p, row.object, claim, IF same THEN doc ELSE Apply(doc, update),
                  IF same THEN EmptyDoc ELSE update, ~same)

\* stage_new_text_file: the whole document is the update.
StageNew(d, s, p) ==
    LET doc == Capture(d, EmptyDoc, s.disk[p].text)
    IN  StagedRow("New", p, <<d, s.ids + 1>>, <<d, s.ids + 2>>, doc, doc, TRUE)

Stage(d, s, p) ==
    IF p \in LivePrior(s)
    THEN StageExisting(d, s, p, "Update", s.prior.tree[p], s.prior.tree[p].claim)
    ELSE IF Reusable(s, p) # {}
    THEN StageExisting(d, s, p, "Resurrect",
                       s.prior.tree[CHOOSE q \in Reusable(s, p) : TRUE], <<d, s.ids + 2>>)
    ELSE StageNew(d, s, p)

\* One import action: the guarded read and commit_import_action.  work carries
\* the daemon, the staged rows and whether a read saw the file change.
ReadOne(d, work, p) ==
    LET s       == work.s
        denied  == FaultsOn(s, "denied", p)
        racing  == FaultsOn(s, "changed", p)
        staged  == [s EXCEPT !.ignored = Without(@, {p}), !.ids = @ + 2]
    IN  IF denied # {}
        THEN [work EXCEPT !.s = Ignore(Taken(s, denied), p, "PermissionDenied")]
        ELSE IF racing # {}
        THEN [work EXCEPT !.s = ReplaceFile(Taken(s, racing), p, Replacement(racing), "text"),
                          !.rescan = TRUE]
        ELSE IF s.disk[p].kind = "binary"
        THEN [work EXCEPT !.s = Ignore(s, p, "NonUtf8")]
        ELSE IF OwnWrites(s, p) # {} /\ s.mode = "sync"
        THEN [work EXCEPT !.s = Realign([s EXCEPT !.ignored = Without(@, {p})], p)]
        ELSE [work EXCEPT !.s = staged,
                          !.rows = Append(@, IF s.mode = "sync" THEN Stage(d, s, p)
                                             ELSE StageNew(d, s, p))]

ReadAll(d, work, paths) == FoldLeft(LAMBDA w, p : ReadOne(d, w, p), work, paths)

\* The namespace update of an import epoch.
StagedNamespace(rows) ==
    [objects |-> {rows[i].object : i \in {i \in DOMAIN rows : rows[i].kind = "New"}},
     claims  |-> {Claim(rows[i].claim, rows[i].object, rows[i].path) :
                     i \in {i \in DOMAIN rows : rows[i].kind # "Update"}},
     removed |-> {}]

\* Mutant: the captured operations do not reach the stable document.
CommitRowPriorOnly(d, s, row) ==
    [s EXCEPT !.prior.docs  = Put(@, row.object, row.doc),
              !.prior.tree  = Put(@, row.path, PriorRow(row.object, row.claim,
                                                        s.disk[row.path])),
              !.outbox = IF row.send THEN Append(@, TextMessage(d, row.object, row.update))
                         ELSE @]

\* The rows go to the tables one by one and their messages to the outbox in the
\* same order, behind that of the namespace.
CommitRow(d, s, row) ==
    [s EXCEPT !.stable.docs = Put(@, row.object, Apply(Lookup(@, row.object), row.update)),
              !.prior.docs  = Put(@, row.object, row.doc),
              !.prior.tree  = Put(@, row.path, PriorRow(row.object, row.claim,
                                                        s.disk[row.path])),
              !.outbox = IF row.send THEN Append(@, TextMessage(d, row.object, row.update))
                         ELSE @]

CommitRows(d, s, rows) == FoldLeft(LAMBDA t, row : CommitRow(d, t, row), s, rows)

\* commit_sync_import_epoch_tx and commit_init_import_epoch_tx
CommitImport(d, s, rows) ==
    LET named == IF StagedNamespace(rows).claims = {} THEN s
                 ELSE LocalNamespaceUpdate(d, s, StagedNamespace(rows))
    IN  CommitRows(d, named, rows)

\* A scan of the scope with the import it leads to.
ScanAndImport(d, s, scope) ==
    LET start == [s |-> AfterScan(d, [s EXCEPT !.scan = {}], scope), rows |-> <<>>,
                  rescan |-> FALSE]
        work  == ReadAll(d, start, ReadsOf(s, scope))
        done  == CommitImport(d, work.s, work.rows)
    IN  IF work.rescan THEN [done EXCEPT !.scan = {Full}] ELSE done
-----------------------------------------------------------------------------
(* Projection.                                                             *)

Missing  == 0   \* expected_before: no file,
Anything == -1  \* whatever is there, or the stat of the file

\* Mutant: documents are not compared.
UpToDateByObject(s, p) ==
    p \in LivePrior(s) /\ s.prior.tree[p].object = s.stable.tree[p].object

\* The stable row at p needs no write.
UpToDate(s, p) ==
    /\ p \in LivePrior(s)
    /\ s.prior.tree[p].object = s.stable.tree[p].object
    /\ Lookup(s.prior.docs, s.prior.tree[p].object)
         = Lookup(s.stable.docs, s.stable.tree[p].object)

Write(s, p) ==
    LET row == s.stable.tree[p]
    IN  [op |-> "write", path |-> p, object |-> row.object, claim |-> row.claim,
         doc |-> Lookup(s.stable.docs, row.object),
         before |-> IF p \in LivePrior(s) THEN s.prior.tree[p].stat ELSE Missing]

Delete(s, p) ==
    [op |-> "delete", path |-> p, object |-> s.prior.tree[p].object,
     claim |-> s.prior.tree[p].claim, doc |-> EmptyDoc, before |-> s.prior.tree[p].stat]

\* upsert_projection_write_intent: the key is path and text; a mark that an
\* earlier write of that text was applied stays.
UpsertIntent(intents, a) ==
    LET old == {i \in intents : i.path = a.path /\ i.text = Text(a.doc)}
    IN  (intents \ old)
        \cup {[path |-> a.path, text |-> Text(a.doc), object |-> a.object, doc |-> a.doc,
               applied |-> IF old = {} THEN 0 ELSE (CHOOSE i \in old : TRUE).applied]}

\* get_next_work_tx: the writes, in path order, then the deletions.
Actions(s) ==
    LET writes  == SortedPaths({p \in DOMAIN s.stable.tree : ~UpToDate(s, p)})
        deletes == SortedPaths(LivePrior(s) \ DOMAIN s.stable.tree)
    IN  [i \in DOMAIN writes |-> Write(s, writes[i])]
        \o [i \in DOMAIN deletes |-> Delete(s, deletes[i])]

UpsertIntents(intents, actions) ==
    FoldLeft(UpsertIntent, intents, SelectSeq(actions, LAMBDA a : a.op = "write"))

PlanProjection(s) ==
    LET actions == Actions(s)
    IN  [s EXCEPT !.intents = UpsertIntents(@, actions),
                  !.epoch = [todo |-> actions, done |-> <<>>, ns |-> s.stable.ns]]

\* Mutant: the projected document is not recorded.
CommitActionKeepsDoc(s, done) ==
    LET a == done.action
    IN  ForgetIntents(
            IF a.op = "write"
            THEN [s EXCEPT !.prior.tree = Put(@, a.path, PriorRow(a.object, a.claim, done.file))]
            ELSE [s EXCEPT !.clock = @ + 1, !.prior.tree[a.path].gone = s.clock + 1],
            a.path)

\* commit_projection_epoch_tx for a plan that was carried out to its end.
CommitAction(s, done) ==
    LET a == done.action
    IN  ForgetIntents(
            IF a.op = "write"
            THEN [s EXCEPT !.prior.docs = Put(@, a.object, a.doc),
                           !.prior.tree = Put(@, a.path, PriorRow(a.object, a.claim, done.file))]
            ELSE [s EXCEPT !.clock = @ + 1, !.prior.tree[a.path].gone = s.clock + 1],
            a.path)

CommitActions(s, done) == FoldLeft(CommitAction, s, done)

CommitEpoch(s) ==
    CommitActions([s EXCEPT !.prior.ns = s.epoch.ns, !.epoch = NoEpoch], s.epoch.done)

\* The action was carried out on the file given: the intent is marked, and the
\* last action of a plan ends the epoch.
Succeed(s, a, file) ==
    LET marked == {IF i.path = a.path /\ a.op = "write" /\ i.text = Text(a.doc)
                   THEN [i EXCEPT !.applied = file.stat] ELSE i : i \in s.intents}
        t == [s EXCEPT !.intents = marked,
                       !.epoch.todo = Tail(@),
                       !.epoch.done = Append(@, [action |-> a, file |-> file])]
    IN  IF t.epoch.todo = <<>> THEN CommitEpoch(t) ELSE t

\* A conflict or an error: the epoch is dropped, prior stays as it is, a full
\* scan is requested and a left-over swap file is removed.
Invalidate(s, a) ==
    [s EXCEPT !.epoch = NoEpoch, !.scan = Coalesce(@, Full),
              !.disk = Without(@, {SwapPath(a.path)})]

\* Mutant: expected_before is not compared with the file.
GuardAlwaysHolds(s, a) == a.op = "write" \/ a.path \in DOMAIN s.disk

GuardHolds(s, a) ==
    \/ a.before = Anything
    \/ a.before = Missing /\ a.path \notin DOMAIN s.disk
    \/ a.path \in DOMAIN s.disk /\ s.disk[a.path].stat = a.before

\* guarded_write, with the errors that can be injected before and after it.
GuardedWrite(s, a) ==
    LET p       == a.path
        leak    == FaultsOn(s, "leak", p)
        before  == FaultsOn(s, "before_swap", p)
        after   == FaultsOn(s, "after_swap", p)
        applied == p \in DOMAIN s.disk /\ s.disk[p].kind = "text" /\ s.disk[p].text = Text(a.doc)
        written == IF applied THEN s ELSE WriteFile(s, p, Text(a.doc), "text")
    IN  IF leak # {}
        THEN Invalidate(WriteFile(Taken(s, leak), TempPath(p), Replacement(leak), "text"), a)
        ELSE IF before # {}
        THEN Invalidate(ReplaceFile(Taken(s, before), p, Replacement(before), "text"), a)
        ELSE IF ~applied /\ ~GuardHolds(s, a) THEN Invalidate(s, a)
        ELSE IF after # {}
        THEN Invalidate(ReplaceFile(Taken(written, after), p, Replacement(after), "text"), a)
        ELSE Succeed(written, a, written.disk[p])

GuardedDelete(s, a) ==
    IF GuardHolds(s, a)
    THEN Succeed(DeleteFile(s, a.path), a, s.disk[a.path])
    ELSE Invalidate(s, a)

Perform(s) ==
    LET a == Head(s.epoch.todo)
    IN  IF a.op = "write" THEN GuardedWrite(s, a) ELSE GuardedDelete(s, a)
-----------------------------------------------------------------------------
(* The log.                                                                *)

\* Mutant: an incoming document replaces the one that is there.
ApplyMessageReplaces(d, s, m) ==
    IF m.origin = d THEN s
    ELSE IF m.object # <<>>
    THEN [s EXCEPT !.stable.docs = Put(@, m.object, m.update)]
    ELSE LET ns == Merge(s.stable.ns, m.update)
         IN  [s EXCEPT !.stable.ns = ns, !.stable.tree = Materialize(ns)]

\* apply_shared_message_batch_tx on one record: what a daemon sent itself is
\* skipped; the tree is derived again when the namespace changed.  A batch is its
\* records one by one, and every step that could come between is possible here.
ApplyMessage(d, s, m) ==
    IF m.origin = d THEN s
    ELSE IF m.object # <<>>
    THEN [s EXCEPT !.stable.docs = Put(@, m.object, Apply(Lookup(@, m.object), m.update))]
    ELSE LET ns == Merge(s.stable.ns, m.update)
         IN  [s EXCEPT !.stable.ns = ns, !.stable.tree = Materialize(ns)]

ApplyNext(d, s) == [ApplyMessage(d, s, log[s.cursor + 1]) EXCEPT !.cursor = @ + 1]
-----------------------------------------------------------------------------
(* The steps of a syncing daemon.                                          *)

Daemons == DOMAIN daemon

Becomes(d, s) == daemon' = [daemon EXCEPT ![d] = s]

\* Scans start at a boundary between epochs: a pending one, or a periodic full
\* scan, which is only a step when there is something to find.
Import(d) ==
    LET s == daemon[d]
    IN  /\ s.mode = "sync" /\ s.epoch = NoEpoch
        /\ s.scan # {} \/ Differences(s) # {}
        /\ Becomes(d, ScanAndImport(d, s, IF s.scan = {} THEN Full
                                          ELSE CHOOSE x \in s.scan : TRUE))
        /\ UNCHANGED log

\* GetNextWork at a boundary without a pending scan.
Plan(d) ==
    LET s == daemon[d]
    IN  /\ s.mode = "sync" /\ s.epoch = NoEpoch /\ s.scan = {}
        /\ Actions(s) # <<>>
        /\ Becomes(d, PlanProjection(s))
        /\ UNCHANGED log

Act(d) ==
    LET s == daemon[d]
    IN  /\ s.mode = "sync" /\ s.epoch # NoEpoch
        /\ Becomes(d, Perform(s))
        /\ UNCHANGED log

\* The writer appends the next message, and its row is trimmed (OutboxPipeline has
\* the details: acknowledgements, and copies after one that was lost).
Publish(d) ==
    LET s == daemon[d]
    IN  /\ s.mode = "sync" /\ s.link.send
        /\ s.outbox # <<>>
        /\ log' = Append(log, Head(s.outbox))
        /\ Becomes(d, [s EXCEPT !.outbox = Tail(@)])

\* The reader hands over the next record (LogIngest has the details).
Ingest(d) ==
    LET s == daemon[d]
    IN  /\ s.mode = "sync" /\ s.link.recv
        /\ s.cursor < Len(log)
        /\ Becomes(d, ApplyNext(d, s))
        /\ UNCHANGED log
=============================================================================
