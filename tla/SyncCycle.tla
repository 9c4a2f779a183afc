----------------------------- MODULE SyncCycle -----------------------------
(***************************************************************************)
(* The scan / import / project cycle that keeps a directory and the stable *)
(* state in step: the engine's phase machine, the semantic actor with its  *)
(* epochs and the projection write-intent journal, and the guarded         *)
(* operations of the filesystem actor, against a user who edits the files, *)
(* remote edits arriving from the log, filesystem errors and crashes.      *)
(*                                                                         *)
(* A text is a bag of words, and every edit inserts a word of its own.  A  *)
(* CRDT document is the set of its operations: <<w, c, "ins">> inserts the *)
(* word w and <<w, c, "del">> removes that insertion again.  c is 0 for an *)
(* insertion by a remote daemon and the clock of one by this daemon.  Every*)
(* path has one object: a path that reappears is matched with its recent   *)
(* tombstone, and no path is created on two daemons at once (conflict paths*)
(* belong to the namespace).                                               *)
(***************************************************************************)
EXTENDS Integers, Sequences, FiniteSets

CONSTANTS
    NumPaths,   \* paths 1 .. NumPaths; all but the first start unborn
    MaxEdits,   \* bound: words typed by the user or arriving from the log
    MaxHints,   \* bound: scans asked for by the watcher or a command
    MaxDeletes, \* bound: deletions by the user or from the log
    MaxFaults,  \* bound: crashes and filesystem errors
    QuietSwap   \* TRUE: the user does not touch a file between the guard of a
                \* write or delete and its effect

ASSUME CycleConstants ==
    /\ NumPaths \in Nat \ {0}
    /\ MaxEdits \in Nat /\ MaxHints \in Nat /\ MaxDeletes \in Nat /\ MaxFaults \in Nat
    /\ QuietSwap \in BOOLEAN

Paths  == 1 .. NumPaths
Words  == 1 .. MaxEdits

VARIABLES
    up,      \* the daemon process is running
    disk,    \* the files: present or not, text, and stat (new with every change)
    stable,  \* stable_tree and stable_text_objects
    prior,   \* prior_tree and prior_text_objects
    intents, \* projection_write_intents, with their applied stat (0: none)
    staged,  \* import_staged_files of the current epoch
    epoch,   \* SemanticRuntimeState: the active import or projection epoch
    engine,  \* the engine's phase and its requests to the semantic actor
    fs,      \* the filesystem request in flight and its result
    reply,   \* the semantic replies the engine has not polled
    changed, \* a ProjectionChanged event is on its way to the engine
    user,    \* the words typed into each path, and those of files removed there
    count    \* edits, hints, deletes and faults so far

vars == <<up, disk, stable, prior, intents, staged, epoch, engine, fs, reply,
          changed, user, count>>

dbVars   == <<stable, prior, intents, staged>>
userVars == <<disk, user>>

NoWords == [w \in Words |-> 0]

\* The insertions of a word, and those that are not removed.
Inserted(doc, w) == {op[2] : op \in {o \in doc : o[1] = w /\ o[3] = "ins"}}
Visible(doc, w)  == {c \in Inserted(doc, w) : <<w, c, "del">> \notin doc}

\* The text of a document: how often each word is inserted and not removed.
Text(doc) == [w \in Words |-> Cardinality(Visible(doc, w))]

\* The clocks this daemon has used for a word, and those of the next k insertions:
\* they follow the ones of doc, and only of doc.
Copies(doc, w) == Cardinality(Inserted(doc, w) \ {0})
NextClocks(doc, w, k) == Copies(doc, w) + 1 .. Copies(doc, w) + k

\* The insertions of a word that stay when its file holds n copies of it (the user
\* adds words or starts a file anew, so no edit replaces a text that it keeps part of).
Kept(doc, w, n) ==
    CHOOSE C \in SUBSET Visible(doc, w) :
        Cardinality(C) = IF n < Text(doc)[w] THEN n ELSE Text(doc)[w]

\* capture_text_change: the operations that turn doc into text.
Capture(doc, text) ==
    UNION {{<<w, c, "ins">> : c \in NextClocks(doc, w, text[w] - Text(doc)[w])}
           \cup {<<w, c, "del">> : c \in Visible(doc, w) \ Kept(doc, w, text[w])} :
              w \in Words}
-----------------------------------------------------------------------------
NoFs == [op |-> "none", stage |-> "asked", path |-> 0, todo |-> {}, scope |-> {},
         stat |-> 0, text |-> NoWords, seen |-> [p \in Paths |-> 0], ok |-> TRUE]

\* An epoch's plan: the paths it acts on, the stat each must still have (0: no
\* file), the documents to write; and the results: done, and the stats written.
NoEpoch == [kind |-> "none", expected |-> {}, deletes |-> {}, done |-> {},
            target |-> [p \in Paths |-> {}], stat |-> [p \in Paths |-> 0],
            result |-> [p \in Paths |-> 0]]

NoRow == [kind |-> "none", doc |-> {}, update |-> {}, stat |-> 0]

\* A request of the engine to the semantic actor, and a reply that carries the
\* paths to read, to write and to delete (empty for NextWork::None).
Request(type, p, text, stat, ok) ==
    [type |-> type, path |-> p, text |-> text, stat |-> stat, ok |-> ok,
     scope |-> {}, seen |-> [q \in Paths |-> 0]]

Reply(type, reads, writes, deletes) ==
    [type |-> type, reads |-> reads, writes |-> writes, deletes |-> deletes]

\* FsRequest::Scan: fs.todo are the paths still to be looked at.
ScanOf(scope) == [NoFs EXCEPT !.op = "scan", !.todo = scope, !.scope = scope]

\* run() asks for a full scan, which an idle engine starts at once.
EngineAtStart ==
    [phase |-> "Scanning", dirty |-> FALSE, pending |-> {}, reads |-> {},
     writes |-> {}, deletes |-> {}, requests |-> <<>>]

Init ==
    /\ up = TRUE
    /\ disk   = [p \in Paths |-> [live |-> p = 1, stat |-> 1, text |-> NoWords]]
    /\ stable = [p \in Paths |-> [live |-> p = 1, born |-> p = 1, doc |-> {}]]
    /\ prior  = [p \in Paths |-> [live |-> p = 1, doc |-> {}, stat |-> 1]]
    /\ intents = [p \in Paths |-> {}]
    /\ staged = [p \in Paths |-> NoRow]
    /\ epoch = NoEpoch
    /\ engine = EngineAtStart
    /\ fs = ScanOf(Paths)
    /\ reply = {}
    /\ changed = FALSE
    /\ user = [p \in Paths |-> [typed |-> {}, gone |-> {}]]
    /\ count = [edits |-> 0, hints |-> 0, deletes |-> 0, faults |-> 0]
-----------------------------------------------------------------------------
(* The user.                                                               *)

\* Under QuietSwap the user keeps off a file whose guard has been checked.
MayTouch(p) == QuietSwap => ~(fs.path = p /\ fs.stage = "checked")

Touch(p, live, text) ==
    disk' = [disk EXCEPT ![p] = [live |-> live, stat |-> @.stat + 1, text |-> text]]

NextWord == count.edits + 1

WordsOnDisk(p) == {w \in Words : disk[p].text[w] > 0}

UserEdit(p) ==
    /\ MayTouch(p)
    /\ count.edits < MaxEdits
    /\ disk[p].live
    /\ Touch(p, TRUE, [disk[p].text EXCEPT ![NextWord] = @ + 1])
    /\ user' = [user EXCEPT ![p].typed = @ \cup {NextWord}]
    /\ count' = [count EXCEPT !.edits = @ + 1]
    /\ UNCHANGED <<up, dbVars, epoch, engine, fs, reply, changed>>

UserCreate(p) ==
    /\ MayTouch(p)
    /\ count.edits < MaxEdits
    /\ ~disk[p].live
    /\ stable[p].live => prior[p].live
    /\ Touch(p, TRUE, [NoWords EXCEPT ![NextWord] = 1])
    /\ user' = [user EXCEPT ![p].typed = {NextWord}]
    /\ count' = [count EXCEPT !.edits = @ + 1]
    /\ UNCHANGED <<up, dbVars, epoch, engine, fs, reply, changed>>

UserDelete(p) ==
    /\ MayTouch(p)
    /\ count.deletes < MaxDeletes
    /\ disk[p].live
    /\ Touch(p, FALSE, NoWords)
    /\ user' = [user EXCEPT ![p] = [typed |-> {},
                                    gone |-> @.gone \cup WordsOnDisk(p)]]
    /\ count' = [count EXCEPT !.deletes = @ + 1]
    /\ UNCHANGED <<up, dbVars, epoch, engine, fs, reply, changed>>
-----------------------------------------------------------------------------
(* The semantic actor applies a batch from the log: stable state changes   *)
(* and ProjectionChanged is emitted.                                       *)

RemoteEdit(p) ==
    /\ up
    /\ count.edits < MaxEdits
    /\ stable[p].live
    /\ stable' = [stable EXCEPT ![p].doc = @ \cup {<<NextWord, 0, "ins">>}]
    /\ changed' = TRUE
    /\ count' = [count EXCEPT !.edits = @ + 1]
    /\ UNCHANGED <<up, userVars, prior, intents, staged, epoch, engine, fs, reply>>

RemoteCreate(p) ==
    /\ up
    /\ count.edits < MaxEdits
    /\ ~stable[p].born
    /\ ~disk[p].live
    /\ stable' = [stable EXCEPT ![p] = [live |-> TRUE, born |-> TRUE,
                                        doc |-> {<<NextWord, 0, "ins">>}]]
    /\ changed' = TRUE
    /\ count' = [count EXCEPT !.edits = @ + 1]
    /\ UNCHANGED <<up, userVars, prior, intents, staged, epoch, engine, fs, reply>>

RemoteDelete(p) ==
    /\ up
    /\ count.deletes < MaxDeletes
    /\ stable[p].live
    /\ stable' = [stable EXCEPT ![p].live = FALSE]
    /\ changed' = TRUE
    /\ count' = [count EXCEPT !.deletes = @ + 1]
    /\ UNCHANGED <<up, userVars, prior, intents, staged, epoch, engine, fs, reply>>
-----------------------------------------------------------------------------
(* The engine.  A step is a function of the pair of its record and the     *)
(* filesystem request it has in flight.                                    *)

Send(e, request) == [e EXCEPT !.requests = Append(@, request)]

\* Pending scan evidence wins over asking for next work.
EnterBoundary(e) ==
    IF e.pending # {}
    THEN <<[e EXCEPT !.phase = "Scanning", !.pending = {}], ScanOf(e.pending)>>
    ELSE <<[Send(e, Request("GetNextWork", 0, NoWords, 0, TRUE)) EXCEPT
               !.phase = "AwaitingNextWork", !.dirty = FALSE], NoFs>>

\* coalesce_scan_scopes: two different scopes make a full one.
Coalesced(e, scope) ==
    [e EXCEPT !.pending = IF @ \in {{}, scope} THEN scope ELSE Paths]

RequestScan(e, f, scope) ==
    IF e.phase = "Idle" THEN EnterBoundary(Coalesced(e, scope))
                        ELSE <<Coalesced(e, scope), f>>

\* The next action of an epoch, in the order of the plan.
LeastOf(S) == CHOOSE p \in S : \A q \in S : p <= q

\* drive_phase: with no filesystem work in flight, dispatch the next action of
\* the plan, or ask for the epoch to be committed.  ef is <<engine, fs>>.
DrivePhase(ef) ==
    LET e == ef[1]
        commit(type, ok, phase) ==
            <<[Send(e, Request(type, 0, NoWords, 0, ok)) EXCEPT !.phase = phase], NoFs>>
        start(op, p, rest) ==
            <<rest,
              [NoFs EXCEPT !.op = op, !.path = p,
                           !.stat = epoch.stat[p],
                           !.text = IF op = "write" THEN Text(epoch.target[p])
                                                    ELSE NoWords]>>
    IN  IF ef[2].op # "none" THEN ef
        ELSE CASE e.phase = "Importing" ->
                     IF e.reads # {}
                     THEN start("read", LeastOf(e.reads),
                                [e EXCEPT !.reads = @ \ {LeastOf(@)}])
                     ELSE commit("CommitImportEpoch", TRUE, "ImportCommitting")
               [] e.phase = "Projecting" ->
                     IF e.writes # {}
                     THEN start("write", LeastOf(e.writes),
                                [e EXCEPT !.writes = @ \ {LeastOf(@)}])
                     ELSE IF e.deletes # {}
                     THEN start("delete", LeastOf(e.deletes),
                                [e EXCEPT !.deletes = @ \ {LeastOf(@)}])
                     ELSE commit("CommitProjectionEpoch", TRUE, "ProjectionCommitting")
               [] e.phase = "Draining" ->
                     commit("CommitProjectionEpoch", FALSE, "ProjectionCommitting")
               [] OTHER -> ef

EngineStep(ef) ==
    /\ engine' = DrivePhase(ef)[1]
    /\ fs' = DrivePhase(ef)[2]

\* FULL_SCAN_INTERVAL is longer than a cycle takes.
FullScanTimer ==
    /\ up
    /\ engine.phase = "Idle"
    /\ EngineStep(RequestScan(engine, fs, Paths))
    /\ UNCHANGED <<up, userVars, dbVars, epoch, reply, changed, count>>

\* A watcher hint or a scan command.
ScanCommand(scope) ==
    /\ up
    /\ count.hints < MaxHints
    /\ EngineStep(RequestScan(engine, fs, scope))
    /\ count' = [count EXCEPT !.hints = @ + 1]
    /\ UNCHANGED <<up, userVars, dbVars, epoch, reply, changed>>

\* Mutant: a change while next work is being computed is forgotten.
OnProjectionChangedNotDirty ==
    /\ up
    /\ changed
    /\ changed' = FALSE
    /\ EngineStep(CASE engine.phase = "Idle" -> EnterBoundary(engine)
                    [] engine.phase = "AwaitingNextWork" ->
                          <<engine, fs>>
                    [] OTHER -> <<engine, fs>>)
    /\ UNCHANGED <<up, userVars, dbVars, epoch, reply, count>>

\* Mutant: a change while next work is being computed asks a second time.
OnProjectionChangedReenters ==
    /\ up
    /\ changed
    /\ changed' = FALSE
    /\ EngineStep(CASE engine.phase = "Idle" -> EnterBoundary(engine)
                    [] engine.phase = "AwaitingNextWork" ->
                          EnterBoundary(engine)
                    [] OTHER -> <<engine, fs>>)
    /\ UNCHANGED <<up, userVars, dbVars, epoch, reply, count>>

OnProjectionChanged ==
    /\ up
    /\ changed
    /\ changed' = FALSE
    /\ EngineStep(CASE engine.phase = "Idle" -> EnterBoundary(engine)
                    [] engine.phase = "AwaitingNextWork" ->
                          <<[engine EXCEPT !.dirty = TRUE], fs>>
                    [] OTHER -> <<engine, fs>>)
    /\ UNCHANGED <<up, userVars, dbVars, epoch, reply, count>>

Done(op) == up /\ fs.op = op /\ fs.stage = "done"

OnScanDone ==
    /\ Done("scan")
    /\ EngineStep(<<[Send(engine, [Request("ApplyScan", 0, NoWords, 0, TRUE) EXCEPT
                                      !.scope = fs.scope, !.seen = fs.seen])
                        EXCEPT !.phase = "PlanningImport"], NoFs>>)
    /\ UNCHANGED <<up, userVars, dbVars, epoch, reply, changed, count>>

\* A read that met a changed file invalidates the import: scan again later.
OnReadDone ==
    /\ Done("read")
    /\ LET e == IF fs.ok THEN engine ELSE Coalesced(engine, Paths)
       IN  EngineStep(<<Send(e, Request("CommitImportAction", fs.path, fs.text, fs.stat,
                                        fs.ok)), NoFs>>)
    /\ UNCHANGED <<up, userVars, dbVars, epoch, reply, changed, count>>

\* A conflict drops the rest of the plan and asks for a full scan.
OnProjectionDone ==
    /\ Done("write") \/ Done("delete")
    /\ LET e == IF fs.ok THEN engine
                ELSE [Coalesced(engine, Paths) EXCEPT
                         !.phase = "Draining", !.writes = {}, !.deletes = {}]
       IN  EngineStep(<<Send(e, Request("CommitProjectionAction", fs.path, fs.text,
                                        fs.stat, fs.ok)), NoFs>>)
    /\ UNCHANGED <<up, userVars, dbVars, epoch, reply, changed, count>>

Answer(type) == up /\ \E r \in reply : r.type = type /\ reply' = reply \ {r}

OnApplyScanReply ==
    /\ up
    /\ \E r \in reply :
          /\ r.type = "ApplyScan"
          /\ reply' = reply \ {r}
          /\ EngineStep(IF r.reads = {} THEN EnterBoundary(engine)
                        ELSE <<[engine EXCEPT !.phase = "Importing", !.reads = r.reads], fs>>)
    /\ UNCHANGED <<up, userVars, dbVars, epoch, changed, count>>

OnEpochCommitted ==
    /\ Answer("CommitImportEpoch") \/ Answer("CommitProjectionEpoch")
    /\ EngineStep(EnterBoundary(engine))
    /\ UNCHANGED <<up, userVars, dbVars, epoch, changed, count>>

\* A None that may predate a change, or with a scan pending, is asked again.
OnNextWork ==
    /\ up
    /\ \E r \in reply :
          /\ r.type = "GetNextWork"
          /\ reply' = reply \ {r}
          /\ EngineStep(
                IF r.writes \cup r.deletes # {}
                THEN <<[engine EXCEPT !.phase = "Projecting", !.writes = r.writes,
                                      !.deletes = r.deletes], fs>>
                ELSE IF engine.dirty \/ engine.pending # {} THEN EnterBoundary(engine)
                ELSE <<[engine EXCEPT !.phase = "Idle"], fs>>)
    /\ UNCHANGED <<up, userVars, dbVars, epoch, changed, count>>
-----------------------------------------------------------------------------
(* The filesystem actor, one system call at a time.                        *)

\* A scan looks at one path after the other.
FsScanStep(p) ==
    /\ fs.op = "scan" /\ fs.stage = "asked"
    /\ p \in fs.todo
    /\ fs' = [fs EXCEPT !.todo = @ \ {p},
                        !.seen[p] = IF disk[p].live THEN disk[p].stat ELSE 0,
                        !.stage = IF fs.todo = {p} THEN "done" ELSE "asked"]
    /\ UNCHANGED <<up, userVars, dbVars, epoch, engine, reply, changed, count>>

\* The file is there and as the plan expects it (stat 0: there is no file).
AsExpected == IF disk[fs.path].live THEN disk[fs.path].stat = fs.stat ELSE fs.stat = 0

Finish(ok, stat, text) ==
    fs' = [fs EXCEPT !.stage = "done", !.ok = ok, !.stat = stat, !.text = text]

\* guarded_read: the stats around the read make it one step.
FsRead ==
    /\ fs.op = "read" /\ fs.stage = "asked"
    /\ IF AsExpected THEN Finish(TRUE, fs.stat, disk[fs.path].text)
                     ELSE Finish(FALSE, fs.stat, fs.text)
    /\ UNCHANGED <<up, userVars, dbVars, epoch, engine, reply, changed, count>>

HoldsTarget == /\ disk[fs.path].live = (fs.op = "write")
               /\ disk[fs.path].text = fs.text

\* Mutant: a write replaces whatever it finds.
FsCheckUnguarded ==
    /\ fs.op \in {"write", "delete"} /\ fs.stage = "asked"
    /\ IF fs.op = "write" /\ HoldsTarget THEN Finish(TRUE, disk[fs.path].stat, fs.text)
       ELSE IF AsExpected \/ fs.op = "write" THEN fs' = [fs EXCEPT !.stage = "checked"]
       ELSE Finish(FALSE, 0, fs.text)
    /\ UNCHANGED <<up, userVars, dbVars, epoch, engine, reply, changed, count>>

\* The guard of a write or a delete.
FsCheck ==
    /\ fs.op \in {"write", "delete"} /\ fs.stage = "asked"
    /\ IF fs.op = "write" /\ HoldsTarget THEN Finish(TRUE, disk[fs.path].stat, fs.text)
       ELSE IF AsExpected THEN fs' = [fs EXCEPT !.stage = "checked"]
       ELSE Finish(FALSE, 0, fs.text)
    /\ UNCHANGED <<up, userVars, dbVars, epoch, engine, reply, changed, count>>

\* The rename or the unlink, whatever has become of the file since the guard.
FsSwap ==
    /\ fs.op \in {"write", "delete"} /\ fs.stage = "checked"
    /\ IF fs.op = "write" \/ disk[fs.path].live
       THEN /\ Touch(fs.path, fs.op = "write", fs.text)
            /\ fs' = [fs EXCEPT !.stage = "swapped"]
            /\ user' = IF fs.op = "write" THEN user
                       ELSE [user EXCEPT ![fs.path].gone = @ \cup WordsOnDisk(fs.path)]
       ELSE /\ Finish(FALSE, 0, fs.text)
            /\ UNCHANGED userVars
    /\ UNCHANGED <<up, dbVars, epoch, engine, reply, changed, count>>

\* The look at the result that turns a swap into Written or Deleted.
FsVerify ==
    /\ fs.op \in {"write", "delete"} /\ fs.stage = "swapped"
    /\ Finish(HoldsTarget, IF fs.op = "write" THEN disk[fs.path].stat ELSE 0, fs.text)
    /\ UNCHANGED <<up, userVars, dbVars, epoch, engine, reply, changed, count>>

\* An I/O error before or after the swap: ProjectionActionResult::Failed.
FsFail ==
    /\ fs.op \in {"write", "delete"} /\ fs.stage # "done"
    /\ count.faults < MaxFaults
    /\ Finish(FALSE, 0, fs.text)
    /\ count' = [count EXCEPT !.faults = @ + 1]
    /\ UNCHANGED <<up, userVars, dbVars, epoch, engine, reply, changed>>
-----------------------------------------------------------------------------
(* The semantic actor serves the engine's requests one after the other,    *)
(* each in a transaction of its own.                                       *)

Serve(type) ==
    /\ up
    /\ engine.requests # <<>> /\ Head(engine.requests).type = type
    /\ engine' = [engine EXCEPT !.requests = Tail(@)]

Asked == Head(engine.requests)

\* Mutant: a file that is in prior is not read again.
ApplyScanNewFilesOnly ==
    /\ Serve("ApplyScan")
    /\ LET missing == {p \in Asked.scope : prior[p].live /\ Asked.seen[p] = 0}
           reads == {p \in Asked.scope : /\ Asked.seen[p] # 0
                                         /\ ~prior[p].live}
       IN  /\ prior' = [p \in Paths |-> [prior[p] EXCEPT !.live = @ /\ p \notin missing]]
           /\ stable' = [p \in Paths |-> [stable[p] EXCEPT !.live = @ /\ p \notin missing]]
           /\ epoch' = IF reads = {} THEN epoch
                       ELSE [NoEpoch EXCEPT !.kind = "import", !.expected = reads,
                                            !.stat = Asked.seen]
           /\ reply' = reply \cup {Reply("ApplyScan", reads, {}, {})}
    /\ UNCHANGED <<up, userVars, intents, staged, fs, changed, count>>

\* A prior file the scan did not find is a local delete; one with another stat,
\* or a file that is not in prior, has to be read.
ApplyScan ==
    /\ Serve("ApplyScan")
    /\ LET missing == {p \in Asked.scope : prior[p].live /\ Asked.seen[p] = 0}
           reads == {p \in Asked.scope : /\ Asked.seen[p] # 0
                                         /\ prior[p].live => Asked.seen[p] # prior[p].stat}
       IN  /\ prior' = [p \in Paths |-> [prior[p] EXCEPT !.live = @ /\ p \notin missing]]
           /\ stable' = [p \in Paths |-> [stable[p] EXCEPT !.live = @ /\ p \notin missing]]
           /\ epoch' = IF reads = {} THEN epoch
                       ELSE [NoEpoch EXCEPT !.kind = "import", !.expected = reads,
                                            !.stat = Asked.seen]
           /\ reply' = reply \cup {Reply("ApplyScan", reads, {}, {})}
    /\ UNCHANGED <<up, userVars, intents, staged, fs, changed, count>>

\* realign_prior_from_write_intent: the file is a write of the daemon's own that
\* is recorded as applied, and stable has not moved on.
OwnWrite(p, text, stat) ==
    \E i \in intents[p] : /\ i.text = text /\ i.stat = stat
                          /\ stable[p].live /\ stable[p].doc = i.doc

\* stage_existing_text_file, or stage_new_text_file with an empty prior document.
StagedRow(p, text, stat) ==
    LET update == Capture(prior[p].doc, text)
    IN  [kind |-> IF prior[p].live THEN "Update" ELSE "Create",
         doc |-> prior[p].doc \cup update, update |-> update, stat |-> stat]

CommitImportAction ==
    /\ Serve("CommitImportAction")
    /\ epoch' = [epoch EXCEPT !.done = @ \cup {Asked.path}]
    /\ LET p == Asked.path
           own == OwnWrite(p, Asked.text, Asked.stat)
       IN  CASE ~Asked.ok -> UNCHANGED <<prior, intents, staged>>
             [] Asked.ok /\ own ->
                   /\ prior' = [prior EXCEPT ![p] = [live |-> TRUE, doc |-> stable[p].doc,
                                                     stat |-> Asked.stat]]
                   /\ intents' = [intents EXCEPT ![p] = {}]
                   /\ UNCHANGED staged
             [] Asked.ok /\ ~own ->
                   /\ staged' = [staged EXCEPT ![p] = StagedRow(p, Asked.text, Asked.stat)]
                   /\ UNCHANGED <<prior, intents>>
    /\ UNCHANGED <<up, userVars, stable, fs, reply, changed, count>>

\* Mutant: prior gets the new stat, and keeps its old document.
CommitImportEpochOldPrior ==
    /\ Serve("CommitImportEpoch")
    /\ LET rows == {p \in Paths : staged[p].kind # "none"}
       IN  /\ stable' = [p \in Paths |->
                 IF p \notin rows THEN stable[p]
                 ELSE [live |-> stable[p].live \/ staged[p].kind = "Create",
                       born |-> TRUE, doc |-> stable[p].doc \cup staged[p].update]]
           /\ prior' = [p \in Paths |->
                 IF p \notin rows THEN prior[p]
                 ELSE [live |-> TRUE, doc |-> prior[p].doc, stat |-> staged[p].stat]]
    /\ staged' = [p \in Paths |-> NoRow]
    /\ epoch' = NoEpoch
    /\ reply' = reply \cup {Reply("CommitImportEpoch", {}, {}, {})}
    /\ UNCHANGED <<up, userVars, intents, fs, changed, count>>

\* Mutant: the completed actions are not cleared with the epoch.
CommitImportEpochKeepsActions ==
    /\ Serve("CommitImportEpoch")
    /\ LET rows == {p \in Paths : staged[p].kind # "none"}
       IN  /\ stable' = [p \in Paths |->
                 IF p \notin rows THEN stable[p]
                 ELSE [live |-> stable[p].live \/ staged[p].kind = "Create",
                       born |-> TRUE, doc |-> stable[p].doc \cup staged[p].update]]
           /\ prior' = [p \in Paths |->
                 IF p \notin rows THEN prior[p]
                 ELSE [live |-> TRUE, doc |-> staged[p].doc, stat |-> staged[p].stat]]
    /\ staged' = [p \in Paths |-> NoRow]
    /\ epoch' = [NoEpoch EXCEPT !.done = epoch.done]
    /\ reply' = reply \cup {Reply("CommitImportEpoch", {}, {}, {})}
    /\ UNCHANGED <<up, userVars, intents, fs, changed, count>>

\* The rows become prior, and their updates go into stable (and the outbox).
CommitImportEpoch ==
    /\ Serve("CommitImportEpoch")
    /\ LET rows == {p \in Paths : staged[p].kind # "none"}
       IN  /\ stable' = [p \in Paths |->
                 IF p \notin rows THEN stable[p]
                 ELSE [live |-> stable[p].live \/ staged[p].kind = "Create",
                       born |-> TRUE, doc |-> stable[p].doc \cup staged[p].update]]
           /\ prior' = [p \in Paths |->
                 IF p \notin rows THEN prior[p]
                 ELSE [live |-> TRUE, doc |-> staged[p].doc, stat |-> staged[p].stat]]
    /\ staged' = [p \in Paths |-> NoRow]
    /\ epoch' = NoEpoch
    /\ reply' = reply \cup {Reply("CommitImportEpoch", {}, {}, {})}
    /\ UNCHANGED <<up, userVars, intents, fs, changed, count>>

ToWrite == {p \in Paths : stable[p].live /\ (prior[p].live => prior[p].doc # stable[p].doc)}
ToDelete == {p \in Paths : prior[p].live /\ ~stable[p].live}

\* upsert_projection_write_intent: one intent per target text; it keeps the
\* applied mark of an earlier one.
Intend(set, doc) ==
    LET same == {i \in set : i.text = Text(doc)}
    IN  (set \ same) \cup {[text |-> Text(doc), doc |-> doc,
                            stat |-> IF same = {} THEN 0 ELSE (CHOOSE i \in same : TRUE).stat]}

GetNextWork ==
    /\ Serve("GetNextWork")
    /\ intents' = [p \in Paths |-> IF p \in ToWrite THEN Intend(intents[p], stable[p].doc)
                                                   ELSE intents[p]]
    /\ epoch' = IF ToWrite \cup ToDelete = {} THEN epoch
                ELSE [NoEpoch EXCEPT
                         !.kind = "projection", !.expected = ToWrite \cup ToDelete,
                         !.deletes = ToDelete,
                         !.target = [p \in Paths |-> IF p \in ToWrite THEN stable[p].doc ELSE {}],
                         !.stat = [p \in Paths |-> IF prior[p].live THEN prior[p].stat ELSE 0]]
    /\ reply' = reply \cup {Reply("GetNextWork", {}, ToWrite, ToDelete)}
    /\ UNCHANGED <<up, userVars, stable, prior, staged, fs, changed, count>>

\* mark_projection_write_intent_applied for a successful write.
CommitProjectionAction ==
    /\ Serve("CommitProjectionAction")
    /\ LET p == Asked.path
       IN  /\ epoch' = [epoch EXCEPT !.done = @ \cup {p}, !.result[p] = Asked.stat]
           /\ intents' = IF Asked.ok /\ p \notin epoch.deletes
                         THEN [intents EXCEPT ![p] =
                                 {IF i.text = Asked.text THEN [i EXCEPT !.stat = Asked.stat]
                                                         ELSE i : i \in @}]
                         ELSE intents
    /\ UNCHANGED <<up, userVars, stable, prior, staged, fs, reply, changed, count>>

\* Mutant: prior gets the current stable document, not the one written.
CommitProjectionEpochLatest ==
    /\ Serve("CommitProjectionEpoch")
    /\ LET committed == IF Asked.ok THEN epoch.expected ELSE {}
       IN  /\ prior' = [p \in Paths |->
                 IF p \notin committed THEN prior[p]
                 ELSE IF p \in epoch.deletes THEN [prior[p] EXCEPT !.live = FALSE]
                 ELSE [live |-> TRUE, doc |-> stable[p].doc, stat |-> epoch.result[p]]]
           /\ intents' = [p \in Paths |-> IF p \in committed THEN {} ELSE intents[p]]
    /\ epoch' = NoEpoch
    /\ reply' = reply \cup {Reply("CommitProjectionEpoch", {}, {}, {})}
    /\ UNCHANGED <<up, userVars, stable, staged, fs, changed, count>>

\* Mutant: an invalidated projection becomes prior as well.
CommitProjectionEpochAlways ==
    /\ Serve("CommitProjectionEpoch")
    /\ LET committed == epoch.expected
       IN  /\ prior' = [p \in Paths |->
                 IF p \notin committed THEN prior[p]
                 ELSE IF p \in epoch.deletes THEN [prior[p] EXCEPT !.live = FALSE]
                 ELSE [live |-> TRUE, doc |-> epoch.target[p], stat |-> epoch.result[p]]]
           /\ intents' = [p \in Paths |-> IF p \in committed THEN {} ELSE intents[p]]
    /\ epoch' = NoEpoch
    /\ reply' = reply \cup {Reply("CommitProjectionEpoch", {}, {}, {})}
    /\ UNCHANGED <<up, userVars, stable, staged, fs, changed, count>>

\* An exhausted plan becomes prior; an invalidated one changes nothing.
CommitProjectionEpoch ==
    /\ Serve("CommitProjectionEpoch")
    /\ LET committed == IF Asked.ok THEN epoch.expected ELSE {}
       IN  /\ prior' = [p \in Paths |->
                 IF p \notin committed THEN prior[p]
                 ELSE IF p \in epoch.deletes THEN [prior[p] EXCEPT !.live = FALSE]
                 ELSE [live |-> TRUE, doc |-> epoch.target[p], stat |-> epoch.result[p]]]
           /\ intents' = [p \in Paths |-> IF p \in committed THEN {} ELSE intents[p]]
    /\ epoch' = NoEpoch
    /\ reply' = reply \cup {Reply("CommitProjectionEpoch", {}, {}, {})}
    /\ UNCHANGED <<up, userVars, stable, staged, fs, changed, count>>
-----------------------------------------------------------------------------
(* A crash, or a clean stop: the tables and the files are what remains.    *)

Crash ==
    /\ up
    /\ count.faults < MaxFaults
    /\ up' = FALSE
    /\ count' = [count EXCEPT !.faults = @ + 1]
    /\ epoch' = NoEpoch /\ reply' = {} /\ changed' = FALSE
    /\ engine' = EngineAtStart /\ fs' = NoFs
    /\ UNCHANGED <<userVars, dbVars>>

\* clear_startup_scratch_tables, and the scan that run() asks for.
Restart ==
    /\ ~up
    /\ up' = TRUE
    /\ staged' = [p \in Paths |-> NoRow]
    /\ fs' = ScanOf(Paths)
    /\ UNCHANGED <<userVars, stable, prior, intents, epoch, engine, reply, changed, count>>
-----------------------------------------------------------------------------
User == \E p \in Paths : UserEdit(p) \/ UserCreate(p) \/ UserDelete(p)

Remote == \E p \in Paths : RemoteEdit(p) \/ RemoteCreate(p) \/ RemoteDelete(p)

Engine ==
    \/ FullScanTimer \/ OnProjectionChanged
    \/ OnScanDone \/ OnReadDone \/ OnProjectionDone
    \/ OnApplyScanReply \/ OnEpochCommitted \/ OnNextWork

FsActor ==
    \/ \E p \in Paths : FsScanStep(p)
    \/ FsRead \/ FsCheck \/ FsSwap \/ FsVerify

Semantic ==
    \/ ApplyScan \/ CommitImportAction \/ CommitImportEpoch
    \/ GetNextWork \/ CommitProjectionAction \/ CommitProjectionEpoch

Daemon == Engine \/ FsActor \/ Semantic \/ Restart

Next ==
    \/ User \/ Remote \/ Daemon
    \/ \E scope \in {Paths} \cup {{p} : p \in Paths} : ScanCommand(scope)
    \/ FsFail \/ Crash

Spec == Init /\ [][Next]_vars

\* The actors of a running daemon make progress, and a stopped one is started
\* again.  Nothing is asked of the user, of remote daemons or of the watcher.
FairSpec == Spec /\ WF_vars(Daemon)
-----------------------------------------------------------------------------
Docs  == SUBSET (Words \X Nat \X {"ins", "del"})
Texts == [Words -> Nat]
Stats == [Paths -> Nat]

Phases == {"Idle", "AwaitingNextWork", "Scanning", "PlanningImport", "Importing",
           "ImportCommitting", "Projecting", "Draining", "ProjectionCommitting"}

ReplyTypes   == {"ApplyScan", "CommitImportEpoch", "GetNextWork", "CommitProjectionEpoch"}
RequestTypes == ReplyTypes \cup {"CommitImportAction", "CommitProjectionAction"}

DiskType    == [live : BOOLEAN, stat : Nat, text : Texts]
StableType  == [live : BOOLEAN, born : BOOLEAN, doc : Docs]
PriorType   == [live : BOOLEAN, doc : Docs, stat : Nat]
IntentType  == [text : Texts, doc : Docs, stat : Nat]
RowType     == [kind : {"none", "Update", "Create"}, doc : Docs, update : Docs, stat : Nat]
UserType    == [typed : SUBSET Words, gone : SUBSET Words]
ReplyType   == [type : ReplyTypes, reads : SUBSET Paths, writes : SUBSET Paths,
                deletes : SUBSET Paths]
RequestType == [type : RequestTypes, path : {0} \cup Paths, text : Texts, stat : Nat,
                ok : BOOLEAN, scope : SUBSET Paths, seen : Stats]
EngineType  == [phase : Phases, dirty : BOOLEAN, pending : SUBSET Paths,
                reads : SUBSET Paths, writes : SUBSET Paths, deletes : SUBSET Paths,
                requests : Seq(RequestType)]
EpochType   == [kind : {"none", "import", "projection"}, expected : SUBSET Paths,
                deletes : SUBSET Paths, done : SUBSET Paths, target : [Paths -> Docs],
                stat : Stats, result : Stats]
FsType      == [op : {"none", "scan", "read", "write", "delete"},
                stage : {"asked", "checked", "swapped", "done"}, path : {0} \cup Paths,
                todo : SUBSET Paths, scope : SUBSET Paths, stat : Nat, text : Texts,
                seen : Stats, ok : BOOLEAN]
CountType   == [edits : Nat, hints : Nat, deletes : Nat, faults : Nat]

Types ==
    /\ up \in BOOLEAN /\ changed \in BOOLEAN
    /\ disk \in [Paths -> DiskType] /\ user \in [Paths -> UserType]
    /\ stable \in [Paths -> StableType] /\ prior \in [Paths -> PriorType]
    /\ intents \in [Paths -> SUBSET IntentType] /\ staged \in [Paths -> RowType]
    /\ epoch \in EpochType /\ epoch.done \subseteq epoch.expected
    /\ engine \in EngineType /\ fs \in FsType
    /\ reply \in SUBSET ReplyType /\ count \in CountType

\* Type invariant.  No more requests wait than an epoch has actions, and one reply.
TypeOK == Types /\ Len(engine.requests) <= NumPaths + 1 /\ Cardinality(reply) <= 1

\* None of the checks that stop the daemon can fail: a filesystem result and a
\* semantic reply find the engine in the phase that waits for them, an epoch is
\* installed only when none is active, takes each of its actions once, and is
\* committed when all dispatched actions are in.
NoProtocolPanic ==
    /\ fs.stage = "done" => engine.phase \in
          CASE fs.op = "scan" -> {"Scanning"}
            [] fs.op = "read" -> {"Importing"}
            [] OTHER -> {"Projecting", "Draining"}
    /\ \A r \in reply : engine.phase =
          CASE r.type = "ApplyScan" -> "PlanningImport"
            [] r.type = "CommitImportEpoch" -> "ImportCommitting"
            [] r.type = "CommitProjectionEpoch" -> "ProjectionCommitting"
            [] r.type = "GetNextWork" -> "AwaitingNextWork"
    /\ engine.requests # <<>> =>
          CASE Asked.type \in {"ApplyScan", "GetNextWork"} -> epoch.kind = "none"
            [] Asked.type = "CommitImportAction" ->
                  epoch.kind = "import" /\ Asked.path \in epoch.expected \ epoch.done
            [] Asked.type = "CommitImportEpoch" ->
                  epoch.kind = "import" /\ epoch.done = epoch.expected
            [] Asked.type = "CommitProjectionAction" ->
                  epoch.kind = "projection" /\ Asked.path \in epoch.expected \ epoch.done
            [] Asked.type = "CommitProjectionEpoch" ->
                  epoch.kind = "projection" /\ (Asked.ok => epoch.done = epoch.expected)

\* An engine at rest, with no ProjectionChanged on its way, has nothing to write
\* or delete: no change of stable falls between the answer "no work" and Idle.
IdleIsQuiet ==
    (up /\ engine.phase = "Idle" /\ ~changed) => ToWrite \cup ToDelete = {}

\* A file whose stat is the one in prior has the text of the prior document.
\* Everything rests on it: a scan skips such a file, a write replaces it, and the
\* import of a later edit is the difference from that document.
PriorIsHonest ==
    \A p \in Paths :
        (prior[p].live /\ disk[p].live /\ disk[p].stat = prior[p].stat)
            => disk[p].text = Text(prior[p].doc)

\* The operations of a document that are this daemon's own.
Own(doc) == {op \in doc : op[2] # 0 \/ op[3] = "del"}

\* Prior holds every operation this daemon has put into stable, and nothing that
\* is not in stable.  An import takes its clocks from the prior document alone,
\* so an operation missing there would have its (client, clock) given out twice.
OpIdsUnique ==
    \A p \in Paths :
        /\ prior[p].doc \subseteq stable[p].doc
        /\ Own(stable[p].doc) \subseteq prior[p].doc

\* What the user types is not lost: each word stays on disk until it has been
\* imported, whatever the daemon writes, deletes, aborts or restarts meanwhile.
NoUserEditLost ==
    \A p \in Paths : \A w \in user[p].typed :
        \/ disk[p].live /\ disk[p].text[w] > 0
        \/ Inserted(stable[p].doc, w) \ {0} # {}

\* An import removes a word from the shared document only when it was in a file
\* that was removed from that path: a remote edit that is not on disk yet is never
\* taken for a removal by the user.
NoSpuriousRemoval ==
    \A p \in Paths : \A op \in stable[p].doc :
        op[3] = "del" => op[1] \in user[p].gone

Agree == \A p \in Paths : /\ disk[p].live = stable[p].live
                          /\ disk[p].live => disk[p].text = Text(stable[p].doc)

\* Once edits, faults and hints are over, the files come to show the stable state
\* and stay that way.
Converges == <>[](up /\ Agree)
=============================================================================
