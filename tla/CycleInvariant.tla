--------------------------- MODULE CycleInvariant ---------------------------
(***************************************************************************)
(* Why the properties of SyncCycle hold: an inductive invariant of the     *)
(* cycle, in four parts.  The engine, the filesystem request, the semantic *)
(* queue and the epoch agree on where the cycle is (ProtocolInv); the      *)
(* documents differ only by remote insertions (DocInv); whatever a message *)
(* or a table says of a file was true when its stat was taken (HonestInv); *)
(* and an answer "no work" is still true unless a change is on its way     *)
(* (QuietInv).                                                             *)
(***************************************************************************)
EXTENDS SyncCycle

-----------------------------------------------------------------------------
(* The protocol.                                                           *)

\* The first n requests of a queue are results of different actions of one kind.
Results(q, type, n) ==
    /\ \A i \in 1 .. n : q[i].type = type
    /\ \A i, j \in 1 .. n : q[i].path = q[j].path => i = j

PathsOf(q, n) == {q[i].path : i \in 1 .. n}

\* The actions whose results the epoch has not got.
Owed == epoch.expected \ epoch.done

\* The one request is on its way, and no epoch is active.
Asking(type) ==
    /\ Len(engine.requests) = 1 /\ engine.requests[1].type = type
    /\ reply = {}
    /\ epoch = NoEpoch

Answered(type, r) == engine.requests = <<>> /\ reply = {r} /\ r.type = type

IdleInv ==
    engine.phase = "Idle" =>
        fs = NoFs /\ engine.requests = <<>> /\ reply = {} /\ epoch = NoEpoch

ScanningInv ==
    engine.phase = "Scanning" =>
        /\ engine.requests = <<>> /\ reply = {} /\ epoch = NoEpoch
        /\ IF up THEN fs.op = "scan" ELSE fs = NoFs

\* The epoch that a reply announces is installed.
PlanningInv ==
    engine.phase = "PlanningImport" =>
        /\ fs = NoFs
        /\ \/ Asking("ApplyScan")
           \/ \E r \in reply :
                 /\ Answered("ApplyScan", r)
                 /\ IF r.reads = {} THEN epoch = NoEpoch
                    ELSE epoch.kind = "import" /\ epoch.expected = r.reads /\ epoch.done = {}

AwaitingInv ==
    engine.phase = "AwaitingNextWork" =>
        /\ fs = NoFs
        /\ \/ Asking("GetNextWork")
           \/ \E r \in reply :
                 /\ Answered("GetNextWork", r)
                 /\ IF r.writes \cup r.deletes = {} THEN epoch = NoEpoch
                    ELSE /\ epoch.kind = "projection"
                         /\ epoch.expected = r.writes \cup r.deletes
                         /\ epoch.deletes = r.deletes /\ r.writes \cap r.deletes = {}
                         /\ epoch.done = {}

\* Every action of the epoch is done, in the queue, in the filesystem or to come.
Working(type, todo) ==
    LET n == Len(engine.requests)
    IN  /\ reply = {}
        /\ Results(engine.requests, type, n)
        /\ Owed = PathsOf(engine.requests, n) \cup {fs.path} \cup todo
        /\ fs.path \notin todo \cup PathsOf(engine.requests, n)
        /\ todo \cap PathsOf(engine.requests, n) = {}

\* The commit of the epoch is the last request; an exhausted plan left nothing out.
Committing(kind, action, commit) ==
    LET n == Len(engine.requests)
    IN  /\ fs = NoFs
        /\ \/ /\ n > 0 /\ engine.requests[n].type = commit
              /\ reply = {}
              /\ epoch.kind = kind
              /\ Results(engine.requests, action, n - 1)
              /\ PathsOf(engine.requests, n - 1) \subseteq Owed
              /\ engine.requests[n].ok => Owed \subseteq PathsOf(engine.requests, n - 1)
           \/ /\ epoch = NoEpoch
              /\ \E r \in reply : Answered(commit, r)

ImportingInv ==
    engine.phase = "Importing" =>
        /\ fs.op = "read" /\ epoch.kind = "import"
        /\ Working("CommitImportAction", engine.reads)

ImportCommittingInv ==
    engine.phase = "ImportCommitting" =>
        /\ Committing("import", "CommitImportAction", "CommitImportEpoch")
        /\ engine.requests # <<>> => engine.requests[Len(engine.requests)].ok

ProjectingInv ==
    engine.phase = "Projecting" =>
        /\ fs.op \in {"write", "delete"} /\ epoch.kind = "projection"
        /\ (fs.op = "delete") = (fs.path \in epoch.deletes)
        /\ engine.deletes \subseteq epoch.deletes /\ engine.writes \cap epoch.deletes = {}
        /\ Working("CommitProjectionAction", engine.writes \cup engine.deletes)

ProjectionCommittingInv ==
    engine.phase = "ProjectionCommitting" =>
        Committing("projection", "CommitProjectionAction", "CommitProjectionEpoch")

\* What is left of a plan is left only while it is worked on; a stopped daemon has
\* an engine that has not started.
PlanInv ==
    /\ engine.phase # "Draining"
    /\ engine.phase # "Importing" => engine.reads = {}
    /\ engine.phase # "Projecting" => engine.writes = {} /\ engine.deletes = {}
    /\ ~up => engine = EngineAtStart

ProtocolInv ==
    /\ IdleInv /\ ScanningInv /\ PlanningInv /\ ImportingInv /\ ImportCommittingInv
    /\ AwaitingInv /\ ProjectingInv /\ ProjectionCommittingInv /\ PlanInv
-----------------------------------------------------------------------------
(* The documents.                                                          *)

\* This daemon's insertions of a word are numbered from 1, and only what was
\* inserted is removed.
WellFormed(doc) ==
    /\ \A w \in Words : /\ Copies(doc, w) \in Nat
                        /\ Inserted(doc, w) \ {0} = 1 .. Copies(doc, w)
    /\ \A op \in doc : op[3] = "del" => op[2] \in Inserted(doc, op[1])

\* A row is prior with operations of this daemon's own, in the import epoch that
\* has done its path.
RowInv(p) ==
    staged[p].kind # "none" =>
        /\ staged[p].doc = prior[p].doc \cup staged[p].update
        /\ staged[p].update \subseteq Own(staged[p].update)
        /\ up => epoch.kind = "import" /\ p \in epoch.done

\* The document a projection writes is prior or later, and holds all own operations.
TargetInv(p) ==
    (epoch.kind = "projection" /\ p \in epoch.expected \ epoch.deletes) =>
        /\ prior[p].doc \subseteq epoch.target[p]
        /\ epoch.target[p] \subseteq stable[p].doc

DocInv ==
    /\ OpIdsUnique
    /\ \A p \in Paths :
          /\ stable[p].live => stable[p].born
          /\ ~stable[p].born => stable[p].doc = {}
          /\ WellFormed(stable[p].doc) /\ WellFormed(prior[p].doc)
          /\ WellFormed(staged[p].doc) /\ WellFormed(epoch.target[p])
          /\ \A i \in intents[p] : WellFormed(i.doc)
          /\ RowInv(p) /\ TargetInv(p)
-----------------------------------------------------------------------------
(* The files.                                                              *)

\* With this stat the file has this text (stats are never used again).
Seen(p, stat, text) ==
    /\ stat <= disk[p].stat
    /\ (disk[p].live /\ disk[p].stat = stat) => disk[p].text = text

\* What the file holds less of than text was in a file removed from its path.
Covered(p, text) == \A w \in Words : disk[p].text[w] >= text[w] \/ w \in user[p].gone

Recorded(p, stat, text) == Seen(p, stat, text) /\ Covered(p, text)

\* The text of a read is the file's, and lacks of prior only what was removed.
ReadOf(p, stat, text) ==
    /\ Recorded(p, stat, text)
    /\ \A w \in Words : text[w] >= Text(prior[p].doc)[w] \/ w \in user[p].gone

WrittenTo(p, stat, text) == text = Text(epoch.target[p]) /\ Recorded(p, stat, text)

\* Prior and the rows about to become prior.
TablesInv ==
    \A p \in Paths :
        /\ disk[p].stat > 0 /\ (~disk[p].live => disk[p].text = NoWords)
        /\ prior[p].live => Seen(p, prior[p].stat, Text(prior[p].doc))
        /\ Covered(p, Text(prior[p].doc))
        /\ staged[p].kind # "none" =>
              /\ Recorded(p, staged[p].stat, Text(staged[p].doc))
              /\ \A op \in staged[p].update : op[3] = "del" => op[1] \in user[p].gone
        /\ \A i \in intents[p] : i.text = Text(i.doc)

\* A projection expects the files that prior describes.
ExpectInv ==
    epoch.kind = "projection" =>
        \A p \in epoch.expected : epoch.stat[p] = IF prior[p].live THEN prior[p].stat ELSE 0

\* The filesystem request in flight.
FsInv ==
    /\ (fs.op = "read" /\ fs.stage = "done" /\ fs.ok) => ReadOf(fs.path, fs.stat, fs.text)
    /\ fs.op = "write" => fs.text = Text(epoch.target[fs.path])
    /\ fs.op = "delete" => fs.text = NoWords
    /\ (fs.op \in {"write", "delete"} /\ fs.stage \in {"asked", "checked"}) =>
          fs.stat = epoch.stat[fs.path]
    /\ (fs.op = "write" /\ fs.stage = "done" /\ fs.ok) => Recorded(fs.path, fs.stat, fs.text)
    /\ fs.stage \in {"checked", "swapped"} => fs.op \in {"write", "delete"}

\* A result in the queue tells what happened to the file.
Truthful(r) ==
    r.ok => /\ r.type = "CommitImportAction" => ReadOf(r.path, r.stat, r.text)
            /\ (r.type = "CommitProjectionAction" /\ r.path \notin epoch.deletes) =>
                  WrittenTo(r.path, r.stat, r.text)

QueueInv == \A i \in 1 .. Len(engine.requests) : Truthful(engine.requests[i])

\* No action of the projection has failed so far.
Unbroken ==
    \/ engine.phase = "Projecting"
    \/ /\ engine.phase = "ProjectionCommitting" /\ engine.requests # <<>>
       /\ engine.requests[Len(engine.requests)].ok

ResultInv ==
    Unbroken =>
        /\ \A i \in 1 .. Len(engine.requests) : engine.requests[i].ok
        /\ \A p \in epoch.done \ epoch.deletes :
              WrittenTo(p, epoch.result[p], Text(epoch.target[p]))

HonestInv == TablesInv /\ ExpectInv /\ FsInv /\ QueueInv /\ ResultInv
-----------------------------------------------------------------------------
(* The user's words.                                                       *)

\* Words typed here and words from the log are different, and an edit that meets
\* no swap leaves a checked file as it was.
WordsInv ==
    /\ \A p \in Paths :
          /\ \A w \in user[p].typed : w <= count.edits
          /\ \A op \in stable[p].doc : (op[2] = 0 /\ op[3] = "ins") =>
                op[1] <= count.edits /\ op[1] \notin user[p].typed
    /\ (QuietSwap /\ fs.stage = "checked") => AsExpected

\* The answer "no work" holds until a change is announced.
QuietInv ==
    (/\ up /\ ~changed
     /\ \/ engine.phase = "Idle"
        \/ /\ engine.phase = "AwaitingNextWork" /\ ~engine.dirty
           /\ \E r \in reply : r.writes \cup r.deletes = {})
        => ToWrite \cup ToDelete = {}

CycleInv ==
    /\ ProtocolInv /\ DocInv /\ HonestInv /\ WordsInv /\ QuietInv
    /\ NoSpuriousRemoval
    /\ QuietSwap => NoUserEditLost
=============================================================================
