----------------------------- MODULE CycleProofs ----------------------------
(***************************************************************************)
(* Proofs that the invariants of SyncCycle hold for every number of paths, *)
(* edits, hints, deletes and faults: the inductive invariant is preserved  *)
(* by every action of the engine, the user, the log, the filesystem actor  *)
(* and the semantic actor, by a crash and by a restart.                    *)
(***************************************************************************)
EXTENDS CycleFacts

\* What the parts of the daemon tell each other.
LinkInv == ProtocolInv /\ FsInv /\ QueueInv /\ ResultInv

\* The actions that move the engine leave the tables and the files alone.
Still == UNCHANGED <<up, disk, user, prior, epoch>>

-----------------------------------------------------------------------------
\* What a result says of a file depends on the tables and the file only.
LEMMA TruthfulStill ==
    ASSUME NEW r, Still, Truthful(r)
    PROVE  Truthful(r)'
BY DEF Still, Truthful, ReadOf, WrittenTo, Recorded, Seen, Covered, Text

\* A queue of truthful results stays so while nothing they speak of changes.
LEMMA QueueStill ==
    ASSUME NEW q, Still, engine'.requests = q, \A i \in 1 .. Len(q) : Truthful(q[i])
    PROVE  QueueInv'
PROOF
<1>1. ASSUME NEW i \in 1 .. Len(engine'.requests) PROVE Truthful(engine.requests[i])'
  BY TruthfulStill
<1> QED
  BY <1>1 DEF QueueInv

\* A request that is no result of an action says nothing of files.
LEMMA TruthfulOther ==
    ASSUME NEW r, r.type \notin {"CommitImportAction", "CommitProjectionAction"}
    PROVE  Truthful(r)
BY DEF Truthful

\* The engine at a boundary.
LEMMA BoundaryLinks ==
    ASSUME NEW e \in EngineType, EngineStep(EnterBoundary(e)), Still,
           e.requests = <<>>, e.reads = {}, e.writes = {}, e.deletes = {},
           up, reply' = {}, epoch = NoEpoch
    PROVE  /\ engine' \in EngineType /\ fs' \in FsType /\ LinkInv'
           /\ fs'.stage = "asked" /\ engine'.phase \in {"Scanning", "AwaitingNextWork"}
PROOF
<1>0. up' /\ epoch' = NoEpoch
  BY DEF Still
<1>1. CASE e.pending # {}
  <2>1. /\ engine' = [e EXCEPT !.phase = "Scanning", !.pending = {}]
        /\ fs' = ScanOf(e.pending)
    BY <1>1, BoundaryStep
  <2>2. engine' \in EngineType /\ engine'.phase = "Scanning" /\ engine'.requests = <<>>
        /\ engine'.reads = {} /\ engine'.writes = {} /\ engine'.deletes = {}
    BY <2>1 DEF EngineType, Phases
  <2>3. fs' \in FsType /\ fs'.op = "scan" /\ fs'.stage = "asked"
    BY <2>1, ScanTyped DEF EngineType
  <2>4. ProtocolInv'
    BY <1>0, <2>2, <2>3 DEF ProtocolInv, IdleInv, ScanningInv, PlanningInv, ImportingInv,
       ImportCommittingInv, AwaitingInv, ProjectingInv, ProjectionCommittingInv, PlanInv
  <2>5. FsInv'
    BY <2>3 DEF FsInv
  <2>6. QueueInv'
    BY <2>2 DEF QueueInv
  <2>7. ResultInv'
    BY <2>2 DEF ResultInv, Unbroken
  <2> QED
    BY <2>2, <2>3, <2>4, <2>5, <2>6, <2>7 DEF LinkInv
<1>2. CASE e.pending = {}
  <2> DEFINE r == Request("GetNextWork", 0, NoWords, 0, TRUE)
  <2>1. /\ engine' = [Send(e, r) EXCEPT !.phase = "AwaitingNextWork", !.dirty = FALSE]
        /\ fs' = NoFs
    BY <1>2, BoundaryStep
  <2>2. r \in RequestType /\ r.type = "GetNextWork"
    BY Blank DEF Request, RequestType, RequestTypes, ReplyTypes
  <2> HIDE DEF r
  <2> DEFINE s == Send(e, r)
  <2>s. /\ s \in EngineType /\ s.requests = Append(<<>>, r)
        /\ s.reads = {} /\ s.writes = {} /\ s.deletes = {}
    BY <2>2, SendTyped
  <2> HIDE DEF s
  <2>t. engine' = [s EXCEPT !.phase = "AwaitingNextWork", !.dirty = FALSE]
    BY <2>1 DEF s
  <2>3. engine' \in EngineType /\ engine'.phase = "AwaitingNextWork"
        /\ engine'.requests = Append(<<>>, r)
        /\ engine'.reads = {} /\ engine'.writes = {} /\ engine'.deletes = {}
    BY <2>s, <2>t DEF EngineType, Phases
  <2>4. Len(engine'.requests) = 1 /\ engine'.requests[1] = r
    BY <2>2, <2>3
  <2>5. fs' \in FsType /\ fs'.op = "none" /\ fs'.stage = "asked"
    BY <2>1, EmptyRecords DEF NoFs
  <2>6. ProtocolInv'
    BY <1>0, <2>1, <2>2, <2>3, <2>4 DEF ProtocolInv, IdleInv, ScanningInv, PlanningInv,
       ImportingInv, ImportCommittingInv, AwaitingInv, ProjectingInv,
       ProjectionCommittingInv, PlanInv, Asking
  <2>7. FsInv'
    BY <2>5 DEF FsInv
  <2>8. QueueInv'
    <3>1. \A i \in 1 .. Len(engine'.requests) : engine'.requests[i] = r
      BY <2>4
    <3>2. \A i \in 1 .. Len(engine'.requests) : Truthful(engine.requests[i])'
      BY <3>1, <2>2 DEF Truthful
    <3> QED
      BY <3>2 DEF QueueInv
  <2>9. ResultInv'
    BY <2>3 DEF ResultInv, Unbroken
  <2> QED
    BY <2>3, <2>5, <2>6, <2>7, <2>8, <2>9 DEF LinkInv
<1> QED
  BY <1>1, <1>2

\* The fields of a request for an action.
LEMMA ActionTyped ==
    ASSUME NEW op \in {"read", "write", "delete"}, NEW p \in Paths, epoch \in EpochType,
           op = "write" => WellFormed(epoch.target[p])
    PROVE  /\ Action(op, p) \in FsType
           /\ Action(op, p).op = op /\ Action(op, p).path = p /\ Action(op, p).stage = "asked"
           /\ Action(op, p).stat = epoch.stat[p]
           /\ op = "write" => Action(op, p).text = Text(epoch.target[p])
           /\ op # "write" => Action(op, p).text = NoWords
PROOF
<1> DEFINE text == IF op = "write" THEN Text(epoch.target[p]) ELSE NoWords
<1>1. text \in Texts
  BY TextType, Blank DEF EpochType
<1>2. epoch.stat[p] \in Nat
  BY DEF EpochType, Stats
<1> HIDE DEF text
<1>3. Action(op, p) = [NoFs EXCEPT !.op = op, !.path = p, !.stat = epoch.stat[p], !.text = text]
  BY DEF Action, text
<1>4. /\ Action(op, p) \in FsType
      /\ Action(op, p).op = op /\ Action(op, p).path = p /\ Action(op, p).stage = "asked"
      /\ Action(op, p).stat = epoch.stat[p] /\ Action(op, p).text = text
  BY <1>1, <1>2, <1>3, EmptyRecords DEF NoFs, FsType
<1> QED
  BY <1>4 DEF text

\* k is e with the commit of its epoch at the end of its queue.
Waits(k, e, phase, type, ok, action) ==
    /\ k \in EngineType /\ k.phase = phase
    /\ k.reads = e.reads /\ k.writes = e.writes /\ k.deletes = e.deletes
    /\ Len(k.requests) = Len(e.requests) + 1
    /\ \A i \in 1 .. Len(e.requests) : k.requests[i] = e.requests[i]
    /\ k.requests[Len(k.requests)].type = type /\ k.requests[Len(k.requests)].ok = ok
    /\ Results(k.requests, action, Len(k.requests) - 1)
    /\ PathsOf(k.requests, Len(k.requests) - 1) = PathsOf(e.requests, Len(e.requests))
    /\ \A i \in 1 .. Len(k.requests) : Truthful(k.requests[i])

\* The engine that waits for a commit, field by field.
LEMMA CommittedTyped ==
    ASSUME NEW e \in EngineType, NEW phase \in Phases, NEW ok \in BOOLEAN,
           NEW type \in {"CommitImportEpoch", "CommitProjectionEpoch"},
           NEW k, k = Committed(e, type, ok, phase),
           NEW action, Results(e.requests, action, Len(e.requests)),
           \A i \in 1 .. Len(e.requests) : Truthful(e.requests[i])
    PROVE  Waits(k, e, phase, type, ok, action)
PROOF
<1> DEFINE r == Request(type, 0, NoWords, 0, ok)
           q == e.requests
           n == Len(q)
           a == Append(q, r)
<1>1. r \in RequestType /\ r.type = type /\ r.ok = ok
  BY Blank DEF Request, RequestType, RequestTypes, ReplyTypes
<1>2. q \in Seq(RequestType) /\ Results(q, action, n) /\ \A i \in 1 .. n : Truthful(q[i])
  BY DEF EngineType
<1>3. k = [Send(e, r) EXCEPT !.phase = phase]
  BY DEF Committed
<1> HIDE DEF r
<1> DEFINE s == Send(e, r)
<1>s. /\ s \in EngineType /\ s.requests = a
      /\ s.reads = e.reads /\ s.writes = e.writes /\ s.deletes = e.deletes
  BY <1>1, SendTyped
<1>t. k = [s EXCEPT !.phase = phase]
  BY <1>3
<1> HIDE DEF s, a
<1>4. /\ k \in EngineType /\ k.phase = phase /\ k.requests = a
      /\ k.reads = e.reads /\ k.writes = e.writes /\ k.deletes = e.deletes
  BY <1>s, <1>t DEF EngineType
<1> HIDE DEF q
<1>5. /\ Len(a) = n + 1 /\ n \in Nat
      /\ a[n + 1] = r /\ \A i \in 1 .. n : a[i] = q[i]
      /\ Results(a, action, n)
      /\ PathsOf(a, n) = PathsOf(q, n)
  BY <1>1, <1>2, AppendCommit DEF a
<1> HIDE DEF a, n
<1>6. (n + 1) - 1 = n /\ \A i \in 1 .. n + 1 : i \in 1 .. n \/ i = n + 1
  BY <1>5
<1>7. Truthful(r)
  BY <1>1, TruthfulOther
<1>8. \A i \in 1 .. Len(a) : Truthful(a[i])
  BY <1>2, <1>5, <1>6, <1>7
<1> QED
  BY <1>1, <1>4, <1>5, <1>6, <1>8 DEF q, n, Waits

\* The engine in an import: the next read, or the commit of the epoch.
LEMMA ImportLinks ==
    ASSUME NEW e \in EngineType, EngineStep(<<e, NoFs>>), Still,
           up, reply' = {}, epoch \in EpochType, epoch.kind = "import",
           e.phase = "Importing", e.writes = {}, e.deletes = {},
           Results(e.requests, "CommitImportAction", Len(e.requests)),
           Owed = PathsOf(e.requests, Len(e.requests)) \cup e.reads,
           e.reads \cap PathsOf(e.requests, Len(e.requests)) = {},
           \A i \in 1 .. Len(e.requests) : Truthful(e.requests[i])
    PROVE  /\ engine' \in EngineType /\ fs' \in FsType /\ LinkInv'
           /\ fs'.stage = "asked" /\ engine'.phase \in {"Importing", "ImportCommitting"}
PROOF
<1>0. up' /\ epoch' = epoch /\ Owed' = Owed
  BY DEF Still, Owed
<1>n. NoFs.op = "none" /\ NoFs.stage = "asked"
  BY DEF NoFs
<1> DEFINE P == PathsOf(e.requests, Len(e.requests))
<1>1. CASE e.reads # {}
  <2> DEFINE p == LeastOf(e.reads)
  <2>1. p \in e.reads /\ p \in Paths
    BY <1>1, LeastOfIn DEF EngineType
  <2>2. engine' = [e EXCEPT !.reads = @ \ {p}] /\ fs' = Action("read", p)
    BY <1>1, DriveImport
  <2>3. fs' \in FsType /\ fs'.op = "read" /\ fs'.path = p /\ fs'.stage = "asked"
    BY <2>1, <2>2, ActionTyped
  <2> HIDE DEF p
  <2>4. /\ engine' \in EngineType /\ engine'.phase = "Importing"
        /\ engine'.reads = e.reads \ {p} /\ engine'.requests = e.requests
        /\ engine'.writes = {} /\ engine'.deletes = {}
    BY <2>2 DEF EngineType
  <2>5. /\ Owed = P \cup {p} \cup (e.reads \ {p})
        /\ p \notin (e.reads \ {p}) \cup P
        /\ (e.reads \ {p}) \cap P = {}
    BY <2>1
  <2> HIDE DEF P
  <2>6. Working("CommitImportAction", engine.reads)'
    BY <1>0, <2>3, <2>4, <2>5 DEF Working, P
  <2>7. ProtocolInv'
    BY <1>0, <2>3, <2>4, <2>6 DEF ProtocolInv, IdleInv, ScanningInv, PlanningInv, ImportingInv,
       ImportCommittingInv, AwaitingInv, ProjectingInv, ProjectionCommittingInv, PlanInv
  <2>8. FsInv'
    BY <2>3 DEF FsInv
  <2>9. QueueInv'
    BY <2>4, QueueStill
  <2>10. ResultInv'
    BY <2>4 DEF ResultInv, Unbroken
  <2> QED
    BY <2>3, <2>4, <2>7, <2>8, <2>9, <2>10 DEF LinkInv
<1>2. CASE e.reads = {}
  <2> DEFINE ok == TRUE
             k == Committed(e, "CommitImportEpoch", ok, "ImportCommitting")
  <2>1. engine' = k /\ fs' = NoFs
    BY <1>2, DriveImport
  <2>2. "ImportCommitting" \in Phases /\ k = Committed(e, "CommitImportEpoch", ok, "ImportCommitting") /\ ok \in BOOLEAN
    BY DEF Phases
  <2> HIDE DEF k, ok
  <2>w. Waits(k, e, "ImportCommitting", "CommitImportEpoch", ok, "CommitImportAction")
    BY <2>2, CommittedTyped
  <2>3. /\ k \in EngineType /\ k.phase = "ImportCommitting"
        /\ k.reads = e.reads /\ k.writes = e.writes /\ k.deletes = e.deletes
        /\ Len(k.requests) = Len(e.requests) + 1
        /\ k.requests[Len(k.requests)].type = "CommitImportEpoch"
        /\ k.requests[Len(k.requests)].ok = ok
        /\ Results(k.requests, "CommitImportAction", Len(k.requests) - 1)
        /\ PathsOf(k.requests, Len(k.requests) - 1) = P
        /\ \A i \in 1 .. Len(k.requests) : Truthful(k.requests[i])
    BY <2>w DEF Waits
  <2> HIDE DEF k, P
  <2>4. P = Owed
    BY <1>2 DEF P
  <2>5. Len(e.requests) \in Nat
    BY DEF EngineType
  <2>6. Len(k.requests) > 0
    BY <2>3, <2>5
  <2>7. Committing("import", "CommitImportAction", "CommitImportEpoch")'
    BY <1>0, <2>1, <2>3, <2>4, <2>6 DEF Committing
  <2>8. ProtocolInv'
    BY <1>0, <1>2, <2>1, <2>3, <2>7 DEF ok, ProtocolInv, IdleInv, ScanningInv, PlanningInv,
       ImportingInv, ImportCommittingInv, AwaitingInv, ProjectingInv,
       ProjectionCommittingInv, PlanInv
  <2>9. FsInv'
    BY <1>n, <2>1 DEF FsInv
  <2>10. QueueInv'
    BY <2>1, <2>3, QueueStill
  <2>11. ResultInv'
    BY <2>1, <2>3 DEF ResultInv, Unbroken
  <2> QED
    BY <1>n, <2>1, <2>3, <2>8, <2>9, <2>10, <2>11, EmptyRecords DEF LinkInv
<1> QED
  BY <1>1, <1>2

\* The results of a projection, while nothing they speak of changes.
LEMMA ResultStill ==
    ASSUME NEW p, Still, WrittenTo(p, epoch.result[p], Text(epoch.target[p]))
    PROVE  WrittenTo(p, epoch.result[p], Text(epoch.target[p]))'
BY DEF Still, WrittenTo, Recorded, Seen, Covered, Text

\* The engine sends out p; W and D are what is then left of its plan.
Dispatched(e, p, W, D) ==
    /\ engine' = [e EXCEPT !.writes = W, !.deletes = D]
    /\ W \subseteq e.writes /\ D \subseteq e.deletes /\ p \in e.writes \cup e.deletes
    /\ W \cup D = (e.writes \cup e.deletes) \ {p}
    /\ fs' = Action(IF p \in epoch.deletes THEN "delete" ELSE "write", p)

\* The engine in a projection: the next write or delete, or the commit.
LEMMA ProjectionLinks ==
    ASSUME NEW e \in EngineType, EngineStep(<<e, NoFs>>), Still,
           up, reply' = {}, epoch \in EpochType, epoch.kind = "projection",
           \A p \in Paths : WellFormed(epoch.target[p]),
           e.phase = "Projecting", e.reads = {},
           e.deletes \subseteq epoch.deletes, e.writes \cap epoch.deletes = {},
           Results(e.requests, "CommitProjectionAction", Len(e.requests)),
           Owed = PathsOf(e.requests, Len(e.requests)) \cup e.writes \cup e.deletes,
           (e.writes \cup e.deletes) \cap PathsOf(e.requests, Len(e.requests)) = {},
           \A i \in 1 .. Len(e.requests) : Truthful(e.requests[i]) /\ e.requests[i].ok,
           \A p \in epoch.done \ epoch.deletes :
              WrittenTo(p, epoch.result[p], Text(epoch.target[p]))
    PROVE  /\ engine' \in EngineType /\ fs' \in FsType /\ LinkInv'
           /\ fs'.stage = "asked" /\ engine'.phase \in {"Projecting", "ProjectionCommitting"}
PROOF
<1>0. up' /\ epoch' = epoch /\ Owed' = Owed
  BY DEF Still, Owed
<1>n. NoFs.op = "none" /\ NoFs.stage = "asked"
  BY DEF NoFs
<1>r. \A p \in epoch'.done \ epoch'.deletes :
         WrittenTo(p, epoch.result[p], Text(epoch.target[p]))'
  BY <1>0, ResultStill
<1> DEFINE P == PathsOf(e.requests, Len(e.requests))
<1>1. ASSUME NEW p, NEW W, NEW D, Dispatched(e, p, W, D)
      PROVE  /\ engine' \in EngineType /\ fs' \in FsType /\ LinkInv'
             /\ fs'.stage = "asked" /\ engine'.phase = "Projecting"
  <2> USE <1>1 DEF Dispatched
  <2>1. p \in Paths
    BY DEF EngineType
  <2>2. /\ fs' \in FsType /\ fs'.op \in {"write", "delete"} /\ fs'.path = p
        /\ fs'.stage = "asked" /\ fs'.stat = epoch.stat[p]
        /\ fs'.op = "write" => fs'.text = Text(epoch.target[p])
        /\ fs'.op = "delete" => fs'.text = NoWords
        /\ (fs'.op = "delete") = (p \in epoch.deletes)
    <3>1. CASE p \in epoch.deletes
      <4>1. fs' = Action("delete", p)
        BY <1>1, <3>1
      <4> QED
        BY <4>1, <2>1, <3>1, ActionTyped
    <3>2. CASE p \notin epoch.deletes
      <4>1. fs' = Action("write", p)
        BY <1>1, <3>2
      <4> QED
        BY <4>1, <2>1, <3>2, ActionTyped
    <3> QED
      BY <3>1, <3>2
  <2>3. /\ engine' \in EngineType /\ engine'.phase = "Projecting"
        /\ engine'.reads = {} /\ engine'.requests = e.requests
        /\ engine'.writes = W /\ engine'.deletes = D
    BY <1>1 DEF EngineType
  <2>4. /\ Owed = P \cup {p} \cup (W \cup D)
        /\ p \notin (W \cup D) \cup P
        /\ (W \cup D) \cap P = {}
    BY <1>1
  <2> HIDE DEF P
  <2>5. Working("CommitProjectionAction", engine.writes \cup engine.deletes)'
    BY <1>0, <2>2, <2>3, <2>4 DEF Working, P
  <2>6. D \subseteq epoch.deletes /\ W \cap epoch.deletes = {}
    BY <1>1
  <2>7. ProtocolInv'
    BY <1>0, <2>2, <2>3, <2>5, <2>6 DEF ProtocolInv, IdleInv, ScanningInv, PlanningInv,
       ImportingInv, ImportCommittingInv, AwaitingInv, ProjectingInv,
       ProjectionCommittingInv, PlanInv
  <2>8. FsInv'
    <3>1. Text(epoch.target[fs.path])' = Text(epoch.target[p])
      BY <1>0, <2>2 DEF Text
    <3>2. epoch'.stat[fs'.path] = epoch.stat[p]
      BY <1>0, <2>2
    <3> QED
      BY <2>2, <3>1, <3>2 DEF FsInv
  <2>9. QueueInv'
    BY <2>3, QueueStill
  <2>10. ResultInv'
    BY <1>r, <2>3 DEF ResultInv
  <2> QED
    BY <2>2, <2>3, <2>7, <2>8, <2>9, <2>10 DEF LinkInv
<1>2. CASE e.writes # {}
  <2> DEFINE p == LeastOf(e.writes)
  <2>1. p \in e.writes
    BY <1>2, LeastOfIn DEF EngineType
  <2>2. engine' = [e EXCEPT !.writes = @ \ {p}] /\ fs' = Action("write", p)
    BY <1>2, DriveProjection
  <2> HIDE DEF p
  <2>3. engine' = [e EXCEPT !.writes = e.writes \ {p}, !.deletes = e.deletes]
    BY <2>2 DEF EngineType
  <2>4. p \notin epoch.deletes /\ e.writes \cap e.deletes = {}
    BY <2>1
  <2>5. (e.writes \ {p}) \cup e.deletes = (e.writes \cup e.deletes) \ {p}
    BY <2>1, <2>4
  <2>6. fs' = Action(IF p \in epoch.deletes THEN "delete" ELSE "write", p)
    BY <2>2, <2>4
  <2>7. e.writes \ {p} \subseteq e.writes /\ p \in e.writes \cup e.deletes
    BY <2>1
  <2>8. Dispatched(e, p, e.writes \ {p}, e.deletes)
    BY <2>3, <2>5, <2>6, <2>7 DEF Dispatched
  <2> QED
    BY <1>1, <2>8
<1>3. CASE e.writes = {} /\ e.deletes # {}
  <2> DEFINE p == LeastOf(e.deletes)
  <2>1. p \in e.deletes
    BY <1>3, LeastOfIn DEF EngineType
  <2>2. engine' = [e EXCEPT !.deletes = @ \ {p}] /\ fs' = Action("delete", p)
    BY <1>3, DriveProjection
  <2> HIDE DEF p
  <2>3. engine' = [e EXCEPT !.writes = e.writes, !.deletes = e.deletes \ {p}]
    BY <1>3, <2>2 DEF EngineType
  <2>4. p \in epoch.deletes
    BY <2>1
  <2>5. e.writes \cup (e.deletes \ {p}) = (e.writes \cup e.deletes) \ {p}
    BY <1>3
  <2>6. fs' = Action(IF p \in epoch.deletes THEN "delete" ELSE "write", p)
    BY <2>2, <2>4
  <2>7. e.writes \subseteq e.writes /\ e.deletes \ {p} \subseteq e.deletes /\ p \in e.writes \cup e.deletes
    BY <2>1
  <2>8. Dispatched(e, p, e.writes, e.deletes \ {p})
    BY <2>3, <2>5, <2>6, <2>7 DEF Dispatched
  <2> QED
    BY <1>1, <2>8
<1>4. CASE e.writes = {} /\ e.deletes = {}
  <2> DEFINE ok == TRUE
             k == Committed(e, "CommitProjectionEpoch", ok, "ProjectionCommitting")
             n == Len(e.requests)
  <2>1. engine' = k /\ fs' = NoFs
    BY <1>4, DriveProjection
  <2>2. /\ "ProjectionCommitting" \in Phases
        /\ k = Committed(e, "CommitProjectionEpoch", ok, "ProjectionCommitting") /\ ok \in BOOLEAN
    BY DEF Phases
  <2> HIDE DEF k, ok
  <2>w. Waits(k, e, "ProjectionCommitting", "CommitProjectionEpoch", ok, "CommitProjectionAction")
    BY <2>2, CommittedTyped
  <2>3. /\ k \in EngineType /\ k.phase = "ProjectionCommitting"
        /\ k.reads = e.reads /\ k.writes = e.writes /\ k.deletes = e.deletes
        /\ Len(k.requests) = n + 1
        /\ \A i \in 1 .. n : k.requests[i] = e.requests[i]
        /\ k.requests[Len(k.requests)].type = "CommitProjectionEpoch"
        /\ k.requests[Len(k.requests)].ok = ok
        /\ Results(k.requests, "CommitProjectionAction", Len(k.requests) - 1)
        /\ PathsOf(k.requests, Len(k.requests) - 1) = P
        /\ \A i \in 1 .. Len(k.requests) : Truthful(k.requests[i])
    BY <2>w DEF Waits
  <2>4. P = Owed
    BY <1>4 DEF P
  <2>5. n \in Nat
    BY DEF EngineType
  <2> HIDE DEF k, P, n
  <2>6. Len(k.requests) > 0 /\ \A i \in 1 .. Len(k.requests) : i \in 1 .. n \/ i = Len(k.requests)
    BY <2>3, <2>5
  <2>7. Committing("projection", "CommitProjectionAction", "CommitProjectionEpoch")'
    BY <1>0, <2>1, <2>3, <2>4, <2>6 DEF Committing
  <2>8. ProtocolInv'
    BY <1>0, <1>4, <2>1, <2>3, <2>7 DEF ProtocolInv, IdleInv, ScanningInv, PlanningInv,
       ImportingInv, ImportCommittingInv, AwaitingInv, ProjectingInv,
       ProjectionCommittingInv, PlanInv
  <2>9. FsInv'
    BY <1>n, <2>1 DEF FsInv
  <2>10. QueueInv'
    BY <2>1, <2>3, QueueStill
  <2>11. \A i \in 1 .. Len(k.requests) : k.requests[i].ok
    BY <2>3, <2>6 DEF n, ok
  <2>12. ResultInv'
    BY <1>r, <2>1, <2>11 DEF ResultInv
  <2> QED
    BY <1>n, <2>1, <2>3, <2>8, <2>9, <2>10, <2>12, EmptyRecords DEF LinkInv
<1> QED
  BY <1>2, <1>3, <1>4

\* The engine after a conflict gives the epoch up.
LEMMA DrainLinks ==
    ASSUME NEW e \in EngineType, EngineStep(<<e, NoFs>>), Still,
           up, reply' = {}, epoch \in EpochType, epoch.kind = "projection",
           e.phase = "Draining", e.reads = {}, e.writes = {}, e.deletes = {},
           Results(e.requests, "CommitProjectionAction", Len(e.requests)),
           PathsOf(e.requests, Len(e.requests)) \subseteq Owed,
           \A i \in 1 .. Len(e.requests) : Truthful(e.requests[i])
    PROVE  /\ engine' \in EngineType /\ fs' \in FsType /\ LinkInv'
           /\ fs'.stage = "asked" /\ engine'.phase = "ProjectionCommitting"
PROOF
<1>0. up' /\ epoch' = epoch /\ Owed' = Owed
  BY DEF Still, Owed
<1>n. NoFs.op = "none" /\ NoFs.stage = "asked"
  BY DEF NoFs
<1> DEFINE ok == FALSE
           k == Committed(e, "CommitProjectionEpoch", ok, "ProjectionCommitting")
           P == PathsOf(e.requests, Len(e.requests))
<1>1. engine' = k /\ fs' = NoFs
  BY DriveDrain
<1>2. /\ "ProjectionCommitting" \in Phases
      /\ k = Committed(e, "CommitProjectionEpoch", ok, "ProjectionCommitting") /\ ok \in BOOLEAN
  BY DEF Phases
<1> HIDE DEF k, ok
<1>w. Waits(k, e, "ProjectionCommitting", "CommitProjectionEpoch", ok, "CommitProjectionAction")
  BY <1>2, CommittedTyped
<1>3. /\ k \in EngineType /\ k.phase = "ProjectionCommitting"
      /\ k.reads = e.reads /\ k.writes = e.writes /\ k.deletes = e.deletes
      /\ Len(k.requests) = Len(e.requests) + 1
      /\ k.requests[Len(k.requests)].type = "CommitProjectionEpoch"
      /\ k.requests[Len(k.requests)].ok = ok
      /\ Results(k.requests, "CommitProjectionAction", Len(k.requests) - 1)
      /\ PathsOf(k.requests, Len(k.requests) - 1) = P
      /\ \A i \in 1 .. Len(k.requests) : Truthful(k.requests[i])
  BY <1>w DEF Waits
<1>4. Len(e.requests) \in Nat
  BY DEF EngineType
<1>5. P \subseteq Owed
  OBVIOUS
<1> HIDE DEF k, P
<1>6. Len(k.requests) > 0
  BY <1>3, <1>4
<1>7. Committing("projection", "CommitProjectionAction", "CommitProjectionEpoch")'
  BY <1>0, <1>1, <1>3, <1>5, <1>6 DEF Committing, ok
<1>8. ProtocolInv'
  BY <1>0, <1>1, <1>3, <1>7 DEF ProtocolInv, IdleInv, ScanningInv, PlanningInv,
     ImportingInv, ImportCommittingInv, AwaitingInv, ProjectingInv,
     ProjectionCommittingInv, PlanInv
<1>9. FsInv'
  BY <1>n, <1>1 DEF FsInv
<1>10. QueueInv'
  BY <1>1, <1>3, QueueStill
<1>11. ResultInv'
  BY <1>1, <1>3 DEF ResultInv, Unbroken, ok
<1> QED
  BY <1>n, <1>1, <1>3, <1>8, <1>9, <1>10, <1>11, EmptyRecords DEF LinkInv
-----------------------------------------------------------------------------
(* The engine's actions.                                                   *)

\* The inductive invariant.
Inv == Types /\ CycleInv

\* A filesystem request is in flight in the phase that waits for it.
LEMMA PhaseOfFs ==
    ASSUME Types, ProtocolInv
    PROVE  /\ fs.op = "scan" => engine.phase = "Scanning"
           /\ fs.op = "read" => engine.phase = "Importing"
           /\ fs.op \in {"write", "delete"} => engine.phase = "Projecting"
           /\ fs.op = "none" => fs.stage = "asked"
           /\ fs.op # "none" => up
PROOF
<1>1. engine.phase \in Phases
  BY DEF Types, EngineType
<1>2. NoFs.op = "none" /\ NoFs.stage = "asked"
  BY DEF NoFs
<1>3. ~up => engine.phase = "Scanning"
  BY DEF ProtocolInv, PlanInv, EngineAtStart
<1>4. CASE engine.phase = "Idle"
  BY <1>2, <1>3, <1>4 DEF ProtocolInv, IdleInv
<1>5. CASE engine.phase = "AwaitingNextWork"
  BY <1>2, <1>3, <1>5 DEF ProtocolInv, AwaitingInv
<1>6. CASE engine.phase = "Scanning"
  BY <1>2, <1>6 DEF ProtocolInv, ScanningInv
<1>7. CASE engine.phase = "PlanningImport"
  BY <1>2, <1>3, <1>7 DEF ProtocolInv, PlanningInv
<1>8. CASE engine.phase = "Importing"
  BY <1>3, <1>8 DEF ProtocolInv, ImportingInv
<1>9. CASE engine.phase = "ImportCommitting"
  BY <1>2, <1>3, <1>9 DEF ProtocolInv, ImportCommittingInv, Committing
<1>10. CASE engine.phase = "Projecting"
  BY <1>3, <1>10 DEF ProtocolInv, ProjectingInv
<1>11. CASE engine.phase = "ProjectionCommitting"
  BY <1>2, <1>3, <1>11 DEF ProtocolInv, ProjectionCommittingInv, Committing
<1>12. engine.phase # "Draining"
  BY DEF ProtocolInv, PlanInv
<1> QED
  BY <1>1, <1>4, <1>5, <1>6, <1>7, <1>8, <1>9, <1>10, <1>11, <1>12 DEF Phases

\* A reply finds the engine waiting for it, and nothing else under way.
LEMMA PhaseOfReply ==
    ASSUME Types, ProtocolInv, NEW r \in reply
    PROVE  /\ reply = {r} /\ engine.requests = <<>> /\ fs = NoFs
           /\ engine.reads = {} /\ engine.writes = {} /\ engine.deletes = {}
           /\ r.type = "ApplyScan" => engine.phase = "PlanningImport"
           /\ r.type = "GetNextWork" => engine.phase = "AwaitingNextWork"
           /\ r.type \in {"CommitImportEpoch", "CommitProjectionEpoch"} =>
                 /\ engine.phase \in {"ImportCommitting", "ProjectionCommitting"}
                 /\ epoch = NoEpoch
           /\ r.type = "CommitImportEpoch" => engine.phase = "ImportCommitting"
           /\ r.type = "CommitProjectionEpoch" => engine.phase = "ProjectionCommitting"
PROOF
<1>1. engine.phase \in Phases
  BY DEF Types, EngineType
<1>2. engine.phase \notin {"Idle", "Scanning", "Importing", "Projecting", "Draining"}
  BY DEF ProtocolInv, IdleInv, ScanningInv, ImportingInv, ProjectingInv, Working, PlanInv
<1>3. engine.reads = {} /\ engine.writes = {} /\ engine.deletes = {}
  BY <1>2 DEF ProtocolInv, PlanInv
<1>4. CASE engine.phase = "AwaitingNextWork"
  BY <1>3, <1>4 DEF ProtocolInv, AwaitingInv, Asking, Answered
<1>5. CASE engine.phase = "PlanningImport"
  BY <1>3, <1>5 DEF ProtocolInv, PlanningInv, Asking, Answered
<1>6. CASE engine.phase = "ImportCommitting"
  BY <1>3, <1>6 DEF ProtocolInv, ImportCommittingInv, Committing, Answered
<1>7. CASE engine.phase = "ProjectionCommitting"
  BY <1>3, <1>7 DEF ProtocolInv, ProjectionCommittingInv, Committing, Answered
<1> QED
  BY <1>1, <1>2, <1>4, <1>5, <1>6, <1>7 DEF Phases

\* What an engine step leaves alone stays true.
LEMMA EngineFrame ==
    ASSUME Inv, UNCHANGED <<up, disk, user, stable, prior, intents, staged, epoch>>,
           count' \in CountType, count'.edits = count.edits, changed' \in BOOLEAN,
           engine' \in EngineType, fs' \in FsType, reply' \in SUBSET ReplyType,
           LinkInv', fs'.stage = "asked" \/ UNCHANGED fs, QuietInv'
    PROVE  Inv'
PROOF
<1>1. Types'
  BY DEF Inv, Types
<1>2. DocInv'
  BY DEF Inv, CycleInv, DocInv, OpIdsUnique, RowInv, TargetInv, WellFormed
<1>3. TablesInv' /\ ExpectInv'
  BY DEF Inv, CycleInv, HonestInv, TablesInv, ExpectInv, Seen, Covered, Recorded, Text
<1>4. HonestInv' /\ ProtocolInv'
  BY <1>3 DEF LinkInv, HonestInv
<1>5. WordsInv'
  BY DEF Inv, CycleInv, WordsInv, AsExpected
<1>6. NoSpuriousRemoval' /\ (QuietSwap => NoUserEditLost)'
  BY DEF Inv, CycleInv, NoSpuriousRemoval, NoUserEditLost
<1> QED
  BY <1>1, <1>2, <1>4, <1>5, <1>6 DEF Inv, CycleInv

\* Asking for a scan, or marking a change, disturbs nothing that is under way.
LEMMA MarkLinks ==
    ASSUME Inv, Still, UNCHANGED <<fs, reply>>, engine' \in EngineType,
           engine'.phase = engine.phase, engine'.requests = engine.requests,
           engine'.reads = engine.reads, engine'.writes = engine.writes,
           engine'.deletes = engine.deletes, up
    PROVE  LinkInv'
PROOF
<1>1. ProtocolInv'
  <2> USE DEF Still
  <2>0. up' /\ Owed' = Owed
    BY DEF Owed
  <2>1. IdleInv' /\ ScanningInv' /\ PlanningInv' /\ AwaitingInv'
    BY DEF Inv, CycleInv, ProtocolInv, IdleInv, ScanningInv, PlanningInv, AwaitingInv,
       Asking, Answered
  <2>2. ImportingInv' /\ ProjectingInv'
    BY <2>0 DEF Inv, CycleInv, ProtocolInv, ImportingInv, ProjectingInv, Working
  <2>3. ImportCommittingInv' /\ ProjectionCommittingInv'
    BY <2>0 DEF Inv, CycleInv, ProtocolInv, ImportCommittingInv, ProjectionCommittingInv,
       Committing, Answered
  <2>4. PlanInv'
    BY <2>0 DEF Inv, CycleInv, ProtocolInv, PlanInv
  <2> QED
    BY <2>1, <2>2, <2>3, <2>4 DEF ProtocolInv
<1>2. FsInv'
  BY DEF Inv, CycleInv, HonestInv, FsInv, Still, ReadOf, Recorded, Seen, Covered, Text
<1>3. QueueInv'
  BY QueueStill DEF Inv, CycleInv, HonestInv, QueueInv
<1>4. ResultInv'
  <2>1. Unbroken' = Unbroken
    BY DEF Unbroken
  <2>2. ASSUME Unbroken, NEW p \in epoch'.done \ epoch'.deletes
        PROVE  WrittenTo(p, epoch.result[p], Text(epoch.target[p]))'
    <3>1. p \in epoch.done \ epoch.deletes
      BY DEF Still
    <3>2. WrittenTo(p, epoch.result[p], Text(epoch.target[p]))
      BY <2>2, <3>1 DEF Inv, CycleInv, HonestInv, ResultInv
    <3> QED
      BY <3>2, ResultStill
  <2>3. Unbroken => \A i \in 1 .. Len(engine'.requests) : engine'.requests[i].ok
    BY DEF Inv, CycleInv, HonestInv, ResultInv
  <2> QED
    BY <2>1, <2>2, <2>3 DEF ResultInv
<1> QED
  BY <1>1, <1>2, <1>3, <1>4 DEF LinkInv

\* The parts of the invariant that the engine's steps use.
LEMMA InvParts ==
    ASSUME Inv
    PROVE  /\ Types /\ ProtocolInv /\ DocInv /\ TablesInv /\ ExpectInv
           /\ FsInv /\ QueueInv /\ ResultInv /\ WordsInv /\ QuietInv /\ LinkInv
           /\ engine \in EngineType /\ fs \in FsType /\ epoch \in EpochType
           /\ reply \in SUBSET ReplyType /\ count \in CountType
           /\ epoch.done \subseteq epoch.expected
BY DEF Inv, CycleInv, Types, HonestInv, LinkInv

\* Coalescing changes the pending scan only.
LEMMA CoalescedTyped ==
    ASSUME NEW e \in EngineType, NEW scope \in SUBSET Paths
    PROVE  /\ Coalesced(e, scope) \in EngineType
           /\ Coalesced(e, scope).phase = e.phase /\ Coalesced(e, scope).dirty = e.dirty
           /\ Coalesced(e, scope).requests = e.requests
           /\ Coalesced(e, scope).reads = e.reads /\ Coalesced(e, scope).writes = e.writes
           /\ Coalesced(e, scope).deletes = e.deletes
BY DEF Coalesced, EngineType

\* No phase with a plan is without filesystem work between two steps.
LEMMA NothingToDrive ==
    ASSUME Inv, NEW e, e.phase = engine.phase, EngineStep(<<e, fs>>)
    PROVE  engine' = e /\ fs' = fs
PROOF
<1>1. fs.op # "none" \/ engine.phase \notin {"Importing", "Projecting", "Draining"}
  BY InvParts DEF ProtocolInv, ImportingInv, ProjectingInv, PlanInv
<1> QED
  BY <1>1, DriveRests DEF EngineStep

\* The answer "no work" that the engine has, or has acted on, stays true while the
\* tables do not change.
LEMMA QuietStill ==
    ASSUME Inv, UNCHANGED <<up, stable, prior>>,
           engine'.phase \notin {"Idle", "AwaitingNextWork"}
              \/ (engine'.phase = "AwaitingNextWork" /\ (reply' = {} \/ engine'.dirty))
              \/ (UNCHANGED <<changed, reply>> /\ engine'.phase = engine.phase
                    /\ engine'.dirty = engine.dirty)
    PROVE  QuietInv'
PROOF
<1>1. ToWrite' = ToWrite /\ ToDelete' = ToDelete
  BY DEF ToWrite, ToDelete
<1>2. QuietInv
  BY InvParts
<1> QED
  BY <1>1, <1>2 DEF QuietInv

\* Any scan request preserves the invariant.
LEMMA ScanRequested ==
    ASSUME Inv, up, NEW scope \in SUBSET Paths, EngineStep(RequestScan(engine, fs, scope)),
           UNCHANGED <<up, disk, user, stable, prior, intents, staged, epoch, reply, changed>>,
           count' \in CountType, count'.edits = count.edits
    PROVE  Inv'
PROOF
<1> DEFINE e == Coalesced(engine, scope)
<1>0. Still /\ changed' \in BOOLEAN /\ reply' \in SUBSET ReplyType
  BY DEF Still, Inv, Types
<1>1. /\ e \in EngineType /\ e.phase = engine.phase /\ e.dirty = engine.dirty
      /\ e.requests = engine.requests /\ e.reads = engine.reads /\ e.writes = engine.writes
      /\ e.deletes = engine.deletes
  BY InvParts, CoalescedTyped
<1>2. CASE engine.phase = "Idle"
  <2>1. EngineStep(EnterBoundary(e))
    BY <1>2 DEF RequestScan
  <2>2. /\ engine.requests = <<>> /\ reply = {} /\ epoch = NoEpoch
        /\ engine.reads = {} /\ engine.writes = {} /\ engine.deletes = {}
    BY <1>2, InvParts DEF ProtocolInv, IdleInv, PlanInv
  <2> HIDE DEF e
  <2>3. /\ engine' \in EngineType /\ fs' \in FsType /\ LinkInv'
        /\ fs'.stage = "asked" /\ engine'.phase \in {"Scanning", "AwaitingNextWork"}
    BY <1>0, <1>1, <2>1, <2>2, BoundaryLinks
  <2>4. QuietInv'
    BY <2>2, <2>3, QuietStill
  <2> QED
    BY <1>0, <2>3, <2>4, EngineFrame
<1>3. CASE engine.phase # "Idle"
  <2>1. EngineStep(<<e, fs>>)
    BY <1>3 DEF RequestScan
  <2> HIDE DEF e
  <2>2. engine' = e /\ fs' = fs
    BY <1>1, <2>1, NothingToDrive
  <2>3. LinkInv'
    BY <1>0, <1>1, <2>2, MarkLinks
  <2>4. QuietInv'
    BY <1>1, <2>2, QuietStill
  <2> QED
    BY <1>0, <1>1, <2>2, <2>3, <2>4, InvParts, EngineFrame
<1> QED
  BY <1>2, <1>3

\* The full-scan timer, which only an idle engine follows.
LEMMA FullScanTimerInv ==
    ASSUME Inv, FullScanTimer
    PROVE  Inv'
PROOF
<1>1. /\ up /\ EngineStep(RequestScan(engine, fs, Paths))
      /\ UNCHANGED <<up, disk, user, stable, prior, intents, staged, epoch, reply, changed>>
      /\ UNCHANGED count
  BY DEF FullScanTimer, userVars, dbVars
<1>2. count' \in CountType /\ count'.edits = count.edits
  BY <1>1, InvParts
<1> QED
  BY <1>1, <1>2, ScanRequested

\* A hint of the watcher or a scan command.
LEMMA ScanCommandInv ==
    ASSUME Inv, NEW scope \in {Paths} \cup {{p} : p \in Paths}, ScanCommand(scope)
    PROVE  Inv'
PROOF
<1>1. /\ up /\ EngineStep(RequestScan(engine, fs, scope))
      /\ UNCHANGED <<up, disk, user, stable, prior, intents, staged, epoch, reply, changed>>
      /\ count' = [count EXCEPT !.hints = @ + 1]
  BY DEF ScanCommand, userVars, dbVars
<1>2. count' \in CountType /\ count'.edits = count.edits
  BY <1>1, InvParts DEF CountType
<1> QED
  BY <1>1, <1>2, ScanRequested

\* A change of stable asks for next work, now or once the answer is there.
LEMMA OnProjectionChangedInv ==
    ASSUME Inv, OnProjectionChanged
    PROVE  Inv'
PROOF
<1>1. /\ up /\ changed' = FALSE
      /\ UNCHANGED <<up, disk, user, stable, prior, intents, staged, epoch, reply, count>>
  BY DEF OnProjectionChanged, userVars, dbVars
<1>0. /\ Still /\ changed' \in BOOLEAN /\ reply' \in SUBSET ReplyType
      /\ count' \in CountType /\ count'.edits = count.edits
  BY <1>1, InvParts DEF Still
<1>2. CASE engine.phase = "Idle"
  <2>1. EngineStep(EnterBoundary(engine))
    BY <1>2 DEF OnProjectionChanged
  <2>2. /\ engine.requests = <<>> /\ reply = {} /\ epoch = NoEpoch
        /\ engine.reads = {} /\ engine.writes = {} /\ engine.deletes = {}
    BY <1>2, InvParts DEF ProtocolInv, IdleInv, PlanInv
  <2>3. /\ engine' \in EngineType /\ fs' \in FsType /\ LinkInv'
        /\ fs'.stage = "asked" /\ engine'.phase \in {"Scanning", "AwaitingNextWork"}
    BY <1>0, <1>1, <2>1, <2>2, InvParts, BoundaryLinks
  <2>4. QuietInv'
    BY <1>1, <2>2, <2>3, QuietStill
  <2> QED
    BY <1>0, <1>1, <2>3, <2>4, EngineFrame
<1>3. CASE engine.phase = "AwaitingNextWork"
  <2> DEFINE e == [engine EXCEPT !.dirty = TRUE]
  <2>1. EngineStep(<<e, fs>>)
    BY <1>3 DEF OnProjectionChanged
  <2>2. engine \in EngineType
    BY InvParts
  <2>3. /\ e \in EngineType /\ e.phase = engine.phase /\ e.dirty
        /\ e.requests = engine.requests /\ e.reads = engine.reads
        /\ e.writes = engine.writes /\ e.deletes = engine.deletes
    BY <2>2 DEF EngineType
  <2> HIDE DEF e
  <2>4. engine' = e /\ fs' = fs
    BY <2>1, <2>3, NothingToDrive
  <2>5. LinkInv'
    BY <1>0, <1>1, <2>3, <2>4, MarkLinks
  <2>6. QuietInv'
    BY <1>1, <1>3, <2>3, <2>4, QuietStill
  <2> QED
    BY <1>0, <1>1, <2>3, <2>4, <2>5, <2>6, InvParts, EngineFrame
<1>4. CASE engine.phase \notin {"Idle", "AwaitingNextWork"}
  <2>1. EngineStep(<<engine, fs>>)
    BY <1>4 DEF OnProjectionChanged
  <2>2. engine' = engine /\ fs' = fs
    BY <2>1, NothingToDrive
  <2>3. LinkInv'
    BY <1>0, <1>1, <2>2, InvParts, MarkLinks
  <2>4. QuietInv'
    BY <1>1, <1>4, <2>2, QuietStill
  <2> QED
    BY <1>0, <1>1, <2>2, <2>3, <2>4, InvParts, EngineFrame
<1> QED
  BY <1>2, <1>3, <1>4

\* The result of a scan goes to the semantic actor.
LEMMA OnScanDoneInv ==
    ASSUME Inv, OnScanDone
    PROVE  Inv'
PROOF
<1> DEFINE r == [Request("ApplyScan", 0, NoWords, 0, TRUE) EXCEPT
                    !.scope = fs.scope, !.seen = fs.seen]
           s == Send(engine, r)
           e == [s EXCEPT !.phase = "PlanningImport"]
<1>1. /\ up /\ fs.op = "scan"
      /\ UNCHANGED <<up, disk, user, stable, prior, intents, staged, epoch, reply, changed, count>>
      /\ EngineStep(<<e, NoFs>>)
  BY DEF OnScanDone, Done, userVars, dbVars
<1>0. /\ Still /\ changed' \in BOOLEAN /\ reply' \in SUBSET ReplyType
      /\ count' \in CountType /\ count'.edits = count.edits
  BY <1>1, InvParts DEF Still, Inv, Types
<1>2. engine.phase = "Scanning"
  BY <1>1, InvParts, PhaseOfFs
<1>3. /\ engine.requests = <<>> /\ reply = {} /\ epoch = NoEpoch
      /\ engine.reads = {} /\ engine.writes = {} /\ engine.deletes = {}
  BY <1>2, InvParts DEF ProtocolInv, ScanningInv, PlanInv
<1>4. fs.scope \in SUBSET Paths /\ fs.seen \in Stats
  BY InvParts DEF FsType
<1>5. r \in RequestType /\ r.type = "ApplyScan"
  BY <1>4, Blank DEF Request, RequestType, RequestTypes, ReplyTypes
<1> HIDE DEF r
<1>6. /\ s \in EngineType /\ s.requests = Append(<<>>, r)
      /\ s.reads = {} /\ s.writes = {} /\ s.deletes = {}
  BY <1>3, <1>5, InvParts, SendTyped
<1> HIDE DEF s
<1>7. /\ e \in EngineType /\ e.requests = Append(<<>>, r) /\ e.phase = "PlanningImport"
      /\ e.reads = {} /\ e.writes = {} /\ e.deletes = {}
  BY <1>6 DEF EngineType, Phases
<1> HIDE DEF e
<1>8. engine' = e /\ fs' = NoFs
  BY <1>1, <1>7, DriveRests DEF EngineStep
<1>9. Len(engine'.requests) = 1 /\ engine'.requests[1] = r
  BY <1>5, <1>7, <1>8
<1>10. ProtocolInv'
  BY <1>1, <1>3, <1>5, <1>7, <1>8, <1>9 DEF ProtocolInv, IdleInv, ScanningInv, PlanningInv,
     ImportingInv, ImportCommittingInv, AwaitingInv, ProjectingInv,
     ProjectionCommittingInv, PlanInv, Asking
<1>11. NoFs \in FsType /\ NoFs.op = "none" /\ NoFs.stage = "asked"
  BY EmptyRecords DEF NoFs
<1>12. FsInv'
  BY <1>8, <1>11 DEF FsInv
<1>13. QueueInv'
  <2>1. \A i \in 1 .. Len(engine'.requests) : engine'.requests[i] = r
    BY <1>9
  <2>2. \A i \in 1 .. Len(engine'.requests) : Truthful(engine.requests[i])'
    BY <2>1, <1>5 DEF Truthful
  <2> QED
    BY <2>2 DEF QueueInv
<1>14. ResultInv'
  BY <1>7, <1>8 DEF ResultInv, Unbroken
<1>15. LinkInv'
  BY <1>10, <1>12, <1>13, <1>14 DEF LinkInv
<1>16. QuietInv'
  BY <1>1, <1>7, <1>8, QuietStill
<1> QED
  BY <1>0, <1>1, <1>7, <1>8, <1>11, <1>15, <1>16, EngineFrame

\* The result of a read goes into the queue, and the next read or the commit follows.
LEMMA OnReadDoneInv ==
    ASSUME Inv, OnReadDone
    PROVE  Inv'
PROOF
<1> DEFINE b == IF fs.ok THEN engine ELSE Coalesced(engine, Paths)
           r == Request("CommitImportAction", fs.path, fs.text, fs.stat, fs.ok)
           e == Send(b, r)
           n == Len(engine.requests)
<1>1. /\ up /\ fs.op = "read" /\ fs.stage = "done"
      /\ UNCHANGED <<up, disk, user, stable, prior, intents, staged, epoch, reply, changed, count>>
      /\ EngineStep(<<e, NoFs>>)
  BY DEF OnReadDone, Done, userVars, dbVars
<1>0. /\ Still /\ changed' \in BOOLEAN /\ reply' \in SUBSET ReplyType
      /\ count' \in CountType /\ count'.edits = count.edits
  BY <1>1, InvParts DEF Still, Inv, Types
<1>2. engine.phase = "Importing"
  BY <1>1, InvParts, PhaseOfFs
<1>3. /\ epoch.kind = "import" /\ Working("CommitImportAction", engine.reads)
      /\ engine.writes = {} /\ engine.deletes = {}
  BY <1>2, InvParts DEF ProtocolInv, ImportingInv, PlanInv
<1>4. r \in RequestType /\ r.type = "CommitImportAction" /\ r.path = fs.path
      /\ r.text = fs.text /\ r.stat = fs.stat /\ r.ok = fs.ok
  <2>1. fs.path \in {0} \cup Paths /\ fs.text \in Texts /\ fs.stat \in Nat /\ fs.ok \in BOOLEAN
    BY InvParts DEF FsType
  <2> QED
    BY <2>1, Blank DEF Request, RequestType, RequestTypes, ReplyTypes
<1>5. Truthful(r)
  BY <1>1, <1>4, InvParts DEF FsInv, Truthful
<1>6. /\ b \in EngineType /\ b.phase = "Importing" /\ b.requests = engine.requests
      /\ b.reads = engine.reads /\ b.writes = {} /\ b.deletes = {}
  BY <1>2, <1>3, InvParts, CoalescedTyped
<1> HIDE DEF r, b
<1>7. /\ e \in EngineType /\ e.requests = Append(engine.requests, r) /\ e.phase = "Importing"
      /\ e.reads = engine.reads /\ e.writes = {} /\ e.deletes = {}
  BY <1>4, <1>6, SendTyped
<1> HIDE DEF e
<1>8. engine.requests \in Seq(RequestType) /\ n \in Nat
  BY InvParts DEF EngineType
<1>9. /\ Results(engine.requests, "CommitImportAction", n)
      /\ Owed = PathsOf(engine.requests, n) \cup {fs.path} \cup engine.reads
      /\ fs.path \notin engine.reads \cup PathsOf(engine.requests, n)
      /\ engine.reads \cap PathsOf(engine.requests, n) = {}
      /\ reply = {}
  BY <1>3 DEF Working
<1>10. /\ Len(e.requests) = n + 1
       /\ Results(e.requests, "CommitImportAction", n + 1)
       /\ PathsOf(e.requests, n + 1) = PathsOf(engine.requests, n) \cup {fs.path}
  BY <1>4, <1>7, <1>8, <1>9, AppendResult
<1>11. \A i \in 1 .. Len(e.requests) : Truthful(e.requests[i])
  <2>1. \A i \in 1 .. n : Truthful(engine.requests[i])
    BY InvParts DEF QueueInv
  <2>2. /\ e.requests[n + 1] = r
        /\ \A i \in 1 .. n : e.requests[i] = engine.requests[i]
    BY <1>4, <1>7, <1>8, AppendCommit
  <2> HIDE DEF n
  <2>3. \A i \in 1 .. n + 1 : i \in 1 .. n \/ i = n + 1
    BY <1>8
  <2> QED
    BY <1>5, <1>10, <2>1, <2>2, <2>3
<1> HIDE DEF n
<1>12. /\ Owed = PathsOf(e.requests, Len(e.requests)) \cup e.reads
       /\ e.reads \cap PathsOf(e.requests, Len(e.requests)) = {}
  BY <1>7, <1>9, <1>10
<1>13. /\ engine' \in EngineType /\ fs' \in FsType /\ LinkInv'
       /\ fs'.stage = "asked" /\ engine'.phase \in {"Importing", "ImportCommitting"}
  BY <1>0, <1>1, <1>3, <1>7, <1>9, <1>10, <1>11, <1>12, InvParts, ImportLinks
<1>14. QuietInv'
  BY <1>1, <1>13, QuietStill
<1> QED
  BY <1>0, <1>1, <1>13, <1>14, EngineFrame

\* The result of a write or a delete goes into the queue; a conflict ends the plan.
LEMMA OnProjectionDoneInv ==
    ASSUME Inv, OnProjectionDone
    PROVE  Inv'
PROOF
<1> DEFINE c == Coalesced(engine, Paths)
           b == IF fs.ok THEN engine
                ELSE [c EXCEPT !.phase = "Draining", !.writes = {}, !.deletes = {}]
           r == Request("CommitProjectionAction", fs.path, fs.text, fs.stat, fs.ok)
           e == Send(b, r)
           n == Len(engine.requests)
<1>1. /\ up /\ fs.op \in {"write", "delete"} /\ fs.stage = "done"
      /\ UNCHANGED <<up, disk, user, stable, prior, intents, staged, epoch, reply, changed, count>>
      /\ EngineStep(<<e, NoFs>>)
  BY DEF OnProjectionDone, Done, userVars, dbVars
<1>0. /\ Still /\ changed' \in BOOLEAN /\ reply' \in SUBSET ReplyType
      /\ count' \in CountType /\ count'.edits = count.edits
  BY <1>1, InvParts DEF Still, Inv, Types
<1>2. engine.phase = "Projecting"
  BY <1>1, InvParts, PhaseOfFs
<1>3. /\ epoch.kind = "projection" /\ engine.reads = {}
      /\ (fs.op = "delete") = (fs.path \in epoch.deletes)
      /\ engine.deletes \subseteq epoch.deletes /\ engine.writes \cap epoch.deletes = {}
      /\ Working("CommitProjectionAction", engine.writes \cup engine.deletes)
  BY <1>2, InvParts DEF ProtocolInv, ProjectingInv, PlanInv
<1>4. /\ r \in RequestType /\ r.type = "CommitProjectionAction" /\ r.path = fs.path
      /\ r.text = fs.text /\ r.stat = fs.stat /\ r.ok = fs.ok
  <2>1. fs.path \in {0} \cup Paths /\ fs.text \in Texts /\ fs.stat \in Nat /\ fs.ok \in BOOLEAN
    BY InvParts DEF FsType
  <2> QED
    BY <2>1, Blank DEF Request, RequestType, RequestTypes, ReplyTypes
<1>5. Truthful(r)
  <2> SUFFICES ASSUME r.ok, r.path \notin epoch.deletes
               PROVE  WrittenTo(r.path, r.stat, r.text)
    BY <1>4 DEF Truthful
  <2>1. fs.op = "write" /\ fs.ok
    BY <1>1, <1>3, <1>4
  <2> QED
    BY <1>1, <1>4, <2>1, InvParts DEF FsInv, WrittenTo
<1>6. /\ c \in EngineType /\ c.requests = engine.requests /\ c.reads = engine.reads
  BY InvParts, CoalescedTyped
<1> HIDE DEF c
<1>7. /\ b \in EngineType /\ b.requests = engine.requests /\ b.reads = {}
      /\ fs.ok => b = engine
      /\ ~fs.ok => b.phase = "Draining" /\ b.writes = {} /\ b.deletes = {}
  <2>1. CASE fs.ok
    BY <1>3, <2>1, InvParts
  <2>2. CASE ~fs.ok
    BY <1>3, <1>6, <2>2 DEF EngineType, Phases
  <2> QED
    BY <2>1, <2>2
<1> HIDE DEF r, b
<1>8. /\ e \in EngineType /\ e.requests = Append(engine.requests, r) /\ e.reads = {}
      /\ e.phase = b.phase /\ e.writes = b.writes /\ e.deletes = b.deletes
  <2>1. r \in RequestType /\ b \in EngineType
    BY <1>4, <1>7
  <2>2. /\ e \in EngineType /\ e.requests = Append(b.requests, r) /\ e.reads = b.reads
        /\ e.phase = b.phase /\ e.writes = b.writes /\ e.deletes = b.deletes
    BY <2>1, SendTyped
  <2> QED
    BY <1>7, <2>2
<1> HIDE DEF e
<1>9. engine.requests \in Seq(RequestType) /\ n \in Nat
  BY InvParts DEF EngineType
<1>10. /\ Results(engine.requests, "CommitProjectionAction", n)
       /\ Owed = PathsOf(engine.requests, n) \cup {fs.path} \cup (engine.writes \cup engine.deletes)
       /\ fs.path \notin (engine.writes \cup engine.deletes) \cup PathsOf(engine.requests, n)
       /\ (engine.writes \cup engine.deletes) \cap PathsOf(engine.requests, n) = {}
       /\ reply = {}
  BY <1>3 DEF Working
<1>11. /\ Len(e.requests) = n + 1
       /\ Results(e.requests, "CommitProjectionAction", n + 1)
       /\ PathsOf(e.requests, n + 1) = PathsOf(engine.requests, n) \cup {fs.path}
  BY <1>4, <1>8, <1>9, <1>10, AppendResult
<1>12. /\ \A i \in 1 .. Len(e.requests) : Truthful(e.requests[i])
       /\ fs.ok => \A i \in 1 .. Len(e.requests) : e.requests[i].ok
  <2>1. \A i \in 1 .. n : Truthful(engine.requests[i]) /\ engine.requests[i].ok
    BY <1>2, InvParts DEF QueueInv, ResultInv, Unbroken
  <2>2. /\ e.requests[n + 1] = r
        /\ \A i \in 1 .. n : e.requests[i] = engine.requests[i]
    BY <1>4, <1>8, <1>9, AppendCommit
  <2> HIDE DEF n
  <2>3. \A i \in 1 .. n + 1 : i \in 1 .. n \/ i = n + 1
    BY <1>9
  <2> QED
    BY <1>4, <1>5, <1>11, <2>1, <2>2, <2>3
<1> HIDE DEF n
<1>13. /\ engine' \in EngineType /\ fs' \in FsType /\ LinkInv'
       /\ fs'.stage = "asked" /\ engine'.phase \in {"Projecting", "ProjectionCommitting"}
  <2>1. CASE fs.ok
    <3>1. e.phase = "Projecting" /\ e.writes = engine.writes /\ e.deletes = engine.deletes
      BY <1>2, <1>7, <1>8, <2>1
    <3>2. /\ Owed = PathsOf(e.requests, Len(e.requests)) \cup e.writes \cup e.deletes
          /\ (e.writes \cup e.deletes) \cap PathsOf(e.requests, Len(e.requests)) = {}
      BY <1>10, <1>11, <3>1
    <3>3. \A p \in epoch.done \ epoch.deletes :
             WrittenTo(p, epoch.result[p], Text(epoch.target[p]))
      BY <1>2, InvParts DEF ResultInv, Unbroken
    <3>4. \A p \in Paths : WellFormed(epoch.target[p])
      BY InvParts DEF DocInv
    <3>5. \A i \in 1 .. Len(e.requests) : Truthful(e.requests[i]) /\ e.requests[i].ok
      BY <1>12, <2>1
    <3>6. Results(e.requests, "CommitProjectionAction", Len(e.requests))
      BY <1>11
    <3> QED
      BY <1>0, <1>1, <1>3, <1>8, <1>10, <3>1, <3>2, <3>3, <3>4, <3>5, <3>6, InvParts,
         ProjectionLinks
  <2>2. CASE ~fs.ok
    <3>1. e.phase = "Draining" /\ e.writes = {} /\ e.deletes = {}
      BY <1>7, <1>8, <2>2
    <3>2. PathsOf(e.requests, Len(e.requests)) \subseteq Owed
      BY <1>10, <1>11
    <3>3. Results(e.requests, "CommitProjectionAction", Len(e.requests))
      BY <1>11
    <3> QED
      BY <1>0, <1>1, <1>3, <1>8, <1>10, <1>12, <3>1, <3>2, <3>3, InvParts, DrainLinks
  <2> QED
    BY <2>1, <2>2
<1>14. QuietInv'
  BY <1>1, <1>13, QuietStill
<1> QED
  BY <1>0, <1>1, <1>13, <1>14, EngineFrame

\* The reads that a scan has planned, or a boundary.
LEMMA OnApplyScanReplyInv ==
    ASSUME Inv, OnApplyScanReply
    PROVE  Inv'
PROOF
<1>1. PICK r \in reply :
         /\ r.type = "ApplyScan"
         /\ reply' = reply \ {r}
         /\ EngineStep(IF r.reads = {} THEN EnterBoundary(engine)
                       ELSE <<[engine EXCEPT !.phase = "Importing", !.reads = r.reads], fs>>)
  BY DEF OnApplyScanReply
<1>2. /\ up
      /\ UNCHANGED <<up, disk, user, stable, prior, intents, staged, epoch, changed, count>>
  BY DEF OnApplyScanReply, userVars, dbVars
<1>3. /\ reply = {r} /\ engine.requests = <<>> /\ fs = NoFs /\ engine.phase = "PlanningImport"
      /\ engine.reads = {} /\ engine.writes = {} /\ engine.deletes = {}
  BY <1>1, InvParts, PhaseOfReply
<1>4. reply' = {}
  BY <1>1, <1>3
<1>0. /\ Still /\ changed' \in BOOLEAN /\ reply' \in SUBSET ReplyType
      /\ count' \in CountType /\ count'.edits = count.edits
  BY <1>2, <1>4, InvParts DEF Still, Inv, Types
<1>5. IF r.reads = {} THEN epoch = NoEpoch
      ELSE epoch.kind = "import" /\ epoch.expected = r.reads /\ epoch.done = {}
  BY <1>3, InvParts DEF ProtocolInv, PlanningInv, Asking
<1>6. CASE r.reads = {}
  <2>1. EngineStep(EnterBoundary(engine)) /\ epoch = NoEpoch
    BY <1>1, <1>5, <1>6
  <2>2. /\ engine' \in EngineType /\ fs' \in FsType /\ LinkInv'
        /\ fs'.stage = "asked" /\ engine'.phase \in {"Scanning", "AwaitingNextWork"}
    BY <1>0, <1>2, <1>3, <1>4, <2>1, InvParts, BoundaryLinks
  <2>3. QuietInv'
    BY <1>2, <1>4, <2>2, QuietStill
  <2> QED
    BY <1>0, <1>2, <2>2, <2>3, EngineFrame
<1>7. CASE r.reads # {}
  <2> DEFINE e == [engine EXCEPT !.phase = "Importing", !.reads = r.reads]
  <2>1. EngineStep(<<e, NoFs>>)
    BY <1>1, <1>3, <1>7
  <2>2. r.reads \in SUBSET Paths
    BY InvParts DEF ReplyType
  <2>3. /\ e \in EngineType /\ e.phase = "Importing" /\ e.reads = r.reads
        /\ e.requests = <<>> /\ e.writes = {} /\ e.deletes = {}
    BY <1>3, <2>2, InvParts DEF EngineType, Phases
  <2> HIDE DEF e
  <2>4. Len(e.requests) = 0 /\ \A i \in 1 .. Len(e.requests) : FALSE
    BY <2>3
  <2>5. /\ Results(e.requests, "CommitImportAction", Len(e.requests))
        /\ PathsOf(e.requests, Len(e.requests)) = {}
        /\ \A i \in 1 .. Len(e.requests) : Truthful(e.requests[i])
    BY <2>4 DEF Results, PathsOf
  <2>6. /\ epoch.kind = "import"
        /\ Owed = PathsOf(e.requests, Len(e.requests)) \cup e.reads
        /\ e.reads \cap PathsOf(e.requests, Len(e.requests)) = {}
    BY <1>5, <1>7, <2>3, <2>5 DEF Owed
  <2>7. /\ engine' \in EngineType /\ fs' \in FsType /\ LinkInv'
        /\ fs'.stage = "asked" /\ engine'.phase \in {"Importing", "ImportCommitting"}
    BY <1>0, <1>2, <1>4, <2>1, <2>3, <2>5, <2>6, InvParts, ImportLinks
  <2>8. QuietInv'
    BY <1>2, <2>7, QuietStill
  <2> QED
    BY <1>0, <1>2, <2>7, <2>8, EngineFrame
<1> QED
  BY <1>6, <1>7

\* A committed epoch ends at a boundary.
LEMMA OnEpochCommittedInv ==
    ASSUME Inv, OnEpochCommitted
    PROVE  Inv'
PROOF
<1>1. PICK r \in reply :
         r.type \in {"CommitImportEpoch", "CommitProjectionEpoch"} /\ reply' = reply \ {r}
  BY DEF OnEpochCommitted, Answer
<1>2. /\ up /\ EngineStep(EnterBoundary(engine))
      /\ UNCHANGED <<up, disk, user, stable, prior, intents, staged, epoch, changed, count>>
  BY DEF OnEpochCommitted, Answer, userVars, dbVars
<1>3. /\ reply = {r} /\ engine.requests = <<>> /\ epoch = NoEpoch
      /\ engine.reads = {} /\ engine.writes = {} /\ engine.deletes = {}
  BY <1>1, InvParts, PhaseOfReply
<1>4. reply' = {}
  BY <1>1, <1>3
<1>0. /\ Still /\ changed' \in BOOLEAN /\ reply' \in SUBSET ReplyType
      /\ count' \in CountType /\ count'.edits = count.edits
  BY <1>2, <1>4, InvParts DEF Still, Inv, Types
<1>5. /\ engine' \in EngineType /\ fs' \in FsType /\ LinkInv'
      /\ fs'.stage = "asked" /\ engine'.phase \in {"Scanning", "AwaitingNextWork"}
  BY <1>0, <1>2, <1>3, <1>4, InvParts, BoundaryLinks
<1>6. QuietInv'
  BY <1>2, <1>4, <1>5, QuietStill
<1> QED
  BY <1>0, <1>2, <1>5, <1>6, EngineFrame

\* The projection that is the next work, a boundary, or rest.
LEMMA OnNextWorkInv ==
    ASSUME Inv, OnNextWork
    PROVE  Inv'
PROOF
<1>1. PICK r \in reply :
         /\ r.type = "GetNextWork"
         /\ reply' = reply \ {r}
         /\ EngineStep(
               IF r.writes \cup r.deletes # {}
               THEN <<[engine EXCEPT !.phase = "Projecting", !.writes = r.writes,
                                     !.deletes = r.deletes], fs>>
               ELSE IF engine.dirty \/ engine.pending # {} THEN EnterBoundary(engine)
               ELSE <<[engine EXCEPT !.phase = "Idle"], fs>>)
  BY DEF OnNextWork
<1>2. /\ up
      /\ UNCHANGED <<up, disk, user, stable, prior, intents, staged, epoch, changed, count>>
  BY DEF OnNextWork, userVars, dbVars
<1>3. /\ reply = {r} /\ engine.requests = <<>> /\ fs = NoFs /\ engine.phase = "AwaitingNextWork"
      /\ engine.reads = {} /\ engine.writes = {} /\ engine.deletes = {}
  BY <1>1, InvParts, PhaseOfReply
<1>4. reply' = {}
  BY <1>1, <1>3
<1>0. /\ Still /\ changed' \in BOOLEAN /\ reply' \in SUBSET ReplyType
      /\ count' \in CountType /\ count'.edits = count.edits
  BY <1>2, <1>4, InvParts DEF Still, Inv, Types
<1>5. IF r.writes \cup r.deletes = {} THEN epoch = NoEpoch
      ELSE /\ epoch.kind = "projection"
           /\ epoch.expected = r.writes \cup r.deletes
           /\ epoch.deletes = r.deletes /\ r.writes \cap r.deletes = {}
           /\ epoch.done = {}
  BY <1>3, InvParts DEF ProtocolInv, AwaitingInv, Asking
<1>6. CASE r.writes \cup r.deletes # {}
  <2> DEFINE e == [engine EXCEPT !.phase = "Projecting", !.writes = r.writes,
                                 !.deletes = r.deletes]
  <2>1. EngineStep(<<e, NoFs>>)
    BY <1>1, <1>3, <1>6
  <2>2. r.writes \in SUBSET Paths /\ r.deletes \in SUBSET Paths
    BY InvParts DEF ReplyType
  <2>3. /\ e \in EngineType /\ e.phase = "Projecting" /\ e.reads = {}
        /\ e.requests = <<>> /\ e.writes = r.writes /\ e.deletes = r.deletes
    BY <1>3, <2>2, InvParts DEF EngineType, Phases
  <2> HIDE DEF e
  <2>4. Len(e.requests) = 0 /\ \A i \in 1 .. Len(e.requests) : FALSE
    BY <2>3
  <2>5. /\ Results(e.requests, "CommitProjectionAction", Len(e.requests))
        /\ PathsOf(e.requests, Len(e.requests)) = {}
        /\ \A i \in 1 .. Len(e.requests) : Truthful(e.requests[i]) /\ e.requests[i].ok
    BY <2>4 DEF Results, PathsOf
  <2>6. /\ epoch.kind = "projection" /\ epoch.done = {}
        /\ Owed = PathsOf(e.requests, Len(e.requests)) \cup e.writes \cup e.deletes
        /\ (e.writes \cup e.deletes) \cap PathsOf(e.requests, Len(e.requests)) = {}
        /\ e.deletes \subseteq epoch.deletes /\ e.writes \cap epoch.deletes = {}
    BY <1>5, <1>6, <2>3, <2>5 DEF Owed
  <2>7. \A p \in epoch.done \ epoch.deletes :
           WrittenTo(p, epoch.result[p], Text(epoch.target[p]))
    BY <2>6
  <2>8. \A p \in Paths : WellFormed(epoch.target[p])
    BY InvParts DEF DocInv
  <2>9. /\ engine' \in EngineType /\ fs' \in FsType /\ LinkInv'
        /\ fs'.stage = "asked" /\ engine'.phase \in {"Projecting", "ProjectionCommitting"}
    BY <1>0, <1>2, <1>4, <2>1, <2>3, <2>5, <2>6, <2>7, <2>8, InvParts, ProjectionLinks
  <2>10. QuietInv'
    BY <1>2, <2>9, QuietStill
  <2> QED
    BY <1>0, <1>2, <2>9, <2>10, EngineFrame
<1>7. CASE r.writes \cup r.deletes = {} /\ (engine.dirty \/ engine.pending # {})
  <2>1. EngineStep(EnterBoundary(engine)) /\ epoch = NoEpoch
    BY <1>1, <1>5, <1>7
  <2>2. /\ engine' \in EngineType /\ fs' \in FsType /\ LinkInv'
        /\ fs'.stage = "asked" /\ engine'.phase \in {"Scanning", "AwaitingNextWork"}
    BY <1>0, <1>2, <1>3, <1>4, <2>1, InvParts, BoundaryLinks
  <2>3. QuietInv'
    BY <1>2, <1>4, <2>2, QuietStill
  <2> QED
    BY <1>0, <1>2, <2>2, <2>3, EngineFrame
<1>8. CASE r.writes \cup r.deletes = {} /\ ~(engine.dirty \/ engine.pending # {})
  <2> DEFINE e == [engine EXCEPT !.phase = "Idle"]
  <2>1. EngineStep(<<e, NoFs>>) /\ epoch = NoEpoch
    BY <1>1, <1>3, <1>5, <1>8
  <2>2. /\ e \in EngineType /\ e.phase = "Idle" /\ e.reads = {}
        /\ e.requests = <<>> /\ e.writes = {} /\ e.deletes = {}
    BY <1>3, InvParts DEF EngineType, Phases
  <2> HIDE DEF e
  <2>3. engine' = e /\ fs' = NoFs
    BY <2>1, <2>2, DriveRests DEF EngineStep
  <2>4. ProtocolInv'
    BY <1>2, <1>4, <2>1, <2>2, <2>3 DEF ProtocolInv, IdleInv, ScanningInv, PlanningInv,
       ImportingInv, ImportCommittingInv, AwaitingInv, ProjectingInv,
       ProjectionCommittingInv, PlanInv
  <2>5. NoFs \in FsType /\ NoFs.op = "none" /\ NoFs.stage = "asked"
    BY EmptyRecords DEF NoFs
  <2>6. FsInv' /\ QueueInv' /\ ResultInv'
    BY <2>2, <2>3, <2>5 DEF FsInv, QueueInv, ResultInv, Unbroken
  <2>7. LinkInv'
    BY <2>4, <2>6 DEF LinkInv
  <2>8. QuietInv'
    <3>1. ToWrite' = ToWrite /\ ToDelete' = ToDelete
      BY <1>2 DEF ToWrite, ToDelete
    <3>2. ~changed => ToWrite \cup ToDelete = {}
      BY <1>2, <1>3, <1>8, InvParts DEF QuietInv
    <3> QED
      BY <1>2, <3>1, <3>2 DEF QuietInv
  <2> QED
    BY <1>0, <1>2, <2>2, <2>3, <2>5, <2>7, <2>8, EngineFrame
<1> QED
  BY <1>6, <1>7, <1>8

-----------------------------------------------------------------------------
(* The files change: by the user, and by a write or a delete.              *)

\* A changed file has a new stat, and what is gone stays gone.
Later ==
    \A q \in Paths : /\ disk'[q] = disk[q] \/ disk'[q].stat > disk[q].stat
                     /\ user[q].gone \subseteq user'[q].gone

\* What a file loses in this step was in a file that was removed.
Grown(q) == \A w \in Words : disk'[q].text[w] >= disk[q].text[w] \/ w \in user'[q].gone

\* The records of files, field by field.
LEMMA FileTyped ==
    ASSUME Types, NEW q \in Paths
    PROVE  /\ disk[q].live \in BOOLEAN /\ disk[q].stat \in Nat /\ disk[q].text \in Texts
           /\ \A w \in Words : disk[q].text[w] \in Nat
           /\ user[q].typed \subseteq Words /\ user[q].gone \subseteq Words
           /\ stable[q].live \in BOOLEAN /\ stable[q].born \in BOOLEAN /\ stable[q].doc \in Docs
           /\ prior[q].live \in BOOLEAN /\ prior[q].doc \in Docs /\ prior[q].stat \in Nat
           /\ staged[q] \in RowType /\ staged[q].doc \in Docs /\ staged[q].update \in Docs
           /\ staged[q].stat \in Nat
           /\ epoch.target[q] \in Docs /\ epoch.stat[q] \in Nat /\ epoch.result[q] \in Nat
PROOF
<1>1. disk[q] \in DiskType /\ user[q] \in UserType /\ stable[q] \in StableType
      /\ prior[q] \in PriorType /\ staged[q] \in RowType /\ epoch \in EpochType
  BY DEF Types
<1>2. disk[q].live \in BOOLEAN /\ disk[q].stat \in Nat /\ disk[q].text \in Texts
  BY <1>1 DEF DiskType
<1>3. user[q].typed \subseteq Words /\ user[q].gone \subseteq Words
  BY <1>1 DEF UserType
<1>4. stable[q].live \in BOOLEAN /\ stable[q].born \in BOOLEAN /\ stable[q].doc \in Docs
  BY <1>1 DEF StableType
<1>5. prior[q].live \in BOOLEAN /\ prior[q].doc \in Docs /\ prior[q].stat \in Nat
  BY <1>1 DEF PriorType
<1>6. staged[q].doc \in Docs /\ staged[q].update \in Docs /\ staged[q].stat \in Nat
  BY <1>1 DEF RowType
<1>7. epoch.target[q] \in Docs /\ epoch.stat[q] \in Nat /\ epoch.result[q] \in Nat
  BY <1>1 DEF EpochType, Stats
<1>8. \A w \in Words : disk[q].text[w] \in Nat
  BY <1>2 DEF Texts
<1> QED
  BY <1>1, <1>2, <1>3, <1>4, <1>5, <1>6, <1>7, <1>8

\* What was seen of a file stays true of its stat.
LEMMA SeenLater ==
    ASSUME Types, disk' \in [Paths -> DiskType], Later, NEW q \in Paths, NEW stat \in Nat,
           NEW text, Seen(q, stat, text)
    PROVE  Seen(q, stat, text)'
PROOF
<1>1. disk'[q].stat \in Nat /\ disk[q].stat \in Nat
  BY FileTyped DEF DiskType
<1>2. disk'[q] = disk[q] \/ disk'[q].stat > disk[q].stat
  BY DEF Later
<1> QED
  BY <1>1, <1>2 DEF Seen

\* A file that only loses what is gone still covers what it covered.
LEMMA CoveredLater ==
    ASSUME Types, disk' \in [Paths -> DiskType], Later, NEW q \in Paths, Grown(q),
           NEW text \in Texts, Covered(q, text)
    PROVE  Covered(q, text)'
PROOF
<1>1. ASSUME NEW w \in Words PROVE disk'[q].text[w] >= text[w] \/ w \in user'[q].gone
  <2>1. disk'[q].text[w] \in Nat /\ disk[q].text[w] \in Nat /\ text[w] \in Nat
    BY FileTyped DEF DiskType, Texts
  <2>2. disk'[q].text[w] >= disk[q].text[w] \/ w \in user'[q].gone
    BY DEF Grown
  <2>3. disk[q].text[w] >= text[w] \/ w \in user[q].gone
    BY DEF Covered
  <2>4. user[q].gone \subseteq user'[q].gone
    BY DEF Later
  <2> QED
    BY <2>1, <2>2, <2>3, <2>4
<1> QED
  BY <1>1 DEF Covered

\* A request for an action names a path of the epoch that owes its result.
LEMMA FsPath ==
    ASSUME Inv, fs.op \in {"read", "write", "delete"}
    PROVE  /\ fs.path \in Paths /\ fs.path \in Owed
           /\ fs.path \notin PathsOf(engine.requests, Len(engine.requests))
           /\ fs.op = "read" => epoch.kind = "import" /\ engine.phase = "Importing"
           /\ fs.op # "read" => /\ epoch.kind = "projection" /\ engine.phase = "Projecting"
                                /\ (fs.op = "delete") = (fs.path \in epoch.deletes)
PROOF
<1>1. Owed \subseteq Paths
  BY InvParts DEF Owed, EpochType
<1>2. CASE fs.op = "read"
  <2>1. engine.phase = "Importing"
    BY <1>2, InvParts, PhaseOfFs
  <2>2. epoch.kind = "import" /\ Working("CommitImportAction", engine.reads)
    BY <2>1, InvParts DEF ProtocolInv, ImportingInv
  <2> QED
    BY <1>1, <1>2, <2>1, <2>2 DEF Working
<1>3. CASE fs.op \in {"write", "delete"}
  <2>1. engine.phase = "Projecting"
    BY <1>3, InvParts, PhaseOfFs
  <2>2. /\ epoch.kind = "projection" /\ (fs.op = "delete") = (fs.path \in epoch.deletes)
        /\ Working("CommitProjectionAction", engine.writes \cup engine.deletes)
    BY <2>1, InvParts DEF ProtocolInv, ProjectingInv
  <2> QED
    BY <1>1, <1>3, <2>1, <2>2 DEF Working
<1> QED
  BY <1>2, <1>3

\* The protocol is about the daemon's parts only.
LEMMA ProtocolStill ==
    ASSUME Inv, UNCHANGED <<up, epoch, engine, fs, reply>>
    PROVE  ProtocolInv'
PROOF
<1>0. ProtocolInv /\ Owed' = Owed
  BY InvParts DEF Owed
<1>1. IdleInv' /\ ScanningInv' /\ PlanningInv' /\ AwaitingInv'
  BY <1>0 DEF ProtocolInv, IdleInv, ScanningInv, PlanningInv, AwaitingInv, Asking, Answered
<1>2. ImportingInv' /\ ProjectingInv'
  BY <1>0 DEF ProtocolInv, ImportingInv, ProjectingInv, Working
<1>3. ImportCommittingInv' /\ ProjectionCommittingInv'
  BY <1>0 DEF ProtocolInv, ImportCommittingInv, ProjectionCommittingInv, Committing, Answered
<1>4. PlanInv'
  BY <1>0 DEF ProtocolInv, PlanInv
<1> QED
  BY <1>1, <1>2, <1>3, <1>4 DEF ProtocolInv

\* The documents are those of the tables and the epoch.
LEMMA DocStill ==
    ASSUME Inv, UNCHANGED <<up, stable, prior, intents, staged, epoch>>
    PROVE  DocInv' /\ ExpectInv'
BY DEF Inv, CycleInv, DocInv, OpIdsUnique, RowInv, TargetInv, WellFormed, HonestInv, ExpectInv

\* The texts of the documents, which the records of files are compared with.
LEMMA TextsTyped ==
    ASSUME Inv, NEW q \in Paths
    PROVE  /\ Text(prior[q].doc) \in Texts /\ Text(stable[q].doc) \in Texts
           /\ Text(staged[q].doc) \in Texts /\ Text(epoch.target[q]) \in Texts
PROOF
<1>1. /\ prior[q].doc \in Docs /\ stable[q].doc \in Docs /\ staged[q].doc \in Docs
      /\ epoch.target[q] \in Docs
  BY InvParts, FileTyped
<1>2. /\ WellFormed(prior[q].doc) /\ WellFormed(stable[q].doc) /\ WellFormed(staged[q].doc)
      /\ WellFormed(epoch.target[q])
  BY InvParts DEF DocInv
<1> QED
  BY <1>1, <1>2, TextType

\* What a read says of a file stays true.
LEMMA ReadLater ==
    ASSUME Inv, disk' \in [Paths -> DiskType], Later, prior' = prior, NEW q \in Paths,
           Grown(q), NEW stat \in Nat, NEW text \in Texts, ReadOf(q, stat, text)
    PROVE  ReadOf(q, stat, text)'
PROOF
<1>1. Seen(q, stat, text)' /\ Covered(q, text)'
  BY InvParts, SeenLater, CoveredLater DEF ReadOf, Recorded
<1>2. user[q].gone \subseteq user'[q].gone
  BY DEF Later
<1> QED
  BY <1>1, <1>2 DEF ReadOf, Recorded, Text

\* What a result of a projection says of a file stays true.
LEMMA WrittenLater ==
    ASSUME Inv, disk' \in [Paths -> DiskType], Later, epoch' = epoch, NEW q \in Paths,
           Grown(q), NEW stat \in Nat, NEW text, WrittenTo(q, stat, text)
    PROVE  WrittenTo(q, stat, text)'
PROOF
<1>1. text \in Texts
  BY TextsTyped DEF WrittenTo
<1>2. Seen(q, stat, text)' /\ Covered(q, text)'
  BY <1>1, InvParts, SeenLater, CoveredLater DEF WrittenTo, Recorded
<1> QED
  BY <1>2 DEF WrittenTo, Recorded, Text

\* A result stays true while the file it speaks of loses only what is gone.
LEMMA TruthfulLater ==
    ASSUME Inv, disk' \in [Paths -> DiskType], Later, UNCHANGED <<prior, epoch>>,
           NEW r \in RequestType, Truthful(r),
           r.type \in {"CommitImportAction", "CommitProjectionAction"} =>
              r.path \in Paths /\ Grown(r.path)
    PROVE  Truthful(r)'
PROOF
<1>1. r.stat \in Nat /\ r.text \in Texts
  BY DEF RequestType
<1>2. CASE r.type = "CommitImportAction"
  BY <1>1, <1>2, ReadLater DEF Truthful
<1>3. CASE r.type = "CommitProjectionAction"
  BY <1>1, <1>3, WrittenLater DEF Truthful
<1> QED
  BY <1>2, <1>3 DEF Truthful

\* The results in the queue are owed to the epoch.
LEMMA QueuePaths ==
    ASSUME Inv, NEW i \in 1 .. Len(engine.requests),
           engine.requests[i].type \in {"CommitImportAction", "CommitProjectionAction"}
    PROVE  engine.requests[i].path \in Owed /\ Owed \subseteq Paths
PROOF
<1> DEFINE q == engine.requests
           n == Len(q)
<1>0. Owed \subseteq Paths
  BY InvParts DEF Owed, EpochType
<1>1. engine.phase \in Phases /\ n \in Nat
  BY InvParts DEF EngineType
<1>2. ProtocolInv /\ i \in 1 .. n /\ n > 0 /\ q # <<>>
  BY <1>1, InvParts
<1>3. CASE engine.phase \in {"Idle", "Scanning", "Draining"}
  BY <1>2, <1>3 DEF ProtocolInv, IdleInv, ScanningInv, PlanInv
<1>4. CASE engine.phase \in {"PlanningImport", "AwaitingNextWork"}
  BY <1>1, <1>2, <1>4 DEF ProtocolInv, PlanningInv, AwaitingInv, Asking, Answered
<1>5. CASE engine.phase \in {"Importing", "Projecting"}
  <2>1. PathsOf(q, n) \subseteq Owed
    BY <1>2, <1>5 DEF ProtocolInv, ImportingInv, ProjectingInv, Working
  <2>2. q[i].path \in PathsOf(q, n)
    BY DEF PathsOf
  <2> QED
    BY <1>0, <2>1, <2>2
<1>6. CASE engine.phase \in {"ImportCommitting", "ProjectionCommitting"}
  <2>1. /\ q[n].type \in {"CommitImportEpoch", "CommitProjectionEpoch"}
        /\ PathsOf(q, n - 1) \subseteq Owed
    BY <1>2, <1>6 DEF ProtocolInv, ImportCommittingInv, ProjectionCommittingInv, Committing,
       Answered
  <2>2. i # n
    BY <2>1
  <2>3. i \in 1 .. n - 1
    BY <1>1, <1>2, <2>2
  <2>4. q[i].path \in PathsOf(q, n - 1)
    BY <2>3 DEF PathsOf
  <2> QED
    BY <1>0, <2>1, <2>4
<1> QED
  BY <1>1, <1>3, <1>4, <1>5, <1>6 DEF Phases

\* The records of files stay true while files change, if a file that a write or a
\* delete replaces keeps covering prior.
LEMMA FilesLater ==
    ASSUME Inv, disk' \in [Paths -> DiskType], user' \in [Paths -> UserType], Later,
           \A q \in Paths : Grown(q) \/ (fs.op \in {"write", "delete"} /\ q = fs.path),
           \A q \in Paths : Covered(q, Text(prior[q].doc))',
           \A q \in Paths : ~disk'[q].live => disk'[q].text = NoWords,
           UNCHANGED <<up, stable, prior, intents, staged, epoch, engine>>
    PROVE  TablesInv' /\ QueueInv' /\ ResultInv'
PROOF
<1>0. Types /\ TablesInv /\ QueueInv /\ ResultInv /\ engine \in EngineType
  BY InvParts
<1>1. ASSUME NEW q \in Paths, q \notin Owed PROVE Grown(q)
  BY <1>1, FsPath
<1>2. ASSUME NEW i \in 1 .. Len(engine.requests) PROVE Truthful(engine.requests[i])'
  <2>0. PICK r : r = engine.requests[i]
    OBVIOUS
  <2>1. r \in RequestType
    BY <1>0, <2>0 DEF EngineType
  <2>2. Truthful(r)
    BY <1>0, <2>0 DEF QueueInv
  <2>3. ASSUME r.type \in {"CommitImportAction", "CommitProjectionAction"}
        PROVE  r.path \in Paths /\ Grown(r.path)
    <3>1. r.path \in Paths
      BY <2>0, <2>3, QueuePaths
    <3>2. r.path \in PathsOf(engine.requests, Len(engine.requests))
      BY <2>0 DEF PathsOf
    <3> QED
      BY <3>1, <3>2, FsPath
  <2>4. Truthful(r)'
    BY <2>1, <2>2, <2>3, TruthfulLater
  <2> QED
    BY <2>0, <2>4
<1>3. QueueInv'
  BY <1>2 DEF QueueInv
<1>4. ResultInv'
  <2> SUFFICES ASSUME Unbroken
               PROVE  /\ \A i \in 1 .. Len(engine.requests) : engine.requests[i].ok
                      /\ \A p \in epoch.done \ epoch.deletes :
                            WrittenTo(p, epoch.result[p], Text(epoch.target[p]))'
    BY DEF ResultInv, Unbroken
  <2>1. ASSUME NEW p \in epoch.done \ epoch.deletes
        PROVE  WrittenTo(p, epoch.result[p], Text(epoch.target[p]))'
    <3>1. p \in Paths /\ p \notin Owed
      BY InvParts DEF EpochType, Owed
    <3>2. WrittenTo(p, epoch.result[p], Text(epoch.target[p])) /\ epoch.result[p] \in Nat
      BY <1>0, <3>1, FileTyped DEF ResultInv
    <3>3. PICK stat, text : stat = epoch.result[p] /\ text = Text(epoch.target[p])
      OBVIOUS
    <3>4. WrittenTo(p, stat, text)'
      BY <1>1, <3>1, <3>2, <3>3, WrittenLater
    <3> QED
      BY <3>3, <3>4 DEF WrittenTo, Text
  <2> QED
    BY <1>0, <2>1 DEF ResultInv
<1>5. ASSUME NEW p \in Paths
      PROVE  /\ disk'[p].stat > 0
             /\ prior[p].live => Seen(p, prior[p].stat, Text(prior[p].doc))'
             /\ staged[p].kind # "none" =>
                   /\ Recorded(p, staged[p].stat, Text(staged[p].doc))'
                   /\ \A op \in staged[p].update : op[3] = "del" => op[1] \in user'[p].gone
  <2>1. disk'[p] = disk[p] \/ disk'[p].stat > disk[p].stat
    BY DEF Later
  <2>2. disk'[p].stat \in Nat /\ disk[p].stat \in Nat /\ disk[p].stat > 0
    BY <1>0, FileTyped DEF DiskType, TablesInv
  <2>3. prior[p].stat \in Nat /\ staged[p].stat \in Nat /\ Text(staged[p].doc) \in Texts
    BY <1>0, FileTyped, TextsTyped
  <2>s. PICK s, t : s = prior[p].stat /\ t = Text(prior[p].doc)
    OBVIOUS
  <2>u. PICK u, v : u = staged[p].stat /\ v = Text(staged[p].doc)
    OBVIOUS
  <2>4. ASSUME prior[p].live PROVE Seen(p, s, t)'
    <3>1. Seen(p, s, t) /\ s \in Nat
      BY <1>0, <2>3, <2>s, <2>4 DEF TablesInv
    <3> QED
      BY <1>0, <3>1, SeenLater
  <2>5. ASSUME staged[p].kind # "none" PROVE Recorded(p, u, v)'
    <3>1. Recorded(p, u, v) /\ u \in Nat /\ v \in Texts
      BY <1>0, <2>3, <2>u, <2>5 DEF TablesInv
    <3>2. Grown(p)
      <4>1. RowInv(p)
        BY InvParts DEF DocInv
      <4>2. fs.op \in {"write", "delete"} => up /\ epoch.kind = "projection"
        BY FsPath, InvParts, PhaseOfFs
      <4> QED
        BY <2>5, <4>1, <4>2 DEF RowInv
    <3> QED
      BY <1>0, <3>1, <3>2, SeenLater, CoveredLater DEF Recorded
  <2>6. ASSUME staged[p].kind # "none", NEW op \in staged[p].update, op[3] = "del"
        PROVE  op[1] \in user'[p].gone
    <3>1. op[1] \in user[p].gone
      BY <1>0, <2>6 DEF TablesInv
    <3> QED
      BY <3>1 DEF Later
  <2>7. prior[p].live => Seen(p, prior[p].stat, Text(prior[p].doc))'
    BY <2>s, <2>4 DEF Seen, Text
  <2>8. staged[p].kind # "none" => Recorded(p, staged[p].stat, Text(staged[p].doc))'
    BY <2>u, <2>5 DEF Recorded, Seen, Covered, Text
  <2> QED
    BY <2>1, <2>2, <2>6, <2>7, <2>8
<1>6. TablesInv'
  <2>1. \A p \in Paths : \A i \in intents[p] : i.text = Text(i.doc)
    BY <1>0 DEF TablesInv
  <2> QED
    BY <1>5, <2>1 DEF TablesInv, Seen, Recorded, Covered, Text
<1> QED
  BY <1>3, <1>4, <1>6

\* Whatever the user does to a file: it gets a new stat, and loses only what is gone.
LEMMA UserTouches ==
    ASSUME Inv, NEW p \in Paths, NEW live \in BOOLEAN, NEW text \in Texts,
           MayTouch(p), Touch(p, live, text), ~live => text = NoWords,
           user' \in [Paths -> UserType], count' \in CountType, count'.edits >= count.edits,
           \A q \in Paths \ {p} : user'[q] = user[q],
           user[p].gone \subseteq user'[p].gone,
           \A w \in Words : text[w] >= disk[p].text[w] \/ w \in user'[p].gone,
           \A w \in user'[p].typed : w \in user[p].typed \/ (w = NextWord /\ w <= count'.edits),
           \A w \in user'[p].typed :
              live /\ (text[w] > 0 \/ (w \in user[p].typed /\ text[w] >= disk[p].text[w])),
           UNCHANGED <<up, stable, prior, intents, staged, epoch, engine, fs, reply, changed>>
    PROVE  Inv'
PROOF
<1>0. Types /\ count \in CountType /\ fs \in FsType
  BY InvParts
<1>1. disk[p].stat \in Nat /\ disk \in [Paths -> DiskType]
  BY <1>0, FileTyped DEF Types
<1>2. /\ disk' \in [Paths -> DiskType]
      /\ disk'[p].live = live /\ disk'[p].text = text /\ disk'[p].stat > disk[p].stat
      /\ \A q \in Paths \ {p} : disk'[q] = disk[q]
  <2> DEFINE new == [live |-> live, stat |-> disk[p].stat + 1, text |-> text]
  <2>1. disk' = [disk EXCEPT ![p] = new]
    BY DEF Touch
  <2>2. new \in DiskType /\ new.live = live /\ new.text = text /\ new.stat > disk[p].stat
    BY <1>1 DEF DiskType
  <2> HIDE DEF new
  <2> QED
    BY <1>1, <2>1, <2>2
<1>3. Later
  BY <1>2 DEF Later
<1>4. \A q \in Paths : Grown(q)
  <2>1. ASSUME NEW q \in Paths \ {p} PROVE Grown(q)
    <3>1. disk'[q] = disk[q] /\ \A w \in Words : disk[q].text[w] \in Nat
      BY <1>0, <1>2, FileTyped
    <3> QED
      BY <3>1 DEF Grown
  <2> QED
    BY <1>2, <2>1 DEF Grown
<1>5. \A q \in Paths : Covered(q, Text(prior[q].doc))'
  <2>1. ASSUME NEW q \in Paths PROVE Covered(q, Text(prior[q].doc))'
    <3>1. PICK t : t = Text(prior[q].doc)
      OBVIOUS
    <3>2. t \in Texts /\ Covered(q, t)
      BY <3>1, InvParts, TextsTyped DEF TablesInv
    <3>3. Covered(q, t)'
      BY <1>0, <1>2, <1>3, <1>4, <3>2, CoveredLater
    <3> QED
      BY <3>1, <3>3 DEF Covered, Text
  <2> QED
    BY <2>1
<1>f. \A q \in Paths : ~disk'[q].live => disk'[q].text = NoWords
  BY <1>2, InvParts DEF TablesInv
<1>6. TablesInv' /\ QueueInv' /\ ResultInv'
  BY <1>f, <1>2, <1>3, <1>4, <1>5, FilesLater
<1>7. Types'
  BY <1>0, <1>2 DEF Types
<1>8. ProtocolInv' /\ DocInv' /\ ExpectInv' /\ QuietInv'
  BY ProtocolStill, DocStill, QuietStill
<1>9. FsInv'
  <2>0. FsInv
    BY InvParts
  <2>1. PICK q, s, t : q = fs.path /\ s = fs.stat /\ t = fs.text
    OBVIOUS
  <2>2. s \in Nat /\ t \in Texts
    BY <1>0, <2>1 DEF FsType
  <2>3. fs.op \in {"read", "write"} => q \in Paths
    BY <2>1, FsPath
  <2>4. (fs.op = "read" /\ fs.stage = "done" /\ fs.ok) => ReadOf(fs.path, fs.stat, fs.text)'
    <3> SUFFICES ASSUME fs.op = "read" /\ fs.stage = "done" /\ fs.ok
                 PROVE  ReadOf(q, s, t)'
      BY <2>1 DEF ReadOf, Recorded, Seen, Covered
    <3>1. ReadOf(q, s, t)
      BY <2>0, <2>1 DEF FsInv
    <3> QED
      BY <1>2, <1>3, <1>4, <2>2, <2>3, <3>1, ReadLater
  <2>5. (fs.op = "write" /\ fs.stage = "done" /\ fs.ok) => Recorded(fs.path, fs.stat, fs.text)'
    <3> SUFFICES ASSUME fs.op = "write" /\ fs.stage = "done" /\ fs.ok
                 PROVE  Recorded(q, s, t)'
      BY <2>1 DEF Recorded, Seen, Covered
    <3>1. Recorded(q, s, t)
      BY <2>0, <2>1 DEF FsInv
    <3> QED
      BY <1>0, <1>2, <1>3, <1>4, <2>2, <2>3, <3>1, SeenLater, CoveredLater DEF Recorded
  <2> QED
    BY <2>0, <2>4, <2>5 DEF FsInv, Text
<1>10. WordsInv'
  <2>0. WordsInv /\ count.edits \in Nat /\ count'.edits \in Nat
    BY <1>0, InvParts DEF CountType
  <2>1. ASSUME NEW q \in Paths, NEW w \in user'[q].typed PROVE w <= count'.edits
    <3>1. w \in Nat
      BY DEF UserType, Words
    <3>2. w <= count.edits \/ (w = NextWord /\ w <= count'.edits)
      BY <2>0 DEF WordsInv
    <3> QED
      BY <2>0, <3>1, <3>2
  <2>2. ASSUME NEW q \in Paths, NEW op \in stable[q].doc, op[2] = 0 /\ op[3] = "ins"
        PROVE  op[1] <= count'.edits /\ op[1] \notin user'[q].typed
    <3>1. op[1] <= count.edits /\ op[1] \notin user[q].typed
      BY <2>0, <2>2 DEF WordsInv
    <3>2. op[1] \in Nat
      <4>1. stable[q].doc \in Docs
        BY <1>0, FileTyped
      <4> QED
        BY <4>1, OpParts DEF Words
    <3>3. op[1] # NextWord
      BY <2>0, <3>1, <3>2 DEF NextWord
    <3> QED
      BY <2>0, <3>1, <3>2, <3>3
  <2>3. ASSUME QuietSwap, fs.stage = "checked" PROVE AsExpected'
    <3>1. fs.op \in {"write", "delete"}
      BY <2>3, InvParts DEF FsInv
    <3>2. fs.path \in Paths \ {p}
      BY <2>3, <3>1, FsPath DEF MayTouch
    <3>3. AsExpected
      BY <2>0, <2>3 DEF WordsInv
    <3> QED
      BY <1>2, <3>2, <3>3 DEF AsExpected
  <2> QED
    BY <2>1, <2>2, <2>3 DEF WordsInv
<1>11. NoSpuriousRemoval'
  BY <1>3 DEF Inv, CycleInv, NoSpuriousRemoval, Later
<1>12. (QuietSwap => NoUserEditLost)'
  <2> SUFFICES ASSUME QuietSwap, NEW q \in Paths, NEW w \in user'[q].typed
               PROVE  \/ disk'[q].live /\ disk'[q].text[w] > 0
                      \/ Inserted(stable[q].doc, w) \ {0} # {}
    BY DEF NoUserEditLost
  <2>0. NoUserEditLost
    BY DEF Inv, CycleInv
  <2>1. CASE q # p
    BY <1>2, <2>0, <2>1 DEF NoUserEditLost
  <2>2. CASE q = p
    <3>1. CASE text[w] > 0
      BY <1>2, <2>2, <3>1
    <3>2. CASE w \in user[p].typed /\ text[w] >= disk[p].text[w]
      <4>1. \/ disk[p].live /\ disk[p].text[w] > 0
            \/ Inserted(stable[p].doc, w) \ {0} # {}
        BY <2>0, <3>2 DEF NoUserEditLost
      <4>2. w \in Words
        BY DEF UserType
      <4>3. disk[p].text[w] \in Nat /\ text[w] \in Nat
        BY <1>0, <4>2, FileTyped DEF Texts
      <4> QED
        BY <1>2, <2>2, <3>2, <4>1, <4>3
    <3> QED
      BY <2>2, <3>1, <3>2
  <2> QED
    BY <2>1, <2>2
<1> QED
  BY <1>6, <1>7, <1>8, <1>9, <1>10, <1>11, <1>12 DEF Inv, CycleInv, HonestInv

\* The next word is one of the words, and no file or document has it.
LEMMA NextWordFacts ==
    ASSUME Inv, count.edits < MaxEdits
    PROVE  NextWord \in Words /\ count.edits \in Nat
BY InvParts, CycleConstants DEF NextWord, Words, CountType

\* The user adds a word to a file.
LEMMA UserEditInv ==
    ASSUME Inv, NEW p \in Paths, UserEdit(p)
    PROVE  Inv'
PROOF
<1> DEFINE text == [disk[p].text EXCEPT ![NextWord] = @ + 1]
           live == TRUE
<1>1. /\ MayTouch(p) /\ count.edits < MaxEdits /\ Touch(p, live, text)
      /\ user' = [user EXCEPT ![p].typed = @ \cup {NextWord}]
      /\ count' = [count EXCEPT !.edits = @ + 1]
      /\ UNCHANGED <<up, stable, prior, intents, staged, epoch, engine, fs, reply, changed>>
  BY DEF UserEdit, dbVars
<1>2. NextWord \in Words /\ count.edits \in Nat /\ count \in CountType
  BY <1>1, InvParts, NextWordFacts
<1>3. /\ disk[p].text \in Texts /\ user[p] \in UserType /\ user \in [Paths -> UserType]
      /\ \A w \in Words : disk[p].text[w] \in Nat
  BY InvParts, FileTyped DEF Types
<1>4. count' \in CountType /\ count'.edits = NextWord /\ NextWord > count.edits
  BY <1>1, <1>2 DEF CountType, NextWord
<1>5. /\ text \in Texts /\ text[NextWord] = disk[p].text[NextWord] + 1
      /\ \A w \in Words \ {NextWord} : text[w] = disk[p].text[w]
  BY <1>2, <1>3 DEF Texts
<1>6. /\ user' \in [Paths -> UserType]
      /\ \A q \in Paths \ {p} : user'[q] = user[q]
      /\ user'[p].gone = user[p].gone /\ user'[p].typed = user[p].typed \cup {NextWord}
  BY <1>1, <1>2, <1>3 DEF UserType
<1> HIDE DEF text
<1>7. text[NextWord] > 0 /\ \A w \in Words : text[w] >= disk[p].text[w]
  BY <1>2, <1>3, <1>5
<1>8. user[p].gone \subseteq user'[p].gone /\ user[p].typed \subseteq Words
  BY <1>3, <1>6 DEF UserType
<1>9. /\ live /\ live \in BOOLEAN /\ count'.edits >= count.edits
      /\ \A w \in user'[p].typed : w \in user[p].typed \/ (w = NextWord /\ w <= count'.edits)
  BY <1>2, <1>4, <1>6 DEF NextWord
<1> HIDE DEF live
<1>10. \A w \in user'[p].typed :
         live /\ (text[w] > 0 \/ (w \in user[p].typed /\ text[w] >= disk[p].text[w]))
  BY <1>6, <1>7, <1>8, <1>9
<1> QED
  BY <1>1, <1>4, <1>5, <1>6, <1>7, <1>8, <1>9, <1>10, UserTouches

\* The user creates a file where there is none.
LEMMA UserCreateInv ==
    ASSUME Inv, NEW p \in Paths, UserCreate(p)
    PROVE  Inv'
PROOF
<1> DEFINE text == [NoWords EXCEPT ![NextWord] = 1]
           live == TRUE
<1>1. /\ MayTouch(p) /\ count.edits < MaxEdits /\ Touch(p, live, text) /\ ~disk[p].live
      /\ user' = [user EXCEPT ![p].typed = {NextWord}]
      /\ count' = [count EXCEPT !.edits = @ + 1]
      /\ UNCHANGED <<up, stable, prior, intents, staged, epoch, engine, fs, reply, changed>>
  BY DEF UserCreate, dbVars
<1>2. NextWord \in Words /\ count.edits \in Nat /\ count \in CountType
  BY <1>1, InvParts, NextWordFacts
<1>3. disk[p].text = NoWords /\ user[p] \in UserType /\ user \in [Paths -> UserType]
  BY <1>1, InvParts DEF Types, TablesInv
<1>4. count' \in CountType /\ count'.edits = NextWord /\ NextWord > count.edits
  BY <1>1, <1>2 DEF CountType, NextWord
<1>5. text \in Texts /\ text[NextWord] = 1 /\ \A w \in Words : text[w] >= disk[p].text[w]
  BY <1>2, <1>3 DEF Texts, NoWords
<1>6. /\ user' \in [Paths -> UserType]
      /\ \A q \in Paths \ {p} : user'[q] = user[q]
      /\ user'[p].gone = user[p].gone /\ user'[p].typed = {NextWord}
  BY <1>1, <1>2, <1>3 DEF UserType
<1> HIDE DEF text
<1>7. user[p].gone \subseteq user'[p].gone /\ text[NextWord] > 0
  BY <1>5, <1>6
<1>8. /\ live /\ live \in BOOLEAN /\ count'.edits >= count.edits
      /\ \A w \in user'[p].typed : w \in user[p].typed \/ (w = NextWord /\ w <= count'.edits)
  BY <1>2, <1>4, <1>6 DEF NextWord
<1> HIDE DEF live
<1>9. \A w \in user'[p].typed :
         live /\ (text[w] > 0 \/ (w \in user[p].typed /\ text[w] >= disk[p].text[w]))
  BY <1>6, <1>7, <1>8
<1> QED
  BY <1>1, <1>4, <1>5, <1>6, <1>7, <1>8, <1>9, UserTouches

\* The user removes a file, and with it what it holds.
LEMMA UserDeleteInv ==
    ASSUME Inv, NEW p \in Paths, UserDelete(p)
    PROVE  Inv'
PROOF
<1> DEFINE text == NoWords
           live == FALSE
           gone == user[p].gone \cup WordsOnDisk(p)
<1>1. /\ MayTouch(p) /\ Touch(p, live, text)
      /\ user' = [user EXCEPT ![p] = [typed |-> {}, gone |-> gone]]
      /\ count' = [count EXCEPT !.deletes = @ + 1]
      /\ UNCHANGED <<up, stable, prior, intents, staged, epoch, engine, fs, reply, changed>>
  BY DEF UserDelete, dbVars
<1>2. /\ count \in CountType /\ user \in [Paths -> UserType] /\ user[p].gone \subseteq Words
      /\ \A w \in Words : disk[p].text[w] \in Nat
  BY InvParts, FileTyped DEF Types
<1>3. count' \in CountType /\ count'.edits = count.edits /\ count.edits \in Nat
  BY <1>1, <1>2 DEF CountType
<1>4. gone \in SUBSET Words /\ user[p].gone \subseteq gone
      /\ \A w \in Words : 0 >= disk[p].text[w] \/ w \in gone
  BY <1>2 DEF WordsOnDisk
<1> HIDE DEF gone
<1>5. /\ user' \in [Paths -> UserType]
      /\ \A q \in Paths \ {p} : user'[q] = user[q]
      /\ user'[p].gone = gone /\ user'[p].typed = {}
  BY <1>1, <1>2, <1>4 DEF UserType
<1>6. text = NoWords /\ text \in Texts /\ \A w \in Words : text[w] = 0
  BY Blank DEF NoWords
<1> HIDE DEF text
<1>7. \A w \in Words : text[w] >= disk[p].text[w] \/ w \in user'[p].gone
  BY <1>4, <1>5, <1>6
<1>8. live \in BOOLEAN /\ count'.edits >= count.edits /\ user[p].gone \subseteq user'[p].gone
  BY <1>3, <1>4, <1>5
<1> HIDE DEF live
<1>9. \A w \in user'[p].typed : FALSE
  BY <1>5
<1> QED
  BY <1>1, <1>3, <1>5, <1>6, <1>7, <1>8, <1>9, UserTouches

-----------------------------------------------------------------------------
(* A batch from the log: stable changes.                                   *)

\* What is said of files does not depend on stable.
LEMMA FilesStill ==
    ASSUME Inv, up, UNCHANGED <<up, disk, user, prior, intents, staged, epoch, engine, fs, reply>>
    PROVE  LinkInv' /\ HonestInv'
PROOF
<1>1. LinkInv'
  BY InvParts, MarkLinks DEF Still
<1>2. TablesInv' /\ ExpectInv'
  BY DEF Inv, CycleInv, HonestInv, TablesInv, ExpectInv, Seen, Covered, Recorded, Text
<1> QED
  BY <1>1, <1>2 DEF LinkInv, HonestInv

\* A batch adds insertions by others to a document, or makes its file live or dead.
LEMMA RemoteChanges ==
    ASSUME Inv, up, NEW p \in Paths, NEW new \in StableType, stable' = [stable EXCEPT ![p] = new],
           changed' = TRUE, count' \in CountType, count'.edits >= count.edits,
           stable[p].doc \subseteq new.doc, new.live => new.born, ~new.born => new.doc = {},
           \A op \in new.doc : \/ op \in stable[p].doc
                               \/ op = <<NextWord, 0, "ins">> /\ NextWord <= count'.edits,
           UNCHANGED <<up, disk, user, prior, intents, staged, epoch, engine, fs, reply>>
    PROVE  Inv'
PROOF
<1>0. Types /\ DocInv /\ WordsInv /\ count.edits \in Nat /\ count'.edits \in Nat
  BY InvParts DEF CountType
<1>1. stable' \in [Paths -> StableType] /\ stable'[p] = new
      /\ \A q \in Paths \ {p} : stable'[q] = stable[q]
  BY <1>0 DEF Types
<1>2. LinkInv' /\ HonestInv'
  BY FilesStill
<1>3. Types'
  BY <1>0, <1>1 DEF Types
<1>4. new.doc \in Docs /\ stable[p].doc \in Docs
  BY <1>0, FileTyped DEF StableType
<1>5. Own(new.doc) \subseteq Own(stable[p].doc)
  <2>1. ASSUME NEW op \in Own(new.doc) PROVE op \in Own(stable[p].doc)
    <3>1. op \in new.doc /\ (op[2] # 0 \/ op[3] = "del")
      BY DEF Own
    <3>2. op # <<NextWord, 0, "ins">>
      BY <3>1
    <3> QED
      BY <3>1, <3>2 DEF Own
  <2> QED
    BY <2>1
<1>6. WellFormed(new.doc)
  <2>1. Own(new.doc) \subseteq stable[p].doc
    BY <1>5 DEF Own
  <2>2. WellFormed(stable[p].doc)
    BY <1>0 DEF DocInv
  <2> QED
    BY <1>4, <2>1, <2>2, LaterDoc
<1>7. OpIdsUnique'
  <2>1. ASSUME NEW q \in Paths
        PROVE  prior[q].doc \subseteq stable'[q].doc /\ Own(stable'[q].doc) \subseteq prior[q].doc
    <3>1. prior[q].doc \subseteq stable[q].doc /\ Own(stable[q].doc) \subseteq prior[q].doc
      BY <1>0 DEF DocInv, OpIdsUnique
    <3>2. CASE q = p
      BY <1>1, <1>5, <3>1, <3>2
    <3>3. CASE q # p
      BY <1>1, <3>1, <3>3
    <3> QED
      BY <3>2, <3>3
  <2> QED
    BY <2>1 DEF OpIdsUnique, Own
<1>8. ASSUME NEW q \in Paths
      PROVE  /\ stable'[q].live => stable'[q].born
             /\ ~stable'[q].born => stable'[q].doc = {}
             /\ WellFormed(stable'[q].doc)
             /\ stable[q].doc \subseteq stable'[q].doc
  <2>1. CASE q = p
    BY <1>1, <1>6, <2>1
  <2>2. CASE q # p
    BY <1>0, <1>1, <2>2 DEF DocInv
  <2> QED
    BY <2>1, <2>2
<1>9. DocInv'
  <2>1. ASSUME NEW q \in Paths
        PROVE  /\ WellFormed(prior[q].doc) /\ WellFormed(staged[q].doc)
               /\ WellFormed(epoch.target[q]) /\ \A i \in intents[q] : WellFormed(i.doc)
               /\ RowInv(q)' /\ TargetInv(q)'
    <3>1. /\ WellFormed(prior[q].doc) /\ WellFormed(staged[q].doc)
          /\ WellFormed(epoch.target[q]) /\ \A i \in intents[q] : WellFormed(i.doc)
          /\ RowInv(q) /\ TargetInv(q)
      BY <1>0 DEF DocInv
    <3>2. RowInv(q)'
      BY <3>1 DEF RowInv, Own
    <3>3. TargetInv(q)'
      BY <1>8, <3>1 DEF TargetInv
    <3> QED
      BY <3>1, <3>2, <3>3
  <2> QED
    BY <1>7, <1>8, <2>1 DEF DocInv
<1>10. WordsInv'
  <2>1. ASSUME NEW q \in Paths, NEW w \in user[q].typed PROVE w <= count'.edits
    <3>1. w \in Nat
      BY <1>0, FileTyped DEF Words
    <3> QED
      BY <1>0, <3>1 DEF WordsInv
  <2>2. ASSUME NEW q \in Paths, NEW op \in stable'[q].doc, op[2] = 0 /\ op[3] = "ins"
        PROVE  op[1] <= count'.edits /\ op[1] \notin user[q].typed
    <3>1. CASE op \in stable[q].doc
      <4>1. op[1] <= count.edits /\ op[1] \notin user[q].typed
        BY <1>0, <2>2, <3>1 DEF WordsInv
      <4>2. op[1] \in Nat
        <5>1. stable[q].doc \in Docs
          BY <1>0, FileTyped
        <5> QED
          BY <3>1, <5>1, OpParts DEF Words
      <4> QED
        BY <1>0, <4>1, <4>2
    <3>2. CASE op \notin stable[q].doc
      <4>1. op = <<NextWord, 0, "ins">> /\ NextWord <= count'.edits
        BY <1>1, <2>2, <3>2
      <4>2. NextWord \notin user[q].typed
        BY <1>0 DEF WordsInv, NextWord
      <4> QED
        BY <4>1, <4>2
    <3> QED
      BY <3>1, <3>2
  <2>3. (QuietSwap /\ fs.stage = "checked") => AsExpected'
    BY <1>0 DEF WordsInv, AsExpected
  <2> QED
    BY <2>1, <2>2, <2>3 DEF WordsInv
<1>11. QuietInv'
  BY DEF QuietInv
<1>12. NoSpuriousRemoval'
  <2>1. ASSUME NEW q \in Paths, NEW op \in stable'[q].doc, op[3] = "del"
        PROVE  op[1] \in user[q].gone
    <3>1. op # <<NextWord, 0, "ins">>
      BY <2>1
    <3>2. op \in stable[q].doc
      BY <1>1, <3>1
    <3> QED
      BY <2>1, <3>2 DEF Inv, CycleInv, NoSpuriousRemoval
  <2> QED
    BY <2>1 DEF NoSpuriousRemoval
<1>13. (QuietSwap => NoUserEditLost)'
  <2> SUFFICES ASSUME QuietSwap, NEW q \in Paths, NEW w \in user[q].typed
               PROVE  \/ disk[q].live /\ disk[q].text[w] > 0
                      \/ Inserted(stable'[q].doc, w) \ {0} # {}
    BY DEF NoUserEditLost, Inserted
  <2>1. \/ disk[q].live /\ disk[q].text[w] > 0
        \/ Inserted(stable[q].doc, w) \ {0} # {}
    BY DEF Inv, CycleInv, NoUserEditLost
  <2>2. Inserted(stable[q].doc, w) \subseteq Inserted(stable'[q].doc, w)
    BY <1>8 DEF Inserted
  <2> QED
    BY <2>1, <2>2
<1> QED
  BY <1>2, <1>3, <1>9, <1>10, <1>11, <1>12, <1>13 DEF Inv, CycleInv, LinkInv

\* A remote edit inserts a word of its own.
LEMMA RemoteEditInv ==
    ASSUME Inv, NEW p \in Paths, RemoteEdit(p)
    PROVE  Inv'
PROOF
<1> DEFINE new == [stable[p] EXCEPT !.doc = @ \cup {<<NextWord, 0, "ins">>}]
<1>1. /\ up /\ count.edits < MaxEdits /\ stable[p].live
      /\ stable' = [stable EXCEPT ![p] = new] /\ changed' = TRUE
      /\ count' = [count EXCEPT !.edits = @ + 1]
      /\ UNCHANGED <<up, disk, user, prior, intents, staged, epoch, engine, fs, reply>>
  BY DEF RemoteEdit, userVars
<1>2. NextWord \in Words /\ count.edits \in Nat /\ count \in CountType
  BY <1>1, InvParts, NextWordFacts
<1>3. stable[p] \in StableType /\ stable[p].born
  BY <1>1, InvParts DEF Types, DocInv
<1>4. stable[p].doc \cup {<<NextWord, 0, "ins">>} \in Docs
  BY <1>2, <1>3 DEF StableType, Docs
<1>5. /\ new \in StableType /\ new.live = stable[p].live /\ new.born = stable[p].born
      /\ new.doc = stable[p].doc \cup {<<NextWord, 0, "ins">>}
  BY <1>3, <1>4 DEF StableType
<1> HIDE DEF new
<1>6. count' \in CountType /\ count'.edits = NextWord /\ count'.edits >= count.edits
      /\ NextWord <= count'.edits
  BY <1>1, <1>2 DEF CountType, NextWord
<1>7. /\ stable[p].doc \subseteq new.doc /\ new.born
      /\ \A op \in new.doc : op \in stable[p].doc \/ op = <<NextWord, 0, "ins">>
  BY <1>3, <1>5
<1> QED
  BY <1>1, <1>5, <1>6, <1>7, RemoteChanges

\* A remote file appears.
LEMMA RemoteCreateInv ==
    ASSUME Inv, NEW p \in Paths, RemoteCreate(p)
    PROVE  Inv'
PROOF
<1> DEFINE new == [live |-> TRUE, born |-> TRUE, doc |-> {<<NextWord, 0, "ins">>}]
<1>1. /\ up /\ count.edits < MaxEdits /\ ~stable[p].born
      /\ stable' = [stable EXCEPT ![p] = new] /\ changed' = TRUE
      /\ count' = [count EXCEPT !.edits = @ + 1]
      /\ UNCHANGED <<up, disk, user, prior, intents, staged, epoch, engine, fs, reply>>
  BY DEF RemoteCreate, userVars
<1>2. NextWord \in Words /\ count.edits \in Nat /\ count \in CountType
  BY <1>1, InvParts, NextWordFacts
<1>3. stable[p].doc = {}
  BY <1>1, InvParts DEF DocInv
<1>4. {<<NextWord, 0, "ins">>} \in Docs
  BY <1>2 DEF Docs
<1>5. new \in StableType /\ new.born /\ new.doc = {<<NextWord, 0, "ins">>}
  BY <1>4 DEF StableType
<1> HIDE DEF new
<1>6. count' \in CountType /\ count'.edits = NextWord /\ count'.edits >= count.edits
      /\ NextWord <= count'.edits
  BY <1>1, <1>2 DEF CountType, NextWord
<1>7. /\ stable[p].doc \subseteq new.doc
      /\ \A op \in new.doc : op \in stable[p].doc \/ op = <<NextWord, 0, "ins">>
  BY <1>3, <1>5
<1> QED
  BY <1>1, <1>5, <1>6, <1>7, RemoteChanges

\* A remote file disappears.
LEMMA RemoteDeleteInv ==
    ASSUME Inv, NEW p \in Paths, RemoteDelete(p)
    PROVE  Inv'
PROOF
<1> DEFINE new == [stable[p] EXCEPT !.live = FALSE]
<1>1. /\ up /\ stable[p].live
      /\ stable' = [stable EXCEPT ![p] = new] /\ changed' = TRUE
      /\ count' = [count EXCEPT !.deletes = @ + 1]
      /\ UNCHANGED <<up, disk, user, prior, intents, staged, epoch, engine, fs, reply>>
  BY DEF RemoteDelete, userVars
<1>2. stable[p] \in StableType /\ stable[p].born /\ count \in CountType
  BY <1>1, InvParts DEF Types, DocInv
<1>3. /\ new \in StableType /\ new.born /\ new.doc = stable[p].doc
  BY <1>2 DEF StableType
<1> HIDE DEF new
<1>4. count' \in CountType /\ count'.edits = count.edits /\ count'.edits >= count.edits
  BY <1>1, <1>2 DEF CountType
<1>5. /\ stable[p].doc \subseteq new.doc
      /\ \A op \in new.doc : op \in stable[p].doc
  BY <1>3
<1> QED
  BY <1>1, <1>3, <1>4, <1>5, RemoteChanges

-----------------------------------------------------------------------------
(* The filesystem actor.                                                   *)

\* A step of the request in flight that leaves the files alone.
LEMMA FsMoves ==
    ASSUME Inv, UNCHANGED <<up, disk, user, stable, prior, intents, staged, epoch, engine,
                            reply, changed>>,
           count' \in CountType, count'.edits = count.edits,
           fs.op # "none", fs' \in FsType, fs'.op = fs.op, fs'.path = fs.path, FsInv',
           fs'.stage = "checked" => AsExpected'
    PROVE  Inv'
PROOF
<1>0. Types /\ ProtocolInv /\ fs.op # "none" /\ fs # NoFs
  BY InvParts DEF NoFs
<1>1. engine.phase \in {"Scanning", "Importing", "Projecting"} /\ up
  <2>1. fs.op \in {"scan", "read", "write", "delete"}
    BY InvParts DEF FsType
  <2> QED
    BY <1>0, <2>1, PhaseOfFs
<1>2. ProtocolInv'
  <2>1. Owed' = Owed /\ engine' = engine
    BY DEF Owed
  <2>2. ScanningInv' /\ PlanInv'
    BY <1>0, <1>1 DEF ProtocolInv, ScanningInv, PlanInv
  <2>3. ImportingInv' /\ ProjectingInv'
    BY <1>0, <2>1 DEF ProtocolInv, ImportingInv, ProjectingInv, Working
  <2> QED
    BY <1>1, <2>1, <2>2, <2>3 DEF ProtocolInv, IdleInv, PlanningInv, ImportCommittingInv,
       AwaitingInv, ProjectionCommittingInv
<1>3. Types'
  BY <1>0 DEF Types
<1>4. DocInv' /\ ExpectInv' /\ QuietInv'
  BY DocStill, QuietStill
<1>5. TablesInv' /\ QueueInv' /\ ResultInv'
  <2>1. disk' \in [Paths -> DiskType] /\ user' \in [Paths -> UserType]
    BY <1>0 DEF Types
  <2>2. Later
    BY DEF Later
  <2>3. \A q \in Paths : Grown(q)
    BY <1>0, FileTyped DEF Grown
  <2>4. \A q \in Paths : Covered(q, Text(prior[q].doc))'
    BY InvParts DEF TablesInv, Covered, Text
  <2>5. \A q \in Paths : ~disk'[q].live => disk'[q].text = NoWords
    BY InvParts DEF TablesInv
  <2> QED
    BY <2>1, <2>2, <2>3, <2>4, <2>5, FilesLater
<1>6. WordsInv'
  BY InvParts DEF WordsInv
<1>7. NoSpuriousRemoval' /\ (QuietSwap => NoUserEditLost)'
  BY DEF Inv, CycleInv, NoSpuriousRemoval, NoUserEditLost, Inserted
<1> QED
  BY <1>2, <1>3, <1>4, <1>5, <1>6, <1>7 DEF Inv, CycleInv, HonestInv

\* A scan looks at one path.
LEMMA FsScanStepInv ==
    ASSUME Inv, NEW p \in Paths, FsScanStep(p)
    PROVE  Inv'
PROOF
<1> DEFINE s == IF disk[p].live THEN disk[p].stat ELSE 0
           g == IF fs.todo = {p} THEN "done" ELSE "asked"
<1>1. /\ fs.op = "scan"
      /\ fs' = [fs EXCEPT !.todo = @ \ {p}, !.seen[p] = s, !.stage = g]
      /\ UNCHANGED <<up, disk, user, stable, prior, intents, staged, epoch, engine, reply,
                     changed, count>>
  BY DEF FsScanStep, userVars, dbVars
<1>2. fs \in FsType /\ s \in Nat /\ g \in {"asked", "done"} /\ count \in CountType
  BY InvParts, FileTyped
<1> HIDE DEF s, g
<1>3. fs' \in FsType /\ fs'.op = "scan" /\ fs'.path = fs.path /\ fs'.stage \in {"asked", "done"}
  BY <1>1, <1>2 DEF FsType, Stats
<1>4. FsInv'
  BY <1>3 DEF FsInv
<1> QED
  BY <1>1, <1>2, <1>3, <1>4, FsMoves

\* The fields of a finished request.
LEMMA FinishTyped ==
    ASSUME Inv, NEW ok \in BOOLEAN, NEW stat \in Nat, NEW text \in Texts, Finish(ok, stat, text)
    PROVE  /\ fs' \in FsType /\ fs'.op = fs.op /\ fs'.path = fs.path /\ fs'.stage = "done"
           /\ fs'.ok = ok /\ fs'.stat = stat /\ fs'.text = text
PROOF
<1>1. fs \in FsType
  BY InvParts
<1> QED
  BY <1>1 DEF Finish, FsType

\* A write or delete that ends without success says nothing of the file.
LEMMA FsEnds ==
    ASSUME Inv, fs.op \in {"write", "delete"}, Finish(FALSE, 0, fs.text),
           UNCHANGED <<up, disk, user, stable, prior, intents, staged, epoch, engine,
                       reply, changed>>,
           count' \in CountType, count'.edits = count.edits
    PROVE  Inv'
PROOF
<1> DEFINE ok == FALSE
<1>1. fs.text \in Texts /\ 0 \in Nat /\ ok \in BOOLEAN /\ Finish(ok, 0, fs.text) /\ ~ok
  BY InvParts DEF FsType
<1> HIDE DEF ok
<1>2. /\ fs' \in FsType /\ fs'.op = fs.op /\ fs'.path = fs.path /\ fs'.stage = "done"
      /\ ~fs'.ok /\ fs'.text = fs.text
  BY <1>1, FinishTyped
<1>3. FsInv'
  BY <1>2, InvParts DEF FsInv, Text
<1> QED
  BY <1>2, <1>3, FsMoves

\* An I/O error.
LEMMA FsFailInv ==
    ASSUME Inv, FsFail
    PROVE  Inv'
PROOF
<1>1. /\ fs.op \in {"write", "delete"} /\ Finish(FALSE, 0, fs.text)
      /\ UNCHANGED <<up, disk, user, stable, prior, intents, staged, epoch, engine, reply, changed>>
      /\ count' = [count EXCEPT !.faults = @ + 1]
  BY DEF FsFail, userVars, dbVars
<1>2. count' \in CountType /\ count'.edits = count.edits
  BY <1>1, InvParts DEF CountType
<1> QED
  BY <1>1, <1>2, FsEnds

\* A read of the file the plan expects.
LEMMA FsReadInv ==
    ASSUME Inv, FsRead
    PROVE  Inv'
PROOF
<1> DEFINE p == fs.path
<1>1. /\ fs.op = "read"
      /\ UNCHANGED <<up, disk, user, stable, prior, intents, staged, epoch, engine, reply,
                     changed, count>>
  BY DEF FsRead, userVars, dbVars
<1>2. p \in Paths /\ count \in CountType /\ fs.text \in Texts /\ fs.stat \in Nat
  BY <1>1, InvParts, FsPath DEF FsType
<1>3. disk[p].text \in Texts /\ disk[p].stat \in Nat /\ \A w \in Words : disk[p].text[w] \in Nat
  BY <1>2, InvParts, FileTyped
<1>4. CASE AsExpected
  <2> DEFINE ok == TRUE
  <2>1. Finish(ok, fs.stat, disk[p].text) /\ ok \in BOOLEAN
    BY <1>4 DEF FsRead
  <2> HIDE DEF ok
  <2>2. /\ fs' \in FsType /\ fs'.op = "read" /\ fs'.path = p /\ fs'.stage = "done"
        /\ fs'.stat = fs.stat /\ fs'.text = disk[p].text
    BY <1>1, <1>2, <1>3, <2>1, FinishTyped
  <2>3. fs.stat <= disk[p].stat
    BY <1>2, <1>3, <1>4 DEF AsExpected
  <2>4. Covered(p, Text(prior[p].doc))
    BY <1>2, InvParts DEF TablesInv
  <2>5. ReadOf(fs.path, fs.stat, fs.text)'
    BY <1>1, <1>3, <2>2, <2>3, <2>4 DEF ReadOf, Recorded, Seen, Covered, Text
  <2>6. FsInv'
    BY <2>2, <2>5 DEF FsInv
  <2> QED
    BY <1>1, <1>2, <2>2, <2>6, FsMoves
<1>5. CASE ~AsExpected
  <2> DEFINE ok == FALSE
  <2>1. Finish(ok, fs.stat, fs.text) /\ ok \in BOOLEAN /\ ~ok
    BY <1>5 DEF FsRead
  <2> HIDE DEF ok
  <2>2. fs' \in FsType /\ fs'.op = "read" /\ fs'.path = p /\ fs'.stage = "done" /\ ~fs'.ok
    BY <1>1, <1>2, <2>1, FinishTyped
  <2>3. FsInv'
    BY <2>2 DEF FsInv
  <2> QED
    BY <1>1, <1>2, <2>2, <2>3, FsMoves
<1> QED
  BY <1>4, <1>5

\* A write finishes with success: the file holds the text.
LEMMA FsWritten ==
    ASSUME Inv, fs.op = "write", HoldsTarget, Finish(TRUE, disk[fs.path].stat, fs.text),
           UNCHANGED <<up, disk, user, stable, prior, intents, staged, epoch, engine, reply,
                       changed, count>>
    PROVE  Inv'
PROOF
<1> DEFINE p == fs.path
           ok == TRUE
<1>1. p \in Paths /\ fs.text \in Texts /\ disk[p].stat \in Nat /\ ok \in BOOLEAN
      /\ count \in CountType /\ Finish(ok, disk[p].stat, fs.text)
      /\ \A w \in Words : disk[p].text[w] \in Nat
  BY InvParts, FsPath, FileTyped DEF FsType
<1>2. /\ fs' \in FsType /\ fs'.op = fs.op /\ fs'.path = p /\ fs'.stage = "done"
      /\ fs'.stat = disk[p].stat /\ fs'.text = fs.text
  <2> HIDE DEF ok
  <2> QED
    BY <1>1, FinishTyped
<1>3. disk[p].text = fs.text
  BY DEF HoldsTarget
<1>4. Recorded(fs.path, fs.stat, fs.text)'
  BY <1>1, <1>2, <1>3 DEF Recorded, Seen, Covered
<1>5. FsInv'
  BY <1>2, <1>4, InvParts DEF FsInv, Text
<1> QED
  BY <1>1, <1>2, <1>5, FsMoves

\* The guard of a write or delete.
LEMMA FsCheckInv ==
    ASSUME Inv, FsCheck
    PROVE  Inv'
PROOF
<1>1. /\ fs.op \in {"write", "delete"} /\ fs.stage = "asked"
      /\ UNCHANGED <<up, disk, user, stable, prior, intents, staged, epoch, engine, reply,
                     changed, count>>
  BY DEF FsCheck, userVars, dbVars
<1>2. fs \in FsType /\ count \in CountType
  BY InvParts
<1>3. CASE fs.op = "write" /\ HoldsTarget
  BY <1>1, <1>3, FsWritten DEF FsCheck
<1>4. CASE ~(fs.op = "write" /\ HoldsTarget) /\ AsExpected
  <2>1. fs' = [fs EXCEPT !.stage = "checked"]
    BY <1>4 DEF FsCheck
  <2>2. /\ fs' \in FsType /\ fs'.op = fs.op /\ fs'.path = fs.path /\ fs'.stage = "checked"
        /\ fs'.stat = fs.stat /\ fs'.text = fs.text
    BY <1>2, <2>1 DEF FsType
  <2>3. AsExpected'
    BY <1>1, <1>4, <2>2 DEF AsExpected
  <2>4. FsInv'
    BY <1>1, <2>2, InvParts DEF FsInv, Text
  <2> QED
    BY <1>1, <1>2, <2>2, <2>3, <2>4, FsMoves
<1>5. CASE ~(fs.op = "write" /\ HoldsTarget) /\ ~AsExpected
  <2>1. Finish(FALSE, 0, fs.text)
    BY <1>5 DEF FsCheck
  <2> QED
    BY <1>1, <1>2, <2>1, FsEnds
<1> QED
  BY <1>3, <1>4, <1>5

\* The look at the result.
LEMMA FsVerifyInv ==
    ASSUME Inv, FsVerify
    PROVE  Inv'
PROOF
<1>1. /\ fs.op \in {"write", "delete"}
      /\ Finish(HoldsTarget, IF fs.op = "write" THEN disk[fs.path].stat ELSE 0, fs.text)
      /\ UNCHANGED <<up, disk, user, stable, prior, intents, staged, epoch, engine, reply,
                     changed, count>>
  BY DEF FsVerify, userVars, dbVars
<1> DEFINE p == fs.path
           s == IF fs.op = "write" THEN disk[fs.path].stat ELSE 0
           ok == HoldsTarget
<1>2. /\ p \in Paths /\ fs.text \in Texts /\ s \in Nat /\ ok \in BOOLEAN /\ count \in CountType
      /\ \A w \in Words : disk[p].text[w] \in Nat
  <2>1. p \in Paths /\ fs.text \in Texts /\ count \in CountType
    BY <1>1, InvParts, FsPath DEF FsType
  <2>2. disk[p].stat \in Nat /\ \A w \in Words : disk[p].text[w] \in Nat
    BY <2>1, InvParts, FileTyped
  <2> QED
    BY <2>1, <2>2 DEF HoldsTarget
<1>3. /\ fs' \in FsType /\ fs'.op = fs.op /\ fs'.path = p /\ fs'.stage = "done"
      /\ fs'.ok = ok /\ fs'.stat = s /\ fs'.text = fs.text
  <2>1. Finish(ok, s, fs.text)
    BY <1>1
  <2> HIDE DEF ok, s
  <2> QED
    BY <1>2, <2>1, FinishTyped
<1>4. ASSUME fs'.op = "write", fs'.ok PROVE Recorded(fs.path, fs.stat, fs.text)'
  <2>1. disk[p].text = fs.text
    BY <1>3, <1>4 DEF HoldsTarget
  <2>2. fs'.stat = disk[p].stat /\ disk[p].stat \in Nat
    BY <1>2, <1>3, <1>4, InvParts, FileTyped
  <2> QED
    BY <1>1, <1>2, <1>3, <2>1, <2>2 DEF Recorded, Seen, Covered
<1>5. FsInv'
  BY <1>1, <1>3, <1>4, InvParts DEF FsInv, Text
<1> QED
  BY <1>1, <1>2, <1>3, <1>5, FsMoves

\* The document a write shows holds at least what prior shows.
LEMMA TargetCovers ==
    ASSUME Inv, fs.op = "write"
    PROVE  \A w \in Words : Text(epoch.target[fs.path])[w] >= Text(prior[fs.path].doc)[w]
PROOF
<1> DEFINE p == fs.path
<1>1. /\ p \in Paths /\ epoch.kind = "projection" /\ p \in epoch.expected \ epoch.deletes
  BY FsPath DEF Owed
<1>2. /\ prior[p].doc \subseteq epoch.target[p] /\ epoch.target[p] \subseteq stable[p].doc
      /\ Own(stable[p].doc) \subseteq prior[p].doc /\ WellFormed(prior[p].doc)
  BY <1>1, InvParts DEF DocInv, TargetInv, OpIdsUnique
<1>3. Own(epoch.target[p]) \subseteq prior[p].doc
  BY <1>2 DEF Own
<1>4. prior[p].doc \in Docs /\ epoch.target[p] \in Docs
  BY <1>1, InvParts, FileTyped
<1> QED
  BY <1>2, <1>3, <1>4, LaterDoc

\* A typed word in a file that prior describes is in stable: the file was imported.
LEMMA ImportedWord ==
    ASSUME Inv, NEW p \in Paths, NEW w \in user[p].typed, disk[p].text = Text(prior[p].doc),
           disk[p].text[w] > 0
    PROVE  Inserted(stable[p].doc, w) \ {0} # {}
PROOF
<1>1. /\ w \in Words /\ prior[p].doc \in Docs /\ stable[p].doc \in Docs
      /\ WellFormed(prior[p].doc) /\ prior[p].doc \subseteq stable[p].doc
  BY InvParts, FileTyped DEF DocInv, OpIdsUnique
<1>2. /\ Text(prior[p].doc)[w] = Cardinality(Visible(prior[p].doc, w))
      /\ IsFiniteSet(Visible(prior[p].doc, w))
  BY <1>1, DocFinite
<1>3. Visible(prior[p].doc, w) # {}
  BY <1>2, FS_EmptySet
<1>4. PICK c : c \in Inserted(prior[p].doc, w)
  BY <1>3 DEF Visible
<1>5. <<w, c, "ins">> \in stable[p].doc
  BY <1>1, <1>4, InsertedIs
<1>6. c # 0
  <2>1. ASSUME c = 0 PROVE FALSE
    <3>1. w \notin user[p].typed
      BY <1>5, <2>1, InvParts DEF WordsInv
    <3> QED
      BY <3>1
  <2> QED
    BY <2>1
<1> QED
  BY <1>1, <1>5, <1>6, InsertedIs

\* The rename or the unlink.
LEMMA FsSwapInv ==
    ASSUME Inv, FsSwap
    PROVE  Inv'
PROOF
<1> DEFINE p == fs.path
<1>0. /\ fs.op \in {"write", "delete"} /\ fs.stage = "checked"
      /\ UNCHANGED <<up, stable, prior, intents, staged, epoch, engine, reply, changed, count>>
  BY DEF FsSwap, dbVars
<1>1. /\ p \in Paths /\ Types /\ fs \in FsType /\ fs.text \in Texts /\ count \in CountType
      /\ epoch.kind = "projection" /\ engine.phase = "Projecting" /\ p \in Owed
  BY <1>0, InvParts, FsPath DEF FsType
<1>2. CASE ~(fs.op = "write" \/ disk[p].live)
  <2>1. Finish(FALSE, 0, fs.text) /\ UNCHANGED <<disk, user>>
    BY <1>2 DEF FsSwap, userVars
  <2> QED
    BY <1>0, <1>1, <2>1, FsEnds
<1>3. CASE fs.op = "write" \/ disk[p].live
  <2> DEFINE live == fs.op = "write"
  <2>1. /\ Touch(p, live, fs.text)
        /\ fs' = [fs EXCEPT !.stage = "swapped"]
        /\ user' = IF fs.op = "write" THEN user
                   ELSE [user EXCEPT ![p].gone = @ \cup WordsOnDisk(p)]
    BY <1>3 DEF FsSwap
  <2>2. /\ fs' \in FsType /\ fs'.op = fs.op /\ fs'.path = p /\ fs'.stage = "swapped"
        /\ fs'.text = fs.text
    BY <1>1, <2>1 DEF FsType
  <2>3. disk[p].stat \in Nat /\ disk \in [Paths -> DiskType] /\ user \in [Paths -> UserType]
        /\ \A w \in Words : disk[p].text[w] \in Nat
    BY <1>1, FileTyped DEF Types
  <2>4. /\ disk' \in [Paths -> DiskType]
        /\ disk'[p].live = live /\ disk'[p].text = fs.text /\ disk'[p].stat > disk[p].stat
        /\ \A q \in Paths \ {p} : disk'[q] = disk[q]
    <3> DEFINE new == [live |-> live, stat |-> disk[p].stat + 1, text |-> fs.text]
    <3>1. disk' = [disk EXCEPT ![p] = new]
      BY <2>1 DEF Touch
    <3>2. live \in BOOLEAN
      OBVIOUS
    <3> HIDE DEF live
    <3>3. /\ new \in DiskType /\ new.live = live /\ new.text = fs.text
          /\ new.stat > disk[p].stat
      BY <1>1, <2>3, <3>2 DEF DiskType
    <3> HIDE DEF new
    <3> QED
      BY <1>1, <2>3, <3>1, <3>3
  <2>5. /\ user' \in [Paths -> UserType]
        /\ \A q \in Paths : /\ user'[q].typed = user[q].typed
                            /\ user[q].gone \subseteq user'[q].gone
        /\ \A q \in Paths \ {p} : user'[q] = user[q]
        /\ fs.op = "delete" => user'[p].gone = user[p].gone \cup WordsOnDisk(p)
    <3>1. CASE fs.op = "write"
      BY <2>1, <2>3, <3>1
    <3>2. CASE fs.op = "delete"
      <4> DEFINE g == user[p].gone \cup WordsOnDisk(p)
      <4>1. user' = [user EXCEPT ![p].gone = g]
        BY <2>1, <3>2
      <4>2. g \in SUBSET Words /\ user[p].gone \subseteq g
        BY <1>1, FileTyped DEF WordsOnDisk
      <4> HIDE DEF g
      <4>3. /\ user' \in [Paths -> UserType]
            /\ \A q \in Paths : user'[q].typed = user[q].typed
            /\ \A q \in Paths \ {p} : user'[q] = user[q]
            /\ user'[p].gone = g
        BY <1>1, <2>3, <4>1, <4>2 DEF UserType
      <4> QED
        BY <4>2, <4>3 DEF g
    <3> QED
      BY <1>0, <3>1, <3>2
  <2>6. Later
    BY <2>4, <2>5 DEF Later
  <2>7. \A q \in Paths : Grown(q) \/ (fs.op \in {"write", "delete"} /\ q = fs.path)
    <3>1. ASSUME NEW q \in Paths, q # p PROVE Grown(q)
      <4>1. disk'[q] = disk[q] /\ \A w \in Words : disk[q].text[w] \in Nat
        BY <1>1, <2>4, <3>1, FileTyped
      <4> QED
        BY <4>1 DEF Grown
    <3> QED
      BY <1>0, <3>1
  <2>8. ASSUME NEW q \in Paths PROVE Covered(q, Text(prior[q].doc))'
    <3>1. PICK t : t = Text(prior[q].doc)
      OBVIOUS
    <3>2. t \in Texts /\ Covered(q, t)
      BY <3>1, InvParts, TextsTyped DEF TablesInv
    <3>3. CASE q = p /\ fs.op = "write"
      <4>1. fs.text = Text(epoch.target[p])
        BY <3>3, InvParts DEF FsInv
      <4>2. \A w \in Words : disk'[p].text[w] >= t[w]
        BY <2>4, <3>1, <3>3, <4>1, TargetCovers
      <4> QED
        BY <1>0, <3>1, <3>3, <4>2 DEF Covered, Text
    <3>4. CASE q # p \/ fs.op = "delete"
      <4>1. ASSUME q = p PROVE Grown(p)
        <5>1. fs.text = NoWords
          BY <3>4, <4>1, InvParts DEF FsInv
        <5>2. \A w \in Words : disk'[p].text[w] = 0
          BY <2>4, <5>1 DEF NoWords
        <5>3. \A w \in Words : 0 >= disk[p].text[w] \/ w \in user'[p].gone
          BY <2>3, <2>5, <3>4, <4>1 DEF WordsOnDisk
        <5> QED
          BY <5>2, <5>3 DEF Grown
      <4>2. Grown(q)
        BY <2>7, <3>4, <4>1
      <4>3. Covered(q, t)'
        BY <1>1, <2>4, <2>6, <3>2, <4>2, CoveredLater
      <4> QED
        BY <1>0, <3>1, <4>3 DEF Covered, Text
    <3> QED
      BY <1>0, <3>3, <3>4
  <2>9. \A q \in Paths : ~disk'[q].live => disk'[q].text = NoWords
    <3>1. ~live => fs.text = NoWords
      BY <1>0, InvParts DEF FsInv
    <3> HIDE DEF live
    <3> QED
      BY <2>4, <3>1, InvParts DEF TablesInv
  <2>10. TablesInv' /\ QueueInv' /\ ResultInv'
    BY <1>0, <2>4, <2>5, <2>6, <2>7, <2>8, <2>9, FilesLater
  <2>11. Types'
    BY <1>0, <1>1, <2>2, <2>4, <2>5 DEF Types
  <2>12. DocInv' /\ ExpectInv' /\ QuietInv'
    BY <1>0, DocStill, QuietStill
  <2>13. ProtocolInv'
    <3>1. Owed' = Owed /\ engine' = engine /\ up
      BY <1>0, <1>1, InvParts, PhaseOfFs DEF Owed
    <3>2. PlanInv' /\ ProjectingInv'
      BY <1>0, <1>1, <2>2, <3>1, InvParts DEF ProtocolInv, PlanInv, ProjectingInv, Working
    <3> QED
      BY <1>1, <3>1, <3>2 DEF ProtocolInv, IdleInv, ScanningInv, PlanningInv, ImportingInv,
         ImportCommittingInv, AwaitingInv, ProjectionCommittingInv
  <2>14. FsInv'
    BY <1>0, <2>2, InvParts DEF FsInv, Text
  <2>15. WordsInv'
    BY <1>0, <2>2, <2>5, InvParts DEF WordsInv
  <2>16. NoSpuriousRemoval'
    BY <1>0, <2>5 DEF Inv, CycleInv, NoSpuriousRemoval
  <2>17. (QuietSwap => NoUserEditLost)'
    <3> SUFFICES ASSUME QuietSwap, NEW q \in Paths, NEW w \in user[q].typed
                 PROVE  \/ disk'[q].live /\ disk'[q].text[w] > 0
                        \/ Inserted(stable[q].doc, w) \ {0} # {}
      BY <1>0, <2>5 DEF NoUserEditLost, Inserted
    <3>1. \/ disk[q].live /\ disk[q].text[w] > 0
          \/ Inserted(stable[q].doc, w) \ {0} # {}
      BY DEF Inv, CycleInv, NoUserEditLost
    <3>2. CASE q # p
      BY <2>4, <3>1, <3>2
    <3>3. CASE q = p /\ disk[p].live /\ disk[p].text[w] > 0
      <4>1. AsExpected
        BY <1>0, InvParts DEF WordsInv
      <4>2. disk[p].stat = fs.stat /\ fs.stat = epoch.stat[p] /\ disk[p].stat > 0
        BY <1>0, <1>1, <3>3, <4>1, InvParts DEF AsExpected, FsInv, TablesInv
      <4>3. epoch.stat[p] = IF prior[p].live THEN prior[p].stat ELSE 0
        BY <1>1, InvParts DEF ExpectInv, Owed
      <4>4. prior[p].live /\ disk[p].stat = prior[p].stat
        BY <2>3, <4>2, <4>3
      <4>5. disk[p].text = Text(prior[p].doc)
        BY <1>1, <3>3, <4>4, InvParts DEF TablesInv, Seen
      <4> QED
        BY <1>1, <3>3, <4>5, ImportedWord
    <3> QED
      BY <3>1, <3>2, <3>3
  <2> QED
    BY <2>10, <2>11, <2>12, <2>13, <2>14, <2>15, <2>16, <2>17 DEF Inv, CycleInv, HonestInv
<1> QED
  BY <1>2, <1>3

-----------------------------------------------------------------------------
(* The start, a crash and a restart.                                       *)

\* An engine that has not begun, and a scan or nothing in the filesystem.
LEMMA StartLinks ==
    ASSUME engine' = EngineAtStart, reply' = {}, epoch' = NoEpoch,
           fs' = IF up' THEN ScanOf(Paths) ELSE NoFs
    PROVE  /\ LinkInv' /\ fs' \in FsType /\ fs'.stage = "asked"
           /\ engine'.phase = "Scanning"
PROOF
<1>1. /\ engine'.phase = "Scanning" /\ engine'.requests = <<>>
      /\ engine'.reads = {} /\ engine'.writes = {} /\ engine'.deletes = {}
  BY DEF EngineAtStart
<1>2. /\ fs' \in FsType /\ fs'.stage = "asked" /\ fs'.op \in {"none", "scan"}
      /\ up' => fs'.op = "scan"
  <2>1. CASE up'
    BY <2>1, ScanTyped
  <2>2. CASE ~up'
    BY <2>2, EmptyRecords DEF NoFs
  <2> QED
    BY <2>1, <2>2
<1>3. ProtocolInv'
  BY <1>1, <1>2 DEF ProtocolInv, IdleInv, ScanningInv, PlanningInv, ImportingInv,
     ImportCommittingInv, AwaitingInv, ProjectingInv, ProjectionCommittingInv, PlanInv
<1>4. FsInv'
  BY <1>2 DEF FsInv
<1>5. QueueInv' /\ ResultInv'
  BY <1>1 DEF QueueInv, ResultInv, Unbroken
<1> QED
  BY <1>1, <1>2, <1>3, <1>4, <1>5 DEF LinkInv

\* The fields of no epoch.
LEMMA NoEpochFields ==
    /\ NoEpoch.kind = "none" /\ NoEpoch.expected = {} /\ NoEpoch.done = {}
    /\ \A p \in Paths : NoEpoch.target[p] = {}
BY DEF NoEpoch

\* The initial states.
LEMMA InitInv ==
    ASSUME Init
    PROVE  Inv
PROOF
<1> USE DEF Init
<1>1. /\ engine.phase = "Scanning" /\ engine.requests = <<>>
      /\ engine.reads = {} /\ engine.writes = {} /\ engine.deletes = {}
  BY DEF EngineAtStart
<1>s. fs \in FsType /\ fs.stage = "asked" /\ fs.op = "scan"
  BY ScanTyped
<1>p. ProtocolInv
  BY <1>1, <1>s DEF ProtocolInv, IdleInv, ScanningInv, PlanningInv, ImportingInv,
     ImportCommittingInv, AwaitingInv, ProjectingInv, ProjectionCommittingInv, PlanInv
<1>q. FsInv /\ QueueInv /\ ResultInv
  BY <1>1, <1>s DEF FsInv, QueueInv, ResultInv, Unbroken
<1>2. Types
  <2>1. disk \in [Paths -> DiskType]
    BY Blank DEF DiskType
  <2>2. stable \in [Paths -> StableType]
    BY EmptyDoc DEF StableType
  <2>3. prior \in [Paths -> PriorType]
    BY EmptyDoc DEF PriorType
  <2>4. intents \in [Paths -> SUBSET IntentType] /\ staged \in [Paths -> RowType]
    BY EmptyRecords
  <2>5. epoch \in EpochType /\ epoch.done \subseteq epoch.expected /\ engine \in EngineType
    BY EmptyRecords, NoEpochFields
  <2>6. user \in [Paths -> UserType] /\ count \in CountType
    BY DEF UserType, CountType
  <2> QED
    BY <1>s, <2>1, <2>2, <2>3, <2>4, <2>5, <2>6 DEF Types
<1>3. /\ \A p \in Paths : stable[p].doc = {} /\ prior[p].doc = {} /\ staged[p].doc = {}
      /\ \A p \in Paths : staged[p].kind = "none" /\ intents[p] = {} /\ epoch.target[p] = {}
      /\ \A p \in Paths : stable[p].live = stable[p].born
      /\ \A p \in Paths : user[p].typed = {} /\ user[p].gone = {}
      /\ epoch.kind = "none"
  BY NoEpochFields DEF NoRow
<1>4. DocInv
  BY <1>3, EmptyDoc DEF DocInv, OpIdsUnique, Own, RowInv, TargetInv
<1>5. /\ \A p \in Paths : disk[p].text = NoWords /\ disk[p].stat = 1 /\ prior[p].stat = 1
      /\ \A w \in Words : NoWords[w] = 0
  BY DEF NoWords
<1> HIDE DEF Init
<1>6. TablesInv /\ ExpectInv
  <2>1. ASSUME NEW p \in Paths
        PROVE  Seen(p, prior[p].stat, Text(prior[p].doc)) /\ Covered(p, Text(prior[p].doc))
    <3>1. Text(prior[p].doc) = NoWords
      BY <1>3, EmptyDoc
    <3> QED
      BY <1>5, <3>1 DEF Seen, Covered
  <2> QED
    BY <1>3, <1>5, <2>1 DEF TablesInv, ExpectInv
<1>7. WordsInv
  BY <1>s, <1>3 DEF WordsInv
<1>8. QuietInv
  BY <1>1 DEF QuietInv
<1>9. NoSpuriousRemoval /\ NoUserEditLost
  BY <1>3 DEF NoSpuriousRemoval, NoUserEditLost
<1> QED
  BY <1>p, <1>q, <1>2, <1>4, <1>6, <1>7, <1>8, <1>9 DEF Inv, CycleInv, HonestInv

\* A crash keeps the tables and the files.
LEMMA CrashInv ==
    ASSUME Inv, Crash
    PROVE  Inv'
PROOF
<1>1. /\ up' = FALSE /\ count' = [count EXCEPT !.faults = @ + 1]
      /\ epoch' = NoEpoch /\ reply' = {} /\ changed' = FALSE
      /\ engine' = EngineAtStart /\ fs' = NoFs
      /\ UNCHANGED <<disk, user, stable, prior, intents, staged>>
  BY DEF Crash, userVars, dbVars
<1>2. count' \in CountType /\ count'.edits = count.edits
  BY <1>1, InvParts DEF CountType
<1>3. LinkInv' /\ fs' \in FsType /\ fs'.stage = "asked" /\ engine'.phase = "Scanning"
  BY <1>1, StartLinks
<1>4. Types'
  BY <1>1, <1>2, <1>3, EmptyRecords, NoEpochFields DEF Inv, Types
<1>5. DocInv'
  <2>1. ASSUME NEW p \in Paths
        PROVE  RowInv(p)' /\ TargetInv(p)' /\ WellFormed(epoch'.target[p])
    <3>1. RowInv(p)
      BY InvParts DEF DocInv
    <3>2. RowInv(p)'
      BY <1>1, <3>1 DEF RowInv
    <3>3. TargetInv(p)' /\ WellFormed(epoch'.target[p])
      BY <1>1, NoEpochFields, EmptyDoc DEF TargetInv
    <3> QED
      BY <3>2, <3>3
  <2> QED
    BY <1>1, <2>1, InvParts DEF DocInv, OpIdsUnique
<1>6. TablesInv' /\ ExpectInv'
  BY <1>1, NoEpochFields DEF Inv, CycleInv, HonestInv, TablesInv, ExpectInv, Seen, Covered,
     Recorded, Text
<1>7. WordsInv' /\ QuietInv'
  BY <1>1, <1>2, <1>3, InvParts DEF WordsInv, QuietInv
<1>8. NoSpuriousRemoval' /\ (QuietSwap => NoUserEditLost)'
  BY <1>1 DEF Inv, CycleInv, NoSpuriousRemoval, NoUserEditLost
<1> QED
  BY <1>3, <1>4, <1>5, <1>6, <1>7, <1>8 DEF Inv, CycleInv, LinkInv, HonestInv

\* A restart clears the rows of the import that was interrupted.
LEMMA RestartInv ==
    ASSUME Inv, Restart
    PROVE  Inv'
PROOF
<1>1. /\ ~up /\ up' = TRUE /\ staged' = [p \in Paths |-> NoRow] /\ fs' = ScanOf(Paths)
      /\ UNCHANGED <<disk, user, stable, prior, intents, epoch, engine, reply, changed, count>>
  BY DEF Restart, userVars
<1>2. engine = EngineAtStart /\ reply = {} /\ epoch = NoEpoch
  <2>1. engine = EngineAtStart
    BY <1>1, InvParts DEF ProtocolInv, PlanInv
  <2>2. engine.phase = "Scanning"
    BY <2>1 DEF EngineAtStart
  <2> QED
    BY <2>1, <2>2, InvParts DEF ProtocolInv, ScanningInv
<1>3. LinkInv' /\ fs' \in FsType /\ fs'.stage = "asked" /\ engine'.phase = "Scanning"
  BY <1>1, <1>2, StartLinks
<1>4. Types'
  BY <1>1, <1>3, EmptyRecords DEF Inv, Types
<1>5. \A p \in Paths : staged'[p].kind = "none" /\ staged'[p].doc = {}
  BY <1>1 DEF NoRow
<1>6. DocInv'
  <2>1. ASSUME NEW p \in Paths
        PROVE  RowInv(p)' /\ TargetInv(p)' /\ WellFormed(staged'[p].doc)
    BY <1>1, <1>2, <1>5, NoEpochFields, EmptyDoc DEF RowInv, TargetInv
  <2> QED
    BY <1>1, <2>1, InvParts DEF DocInv, OpIdsUnique
<1>7. TablesInv' /\ ExpectInv'
  <2>1. ExpectInv'
    BY <1>1, <1>2, NoEpochFields DEF ExpectInv
  <2>2. ASSUME NEW p \in Paths
        PROVE  /\ disk'[p].stat > 0 /\ (~disk'[p].live => disk'[p].text = NoWords)
               /\ prior'[p].live => Seen(p, prior[p].stat, Text(prior[p].doc))'
               /\ Covered(p, Text(prior[p].doc))'
               /\ \A i \in intents'[p] : i.text = Text(i.doc)
    BY <1>1, InvParts DEF TablesInv, Seen, Covered, Text
  <2>3. TablesInv'
    BY <1>5, <2>2 DEF TablesInv
  <2> QED
    BY <2>1, <2>3
<1>8. WordsInv' /\ QuietInv'
  BY <1>1, <1>3, InvParts DEF WordsInv, QuietInv
<1>9. NoSpuriousRemoval' /\ (QuietSwap => NoUserEditLost)'
  BY <1>1 DEF Inv, CycleInv, NoSpuriousRemoval, NoUserEditLost
<1> QED
  BY <1>3, <1>4, <1>6, <1>7, <1>8, <1>9 DEF Inv, CycleInv, LinkInv, HonestInv

-----------------------------------------------------------------------------
(* The semantic actor.                                                     *)

\* A served request leaves the queue, and the engine is otherwise as it was.
LEMMA ServeTyped ==
    ASSUME Inv, NEW type, Serve(type)
    PROVE  /\ up /\ engine' \in EngineType
           /\ engine'.phase = engine.phase /\ engine'.dirty = engine.dirty
           /\ engine'.reads = engine.reads /\ engine'.writes = engine.writes
           /\ engine'.deletes = engine.deletes
           /\ engine'.requests = Tail(engine.requests)
           /\ engine.requests \in Seq(RequestType)
           /\ Len(engine.requests) \in Nat /\ Len(engine.requests) > 0
           /\ Len(engine'.requests) = Len(engine.requests) - 1
           /\ Asked = engine.requests[1] /\ Asked \in RequestType /\ Asked.type = type
           /\ \A i \in 1 .. Len(engine'.requests) : /\ i + 1 \in 2 .. Len(engine.requests)
                                                    /\ engine'.requests[i] = engine.requests[i + 1]
           /\ Len(engine.requests) = 1 => engine'.requests = <<>>
PROOF
<1> DEFINE q == engine.requests
           t == Tail(q)
<1>1. /\ up /\ q # <<>> /\ Head(q).type = type
      /\ engine' = [engine EXCEPT !.requests = t]
  BY DEF Serve
<1>2. engine \in EngineType /\ q \in Seq(RequestType)
  BY InvParts DEF EngineType
<1> HIDE DEF q
<1>3. /\ t \in Seq(RequestType) /\ Len(q) \in Nat /\ Len(q) > 0 /\ Len(t) = Len(q) - 1
      /\ Head(q) = q[1] /\ q[1] \in RequestType
  BY <1>1, <1>2
<1>4. \A i \in 1 .. Len(t) : t[i] = q[i + 1]
  BY <1>1, <1>2
<1> HIDE DEF t
<1>5. Len(q) = 1 => t = <<>>
  <2>1. Len(q) = 1 => Len(t) = 0
    BY <1>3
  <2> QED
    BY <1>3, <2>1
<1>6. /\ engine' \in EngineType
      /\ engine'.phase = engine.phase /\ engine'.dirty = engine.dirty
      /\ engine'.reads = engine.reads /\ engine'.writes = engine.writes
      /\ engine'.deletes = engine.deletes /\ engine'.requests = t
  BY <1>1, <1>2, <1>3 DEF EngineType
<1>7. \A i \in 1 .. Len(t) : i + 1 \in 2 .. Len(q)
  BY <1>3
<1> QED
  BY <1>1, <1>2, <1>3, <1>4, <1>5, <1>6, <1>7 DEF q, t, Asked

\* The first request of a queue that ends with the commit of an epoch.
LEMMA FirstOfCommitting ==
    ASSUME NEW kind, NEW action, NEW commit, action # commit, Committing(kind, action, commit),
           engine.requests \in Seq(RequestType), engine.requests # <<>>
    PROVE  /\ reply = {} /\ fs = NoFs /\ epoch.kind = kind
           /\ engine.requests[1].type \in {action, commit}
           /\ engine.requests[1].type = action =>
                 /\ Len(engine.requests) > 1 /\ engine.requests[1].path \in Owed
           /\ engine.requests[1].type = commit =>
                 Len(engine.requests) = 1 /\ (engine.requests[1].ok => Owed = {})
PROOF
<1> DEFINE q == engine.requests
           n == Len(q)
<1>1. /\ fs = NoFs /\ n \in Nat /\ n > 0 /\ q[n].type = commit
      /\ reply = {} /\ epoch.kind = kind
      /\ Results(q, action, n - 1)
      /\ PathsOf(q, n - 1) \subseteq Owed
      /\ q[n].ok => Owed \subseteq PathsOf(q, n - 1)
  BY DEF Committing, Answered
<1> HIDE DEF q
<1>2. CASE n = 1
  <2>1. PathsOf(q, n - 1) = {}
    BY <1>2 DEF PathsOf
  <2> QED
    BY <1>1, <1>2, <2>1 DEF q
<1>3. CASE n # 1
  <2>1. n > 1 /\ 1 \in 1 .. n - 1
    <3>1. n \in Nat /\ n > 0
      BY <1>1
    <3> HIDE DEF n
    <3> QED
      BY <1>3, <3>1
  <2>2. q[1].type = action /\ q[1].path \in PathsOf(q, n - 1)
    BY <1>1, <2>1 DEF Results, PathsOf
  <2> QED
    BY <1>1, <2>1, <2>2 DEF q
<1> QED
  BY <1>2, <1>3

\* The first request of a queue of results.
LEMMA FirstOfWorking ==
    ASSUME NEW type, NEW todo, Working(type, todo),
           engine.requests \in Seq(RequestType), engine.requests # <<>>
    PROVE  /\ reply = {} /\ engine.requests[1].type = type /\ engine.requests[1].path \in Owed
PROOF
<1>1. 1 \in 1 .. Len(engine.requests)
  OBVIOUS
<1> QED
  BY <1>1 DEF Working, Results, PathsOf

\* What the first request says of the phase the engine is in, and of the epoch.
LEMMA FirstRequest ==
    ASSUME Inv, engine.requests # <<>>
    PROVE  /\ reply = {}
           /\ Asked.type \in {"ApplyScan", "GetNextWork"} =>
                 Len(engine.requests) = 1 /\ epoch = NoEpoch /\ fs = NoFs
           /\ Asked.type = "ApplyScan" => engine.phase = "PlanningImport"
           /\ Asked.type = "GetNextWork" => engine.phase = "AwaitingNextWork"
           /\ Asked.type = "CommitImportAction" =>
                 /\ epoch.kind = "import" /\ Asked.path \in Owed
                 /\ engine.phase \in {"Importing", "ImportCommitting"}
           /\ Asked.type = "CommitProjectionAction" =>
                 /\ epoch.kind = "projection" /\ Asked.path \in Owed
                 /\ engine.phase \in {"Projecting", "ProjectionCommitting"}
           /\ Asked.type = "CommitImportEpoch" =>
                 /\ engine.phase = "ImportCommitting" /\ epoch.kind = "import"
                 /\ Len(engine.requests) = 1 /\ fs = NoFs /\ Owed = {}
           /\ Asked.type = "CommitProjectionEpoch" =>
                 /\ engine.phase = "ProjectionCommitting" /\ epoch.kind = "projection"
                 /\ Len(engine.requests) = 1 /\ fs = NoFs /\ (Asked.ok => Owed = {})
           /\ Asked.type \in RequestTypes
PROOF
<1> DEFINE q == engine.requests
<1>1. /\ q \in Seq(RequestType) /\ q # <<>> /\ Len(q) > 0 /\ Asked = q[1]
      /\ engine.phase \in Phases /\ ProtocolInv
  BY InvParts DEF EngineType, Asked
<1>0. Asked.type \in RequestTypes
  <2>1. q[1] \in RequestType
    BY <1>1
  <2> QED
    BY <1>1, <2>1 DEF RequestType
<1>2. CASE engine.phase \in {"Idle", "Scanning", "Draining"}
  BY <1>0, <1>1, <1>2 DEF ProtocolInv, IdleInv, ScanningInv, PlanInv
<1>3. CASE engine.phase = "PlanningImport"
  BY <1>0, <1>1, <1>3 DEF ProtocolInv, PlanningInv, Asking, Answered
<1>4. CASE engine.phase = "AwaitingNextWork"
  BY <1>0, <1>1, <1>4 DEF ProtocolInv, AwaitingInv, Asking, Answered
<1>5. CASE engine.phase = "Importing"
  <2>1. epoch.kind = "import" /\ Working("CommitImportAction", engine.reads)
    BY <1>0, <1>1, <1>5 DEF ProtocolInv, ImportingInv
  <2> QED
    BY <1>0, <1>1, <1>5, <2>1, FirstOfWorking
<1>6. CASE engine.phase = "Projecting"
  <2>1. /\ epoch.kind = "projection"
        /\ Working("CommitProjectionAction", engine.writes \cup engine.deletes)
    BY <1>0, <1>1, <1>6 DEF ProtocolInv, ProjectingInv
  <2> QED
    BY <1>0, <1>1, <1>6, <2>1, FirstOfWorking
<1>7. CASE engine.phase = "ImportCommitting"
  <2>1. /\ Committing("import", "CommitImportAction", "CommitImportEpoch")
        /\ q[Len(q)].ok
    BY <1>0, <1>1, <1>7 DEF ProtocolInv, ImportCommittingInv
  <2> QED
    BY <1>0, <1>1, <1>7, <2>1, FirstOfCommitting
<1>8. CASE engine.phase = "ProjectionCommitting"
  <2>1. Committing("projection", "CommitProjectionAction", "CommitProjectionEpoch")
    BY <1>0, <1>1, <1>8 DEF ProtocolInv, ProjectionCommittingInv
  <2> QED
    BY <1>0, <1>1, <1>8, <2>1, FirstOfCommitting
<1> QED
  BY <1>0, <1>1, <1>2, <1>3, <1>4, <1>5, <1>6, <1>7, <1>8 DEF Phases

\* What the request that is served says of them.
LEMMA PhaseOfRequest ==
    ASSUME Inv, NEW type, Serve(type)
    PROVE  /\ reply = {}
           /\ type \in {"ApplyScan", "GetNextWork"} =>
                 Len(engine.requests) = 1 /\ epoch = NoEpoch /\ fs = NoFs
           /\ type = "ApplyScan" => engine.phase = "PlanningImport"
           /\ type = "GetNextWork" => engine.phase = "AwaitingNextWork"
           /\ type = "CommitImportAction" =>
                 /\ epoch.kind = "import" /\ Asked.path \in Owed
                 /\ engine.phase \in {"Importing", "ImportCommitting"}
           /\ type = "CommitProjectionAction" =>
                 /\ epoch.kind = "projection" /\ Asked.path \in Owed
                 /\ engine.phase \in {"Projecting", "ProjectionCommitting"}
           /\ type = "CommitImportEpoch" =>
                 /\ engine.phase = "ImportCommitting" /\ epoch.kind = "import"
                 /\ Len(engine.requests) = 1 /\ fs = NoFs /\ Owed = {}
           /\ type = "CommitProjectionEpoch" =>
                 /\ engine.phase = "ProjectionCommitting" /\ epoch.kind = "projection"
                 /\ Len(engine.requests) = 1 /\ fs = NoFs /\ (Asked.ok => Owed = {})
BY FirstRequest DEF Serve, Asked

\* The epoch takes the result of one of its actions.
LEMMA ResultServed ==
    ASSUME Inv, NEW type \in {"CommitImportAction", "CommitProjectionAction"}, Serve(type),
           epoch'.kind = epoch.kind, epoch'.expected = epoch.expected,
           epoch'.deletes = epoch.deletes, epoch'.done = epoch.done \cup {Asked.path},
           UNCHANGED <<up, fs, reply>>
    PROVE  /\ ProtocolInv'
           /\ \A i \in 2 .. Len(engine.requests) :
                 /\ engine.requests[i].type \in {"CommitImportAction", "CommitProjectionAction"} =>
                       engine.requests[i].path # Asked.path
                 /\ engine.requests[i].type # type => engine.requests[i].type \notin
                       {"CommitImportAction", "CommitProjectionAction"}
           /\ Asked.path # fs.path
PROOF
<1> DEFINE q == engine.requests
           n == Len(q)
           t == Tail(q)
<1>1. /\ q \in Seq(RequestType) /\ n \in Nat /\ n > 0 /\ Asked = q[1] /\ Asked = Head(q)
      /\ Asked.type = type /\ up
      /\ engine'.requests = t /\ Len(t) = n - 1 /\ engine'.phase = engine.phase
      /\ engine'.reads = engine.reads /\ engine'.writes = engine.writes
      /\ engine'.deletes = engine.deletes
      /\ \A i \in 1 .. n - 1 : t[i] = q[i + 1]
  BY ServeTyped DEF Asked
<1>2. /\ reply = {} /\ Asked.path \in Owed /\ Owed \subseteq Paths
      /\ type = "CommitImportAction" => engine.phase \in {"Importing", "ImportCommitting"}
      /\ type = "CommitProjectionAction" => engine.phase \in {"Projecting", "ProjectionCommitting"}
  BY PhaseOfRequest, InvParts DEF Owed, EpochType
<1>3. Owed' = Owed \ {Asked.path}
  BY DEF Owed
<1>4. ProtocolInv /\ fs' = fs /\ reply' = {} /\ up'
  BY <1>1, <1>2, InvParts
<1> HIDE DEF q, t, n
<1>5. ASSUME NEW m \in 1 .. n, Results(q, type, m)
      PROVE  /\ Results(t, type, m - 1)
             /\ PathsOf(t, m - 1) = PathsOf(q, m) \ {Asked.path}
             /\ Asked.path \in PathsOf(q, m)
             /\ \A i \in 2 .. m : q[i].path # Asked.path /\ q[i].type = type
  <2>1. /\ Results(t, type, m - 1) /\ PathsOf(t, m - 1) = PathsOf(q, m) \ {Asked.path}
        /\ Asked.path \in PathsOf(q, m)
    BY <1>1, <1>5, TailResults DEF n, t
  <2>2. \A i \in 2 .. m : q[i].path # Asked.path /\ q[i].type = type
    <3>1. 1 \in 1 .. m /\ \A i \in 2 .. m : i \in 1 .. m /\ i # 1
      BY <1>1
    <3> QED
      BY <1>1, <1>5, <3>1 DEF Results
  <2> QED
    BY <2>1, <2>2
<1>6. ASSUME NEW todo, Working(type, todo), todo = todo'
      PROVE  /\ Working(type, todo)'
             /\ \A i \in 2 .. n : q[i].path # Asked.path /\ q[i].type = type
             /\ Asked.path # fs.path
  <2>1. /\ Results(q, type, n) /\ Owed = PathsOf(q, n) \cup {fs.path} \cup todo
        /\ fs.path \notin todo \cup PathsOf(q, n) /\ todo \cap PathsOf(q, n) = {}
    BY <1>6 DEF Working, q, n
  <2>2. n \in 1 .. n
    BY <1>1
  <2>3. /\ Results(t, type, n - 1) /\ PathsOf(t, n - 1) = PathsOf(q, n) \ {Asked.path}
        /\ Asked.path \in PathsOf(q, n)
        /\ \A i \in 2 .. n : q[i].path # Asked.path /\ q[i].type = type
    BY <1>5, <2>1, <2>2
  <2>4. /\ Owed' = PathsOf(t, n - 1) \cup {fs.path} \cup todo
        /\ fs.path \notin todo \cup PathsOf(t, n - 1) /\ todo \cap PathsOf(t, n - 1) = {}
    BY <1>3, <2>1, <2>3
  <2>5. Working(type, todo)'
    BY <1>1, <1>4, <1>6, <2>3, <2>4 DEF Working
  <2> QED
    BY <2>1, <2>3, <2>5
<1>7. ASSUME NEW kind, NEW commit \in {"CommitImportEpoch", "CommitProjectionEpoch"},
             Committing(kind, type, commit)
      PROVE  /\ Committing(kind, type, commit)'
             /\ engine'.requests # <<>> /\ t[Len(t)] = q[n]
             /\ \A i \in 2 .. n : \/ q[i].path # Asked.path /\ q[i].type = type
                                  \/ q[i].type = commit
             /\ Asked.path # fs.path
  <2>1. /\ fs = NoFs /\ q[n].type = commit /\ epoch.kind = kind
        /\ Results(q, type, n - 1)
        /\ PathsOf(q, n - 1) \subseteq Owed
        /\ q[n].ok => Owed \subseteq PathsOf(q, n - 1)
    BY <1>1, <1>7 DEF Committing, Answered, q, n
  <2>2. n > 1 /\ n - 1 \in 1 .. n
    <3>1. n # 1
      BY <1>1, <2>1
    <3> QED
      BY <1>1, <3>1
  <2>3. /\ Results(t, type, (n - 1) - 1)
        /\ PathsOf(t, (n - 1) - 1) = PathsOf(q, n - 1) \ {Asked.path}
        /\ \A i \in 2 .. n - 1 : q[i].path # Asked.path /\ q[i].type = type
    BY <1>5, <2>1, <2>2
  <2>4. Len(t) > 0 /\ t[Len(t)] = q[n]
    <3>1. n - 1 \in 1 .. n - 1 /\ (n - 1) + 1 = n /\ n - 1 > 0
      BY <1>1, <2>2
    <3> QED
      BY <1>1, <3>1
  <2>5. /\ PathsOf(t, Len(t) - 1) \subseteq Owed'
        /\ t[Len(t)].ok => Owed' \subseteq PathsOf(t, Len(t) - 1)
    BY <1>1, <1>3, <2>1, <2>3, <2>4
  <2>6. Committing(kind, type, commit)'
    BY <1>1, <1>4, <2>1, <2>3, <2>4, <2>5 DEF Committing
  <2>7. \A i \in 2 .. n : i \in 2 .. n - 1 \/ i = n
    BY <1>1
  <2>8. Asked.path # fs.path
    <3>1. fs.path = 0
      BY <2>1 DEF NoFs
    <3>2. 0 \notin Paths
      BY DEF Paths
    <3> QED
      BY <1>2, <3>1, <3>2
  <2>9. engine'.requests # <<>>
    BY <1>1, <2>4
  <2> QED
    BY <2>1, <2>3, <2>4, <2>6, <2>7, <2>8, <2>9
<1>8. CASE type = "CommitImportAction" /\ engine.phase = "Importing"
  <2>1. fs.op = "read" /\ epoch.kind = "import" /\ Working("CommitImportAction", engine.reads)
    BY <1>4, <1>8 DEF ProtocolInv, ImportingInv
  <2>2. PICK todo : todo = engine.reads
    OBVIOUS
  <2>3. /\ Working(type, todo)' /\ Asked.path # fs.path
        /\ \A i \in 2 .. n : q[i].path # Asked.path /\ q[i].type = type
    BY <1>6, <1>8, <2>1, <2>2
  <2>4. Working("CommitImportAction", engine.reads)'
    BY <1>1, <1>8, <2>2, <2>3 DEF Working
  <2>5. ProtocolInv'
    BY <1>1, <1>4, <1>8, <2>1, <2>4 DEF ProtocolInv, IdleInv, ScanningInv, PlanningInv,
       ImportingInv, ImportCommittingInv, AwaitingInv, ProjectingInv,
       ProjectionCommittingInv, PlanInv
  <2> QED
    BY <2>3, <2>5 DEF q, n
<1>9. CASE type = "CommitProjectionAction" /\ engine.phase = "Projecting"
  <2>1. /\ fs.op \in {"write", "delete"} /\ epoch.kind = "projection"
        /\ (fs.op = "delete") = (fs.path \in epoch.deletes)
        /\ engine.deletes \subseteq epoch.deletes /\ engine.writes \cap epoch.deletes = {}
        /\ Working("CommitProjectionAction", engine.writes \cup engine.deletes)
    BY <1>4, <1>9 DEF ProtocolInv, ProjectingInv
  <2>2. PICK todo : todo = engine.writes \cup engine.deletes
    OBVIOUS
  <2>3. /\ Working(type, todo)' /\ Asked.path # fs.path
        /\ \A i \in 2 .. n : q[i].path # Asked.path /\ q[i].type = type
    BY <1>6, <1>9, <2>1, <2>2
  <2>4. Working("CommitProjectionAction", engine.writes \cup engine.deletes)'
    BY <1>1, <1>9, <2>2, <2>3 DEF Working
  <2>5. ProtocolInv'
    BY <1>1, <1>4, <1>9, <2>1, <2>4 DEF ProtocolInv, IdleInv, ScanningInv, PlanningInv,
       ImportingInv, ImportCommittingInv, AwaitingInv, ProjectingInv,
       ProjectionCommittingInv, PlanInv
  <2> QED
    BY <2>3, <2>5 DEF q, n
<1>10. CASE type = "CommitImportAction" /\ engine.phase = "ImportCommitting"
  <2>1. /\ Committing("import", type, "CommitImportEpoch")
        /\ engine.requests # <<>> => q[n].ok
    BY <1>4, <1>10 DEF ProtocolInv, ImportCommittingInv, q, n
  <2>2. /\ Committing("import", type, "CommitImportEpoch")'
        /\ engine'.requests # <<>> /\ t[Len(t)] = q[n]
        /\ \A i \in 2 .. n : \/ q[i].path # Asked.path /\ q[i].type = type
                             \/ q[i].type = "CommitImportEpoch"
        /\ Asked.path # fs.path
    BY <1>7, <2>1
  <2>3. engine.requests # <<>>
    BY <1>1 DEF q, n
  <2>4. ProtocolInv'
    BY <1>1, <1>4, <1>10, <2>1, <2>2, <2>3 DEF ProtocolInv, IdleInv, ScanningInv, PlanningInv,
       ImportingInv, ImportCommittingInv, AwaitingInv, ProjectingInv,
       ProjectionCommittingInv, PlanInv
  <2> QED
    BY <1>10, <2>2, <2>4 DEF q, n
<1>11. CASE type = "CommitProjectionAction" /\ engine.phase = "ProjectionCommitting"
  <2>1. Committing("projection", type, "CommitProjectionEpoch")
    BY <1>4, <1>11 DEF ProtocolInv, ProjectionCommittingInv
  <2>2. /\ Committing("projection", type, "CommitProjectionEpoch")'
        /\ \A i \in 2 .. n : \/ q[i].path # Asked.path /\ q[i].type = type
                             \/ q[i].type = "CommitProjectionEpoch"
        /\ Asked.path # fs.path
    BY <1>7, <2>1
  <2>3. ProtocolInv'
    BY <1>1, <1>4, <1>11, <2>2 DEF ProtocolInv, IdleInv, ScanningInv, PlanningInv,
       ImportingInv, ImportCommittingInv, AwaitingInv, ProjectingInv,
       ProjectionCommittingInv, PlanInv
  <2> QED
    BY <1>11, <2>2, <2>3 DEF q, n
<1> QED
  BY <1>2, <1>8, <1>9, <1>10, <1>11

\* The tables of one path after a step that leaves stable and the files alone.
Tabled(q) ==
    /\ prior'[q].doc \subseteq stable[q].doc /\ Own(stable[q].doc) \subseteq prior'[q].doc
    /\ WellFormed(prior'[q].doc) /\ WellFormed(staged'[q].doc)
    /\ \A i \in intents'[q] : WellFormed(i.doc) /\ i.text = Text(i.doc)
    /\ prior'[q].live => Seen(q, prior'[q].stat, Text(prior'[q].doc))
    /\ Covered(q, Text(prior'[q].doc))
    /\ staged'[q].kind # "none" =>
          /\ staged'[q].doc = prior'[q].doc \cup staged'[q].update
          /\ staged'[q].update \subseteq Own(staged'[q].update)
          /\ epoch'.kind = "import" /\ q \in epoch'.done
          /\ Recorded(q, staged'[q].stat, Text(staged'[q].doc))
          /\ \A op \in staged'[q].update : op[3] = "del" => op[1] \in user[q].gone

\* The tables of a path that a step of an import leaves alone.
LEMMA TabledStill ==
    ASSUME Inv, up, NEW q \in Paths, prior'[q] = prior[q], staged'[q] = staged[q],
           intents'[q] = intents[q], epoch'.kind = epoch.kind, epoch.done \subseteq epoch'.done
    PROVE  Tabled(q)
PROOF
<1>1. /\ prior[q].doc \subseteq stable[q].doc /\ Own(stable[q].doc) \subseteq prior[q].doc
      /\ WellFormed(prior[q].doc) /\ WellFormed(staged[q].doc)
      /\ (\A i \in intents[q] : WellFormed(i.doc)) /\ RowInv(q)
  BY InvParts DEF DocInv, OpIdsUnique
<1>2. /\ prior[q].live => Seen(q, prior[q].stat, Text(prior[q].doc))
      /\ Covered(q, Text(prior[q].doc))
      /\ staged[q].kind # "none" =>
            /\ Recorded(q, staged[q].stat, Text(staged[q].doc))
            /\ \A op \in staged[q].update : op[3] = "del" => op[1] \in user[q].gone
      /\ \A i \in intents[q] : i.text = Text(i.doc)
  BY InvParts DEF TablesInv
<1> QED
  BY <1>1, <1>2 DEF Tabled, RowInv

\* The tables of all paths.
LEMMA AllTabled ==
    ASSUME Inv, \A q \in Paths : Tabled(q), UNCHANGED <<disk, user, stable>>
    PROVE  /\ OpIdsUnique' /\ TablesInv'
           /\ \A p \in Paths : /\ WellFormed(prior'[p].doc) /\ WellFormed(staged'[p].doc)
                               /\ \A i \in intents'[p] : WellFormed(i.doc)
                               /\ RowInv(p)'
PROOF
<1>1. OpIdsUnique'
  BY DEF Tabled, OpIdsUnique
<1>2. ASSUME NEW p \in Paths
      PROVE  /\ WellFormed(prior'[p].doc) /\ WellFormed(staged'[p].doc)
             /\ \A i \in intents'[p] : WellFormed(i.doc)
             /\ RowInv(p)'
  BY DEF Tabled, RowInv
<1>3. ASSUME NEW p \in Paths
      PROVE  /\ disk'[p].stat > 0 /\ (~disk'[p].live => disk'[p].text = NoWords)
             /\ prior'[p].live => Seen(p, prior[p].stat, Text(prior[p].doc))'
             /\ Covered(p, Text(prior[p].doc))'
             /\ staged'[p].kind # "none" =>
                   /\ Recorded(p, staged[p].stat, Text(staged[p].doc))'
                   /\ \A op \in staged'[p].update : op[3] = "del" => op[1] \in user'[p].gone
             /\ \A i \in intents'[p] : i.text = Text(i.doc)
  <2>1. /\ disk[p].stat > 0 /\ (~disk[p].live => disk[p].text = NoWords)
    BY InvParts DEF TablesInv
  <2>2. Tabled(p)
    OBVIOUS
  <2>3. prior'[p].live => Seen(p, prior[p].stat, Text(prior[p].doc))'
    BY <2>2 DEF Tabled, Seen
  <2>4. Covered(p, Text(prior[p].doc))'
    BY <2>2 DEF Tabled, Covered
  <2>5. staged'[p].kind # "none" => Recorded(p, staged[p].stat, Text(staged[p].doc))'
    BY <2>2 DEF Tabled, Recorded, Seen, Covered
  <2>6. /\ \A i \in intents'[p] : i.text = Text(i.doc)
        /\ staged'[p].kind # "none" =>
              \A op \in staged'[p].update : op[3] = "del" => op[1] \in user'[p].gone
    BY <2>2 DEF Tabled
  <2> QED
    BY <2>1, <2>3, <2>4, <2>5, <2>6
<1>4. TablesInv'
  BY <1>3 DEF TablesInv
<1> QED
  BY <1>1, <1>2, <1>4

\* The epoch takes the result of a read, whatever it puts into the tables.
LEMMA ImportActionServed ==
    ASSUME Inv, Serve("CommitImportAction"),
           epoch' = [epoch EXCEPT !.done = @ \cup {Asked.path}],
           UNCHANGED <<up, disk, user, stable, fs, reply, changed, count>>,
           prior' \in [Paths -> PriorType], staged' \in [Paths -> RowType],
           intents' \in [Paths -> SUBSET IntentType],
           \A q \in Paths \ {Asked.path} : prior'[q] = prior[q],
           \A q \in Paths : Tabled(q)
    PROVE  Inv'
PROOF
<1> DEFINE p == Asked.path
<1>1. epoch.kind = "import" /\ p \in Owed /\ engine.phase \in {"Importing", "ImportCommitting"}
      /\ engine' \in EngineType /\ engine'.phase = engine.phase /\ up
  BY PhaseOfRequest, ServeTyped
<1>2. p \in epoch.expected \ epoch.done /\ p \in Paths
  BY <1>1, InvParts DEF Owed, EpochType
<1>3. /\ epoch' \in EpochType /\ epoch'.done = epoch.done \cup {p} /\ epoch'.kind = epoch.kind
      /\ epoch'.expected = epoch.expected /\ epoch'.deletes = epoch.deletes
      /\ epoch'.target = epoch.target
  BY <1>2, InvParts DEF EpochType
<1>4. /\ ProtocolInv' /\ p # fs.path
      /\ \A i \in 2 .. Len(engine.requests) :
            /\ engine.requests[i].type \in {"CommitImportAction", "CommitProjectionAction"} =>
                  engine.requests[i].path # p
            /\ engine.requests[i].type # "CommitImportAction" => engine.requests[i].type \notin
                  {"CommitImportAction", "CommitProjectionAction"}
  BY <1>3, ResultServed
<1>5. /\ OpIdsUnique' /\ TablesInv'
      /\ \A q \in Paths : /\ WellFormed(prior'[q].doc) /\ WellFormed(staged'[q].doc)
                          /\ \A i \in intents'[q] : WellFormed(i.doc)
                          /\ RowInv(q)'
  BY AllTabled
<1>6. Types'
  <2>1. epoch'.done \subseteq epoch'.expected
    BY <1>2, <1>3, InvParts
  <2> QED
    BY <1>1, <1>3, <2>1 DEF Inv, Types
<1>7. DocInv'
  <2>1. ASSUME NEW q \in Paths
        PROVE  /\ stable[q].live => stable[q].born
               /\ ~stable[q].born => stable[q].doc = {}
               /\ WellFormed(stable[q].doc) /\ WellFormed(epoch'.target[q])
               /\ TargetInv(q)'
    BY <1>1, <1>3, InvParts DEF DocInv, TargetInv
  <2> QED
    BY <1>5, <2>1 DEF DocInv
<1>8. ExpectInv' /\ QuietInv' /\ ResultInv'
  BY <1>1, <1>3 DEF ExpectInv, QuietInv, ResultInv, Unbroken
<1>9. ASSUME NEW q \in Paths \ {p}, NEW stat, NEW text, ReadOf(q, stat, text)
      PROVE  ReadOf(q, stat, text)'
  <2>1. prior'[q] = prior[q]
    OBVIOUS
  <2> QED
    BY <1>9, <2>1 DEF ReadOf, Recorded, Seen, Covered, Text
<1>10. QueueInv'
  <2>1. ASSUME NEW i \in 1 .. Len(engine'.requests) PROVE Truthful(engine.requests[i])'
    <3>1. PICK r : r = engine.requests[i + 1]
      OBVIOUS
    <3>2. /\ i + 1 \in 2 .. Len(engine.requests) /\ i + 1 \in 1 .. Len(engine.requests)
          /\ engine'.requests[i] = r
      BY <3>1, ServeTyped
    <3>3. Truthful(r)
      BY <3>1, <3>2, InvParts DEF QueueInv
    <3>4. CASE r.type = "CommitImportAction"
      <4>1. r.path \in Paths \ {p}
        BY <1>4, <3>1, <3>2, <3>4, QueuePaths
      <4>2. r.ok => ReadOf(r.path, r.stat, r.text)
        BY <3>3, <3>4 DEF Truthful
      <4>3. PICK a, b, c : a = r.path /\ b = r.stat /\ c = r.text
        OBVIOUS
      <4>4. r.ok => ReadOf(a, b, c)'
        BY <1>9, <4>1, <4>2, <4>3
      <4>5. r.ok => ReadOf(r.path, r.stat, r.text)'
        BY <4>3, <4>4
      <4>6. Truthful(r)'
        BY <3>4, <4>5 DEF Truthful
      <4> QED
        BY <3>2, <4>6
    <3>5. CASE r.type # "CommitImportAction"
      <4>1. r.type \notin {"CommitImportAction", "CommitProjectionAction"}
        BY <1>4, <3>1, <3>2, <3>5
      <4>2. Truthful(r)'
        BY <4>1 DEF Truthful
      <4> QED
        BY <3>2, <4>2
    <3> QED
      BY <3>4, <3>5
  <2> QED
    BY <2>1 DEF QueueInv
<1>11. FsInv'
  <2>0. FsInv /\ fs.op \notin {"write", "delete"}
    BY <1>1, InvParts, FsPath
  <2>1. PICK a, b, c : a = fs.path /\ b = fs.stat /\ c = fs.text
    OBVIOUS
  <2>2. ASSUME fs.op = "read" /\ fs.stage = "done" /\ fs.ok
        PROVE  ReadOf(fs.path, fs.stat, fs.text)'
    <3>1. ReadOf(a, b, c) /\ a \in Paths \ {p}
      BY <1>4, <2>0, <2>1, <2>2, FsPath DEF FsInv
    <3>2. ReadOf(a, b, c)'
      BY <1>9, <3>1
    <3> QED
      BY <2>1, <3>2
  <2> QED
    BY <2>0, <2>2 DEF FsInv
<1>12. WordsInv'
  BY InvParts DEF WordsInv, AsExpected
<1>13. NoSpuriousRemoval' /\ (QuietSwap => NoUserEditLost)'
  BY DEF Inv, CycleInv, NoSpuriousRemoval, NoUserEditLost
<1> QED
  BY <1>4, <1>5, <1>6, <1>7, <1>8, <1>10, <1>11, <1>12, <1>13 DEF Inv, CycleInv, HonestInv

\* The result of a read: nothing for a failed one, an own write recognised, or a row.
LEMMA CommitImportActionInv ==
    ASSUME Inv, CommitImportAction
    PROVE  Inv'
PROOF
<1> DEFINE p == Asked.path
           own == OwnWrite(p, Asked.text, Asked.stat)
<1>1. /\ Serve("CommitImportAction")
      /\ epoch' = [epoch EXCEPT !.done = @ \cup {Asked.path}]
      /\ UNCHANGED <<up, disk, user, stable, fs, reply, changed, count>>
  BY DEF CommitImportAction, userVars
<1>2. /\ epoch.kind = "import" /\ p \in Owed /\ up
      /\ Asked \in RequestType /\ Asked.type = "CommitImportAction"
      /\ Asked = engine.requests[1] /\ 1 \in 1 .. Len(engine.requests)
  BY <1>1, PhaseOfRequest, ServeTyped
<1>3. p \in epoch.expected \ epoch.done /\ p \in Paths
  BY <1>2, InvParts DEF Owed, EpochType
<1>4. /\ epoch'.done = epoch.done \cup {p} /\ epoch'.kind = "import"
  BY <1>1, <1>2, InvParts DEF EpochType
<1>5. staged[p].kind = "none"
  <2>1. RowInv(p)
    BY <1>3, InvParts DEF DocInv
  <2> QED
    BY <1>2, <1>3, <2>1 DEF RowInv
<1>6. /\ prior \in [Paths -> PriorType] /\ staged \in [Paths -> RowType]
      /\ intents \in [Paths -> SUBSET IntentType] /\ Types
  BY DEF Inv, Types
<1>7. Asked.stat \in Nat /\ Asked.text \in Texts
  BY <1>2 DEF RequestType
<1>8. Asked.ok => ReadOf(p, Asked.stat, Asked.text)
  BY <1>2, InvParts DEF QueueInv, Truthful
<1>9. /\ prior[p].doc \in Docs /\ stable[p].doc \in Docs
      /\ prior[p].doc \subseteq stable[p].doc /\ Own(stable[p].doc) \subseteq prior[p].doc
      /\ WellFormed(prior[p].doc) /\ WellFormed(stable[p].doc) /\ WellFormed(staged[p].doc)
      /\ \A i \in intents[p] : WellFormed(i.doc) /\ i.text = Text(i.doc)
      /\ prior[p].live => Seen(p, prior[p].stat, Text(prior[p].doc))
      /\ Covered(p, Text(prior[p].doc))
  <2>1. prior[p].doc \in Docs /\ stable[p].doc \in Docs
    BY <1>3, <1>6, FileTyped
  <2> QED
    BY <1>3, <2>1, InvParts DEF DocInv, OpIdsUnique, TablesInv
<1>10. ASSUME NEW q \in Paths, prior'[q] = prior[q], staged'[q] = staged[q],
              intents'[q] = intents[q]
       PROVE  Tabled(q)
  BY <1>2, <1>4, <1>10, TabledStill
<1>11. CASE ~Asked.ok
  <2>1. UNCHANGED <<prior, intents, staged>>
    BY <1>11 DEF CommitImportAction
  <2>2. \A q \in Paths : Tabled(q)
    BY <1>10, <2>1
  <2> QED
    BY <1>1, <1>6, <2>1, <2>2, ImportActionServed
<1>12. CASE Asked.ok /\ own
  <2> DEFINE new == [live |-> TRUE, doc |-> stable[p].doc, stat |-> Asked.stat]
  <2>1. /\ prior' = [prior EXCEPT ![p] = new]
        /\ intents' = [intents EXCEPT ![p] = {}]
        /\ UNCHANGED staged
    BY <1>12 DEF CommitImportAction
  <2>2. new \in PriorType /\ new.doc = stable[p].doc /\ new.stat = Asked.stat
    BY <1>7, <1>9 DEF PriorType
  <2> HIDE DEF new
  <2>3. /\ prior' \in [Paths -> PriorType] /\ prior'[p] = new
        /\ intents' \in [Paths -> SUBSET IntentType] /\ intents'[p] = {}
        /\ \A q \in Paths \ {p} : prior'[q] = prior[q] /\ intents'[q] = intents[q]
    BY <1>3, <1>6, <2>1, <2>2
  <2>4. Asked.text = Text(stable[p].doc)
    BY <1>9, <1>12 DEF OwnWrite
  <2>5. Recorded(p, Asked.stat, Text(stable[p].doc))
    BY <1>8, <1>12, <2>4 DEF ReadOf
  <2>6. Own(stable[p].doc) \subseteq stable[p].doc
    BY DEF Own
  <2>7. Tabled(p)
    BY <1>5, <1>9, <2>1, <2>2, <2>3, <2>5, <2>6 DEF Tabled, Recorded
  <2>8. \A q \in Paths : Tabled(q)
    BY <1>10, <2>1, <2>3, <2>7
  <2> QED
    BY <1>1, <1>6, <2>1, <2>3, <2>8, ImportActionServed
<1>13. CASE Asked.ok /\ ~own
  <2> DEFINE row == StagedRow(p, Asked.text, Asked.stat)
             update == Capture(prior[p].doc, Asked.text)
  <2>1. staged' = [staged EXCEPT ![p] = row] /\ UNCHANGED <<prior, intents>>
    BY <1>13 DEF CommitImportAction
  <2>2. /\ update \in Docs /\ update \subseteq Own(update)
        /\ prior[p].doc \cup update \in Docs
        /\ WellFormed(prior[p].doc \cup update)
        /\ Text(prior[p].doc \cup update) = Asked.text
    BY <1>7, <1>9, CaptureOps, CaptureExact
  <2>3. \A op \in update : op[3] = "del" =>
           op[1] \in Words /\ Asked.text[op[1]] < Text(prior[p].doc)[op[1]]
    BY <1>7, <1>9, CaptureRemoves
  <2>4. row = [kind |-> IF prior[p].live THEN "Update" ELSE "Create",
               doc |-> prior[p].doc \cup update, update |-> update, stat |-> Asked.stat]
    BY DEF StagedRow
  <2> HIDE DEF row, update
  <2>5. /\ row \in RowType /\ row.doc = prior[p].doc \cup update /\ row.update = update
        /\ row.stat = Asked.stat
    BY <1>7, <2>2, <2>4 DEF RowType
  <2>6. /\ staged' \in [Paths -> RowType] /\ staged'[p] = row
        /\ \A q \in Paths \ {p} : staged'[q] = staged[q]
    BY <1>3, <1>6, <2>1, <2>5
  <2>7. ReadOf(p, Asked.stat, Asked.text)
    BY <1>8, <1>13
  <2>8. \A op \in update : op[3] = "del" => op[1] \in user[p].gone
    <3>1. ASSUME NEW op \in update, op[3] = "del" PROVE op[1] \in user[p].gone
      <4>1. op[1] \in Words /\ Asked.text[op[1]] < Text(prior[p].doc)[op[1]]
        BY <2>3, <3>1
      <4>2. Asked.text[op[1]] \in Nat /\ Text(prior[p].doc)[op[1]] \in Nat
        BY <1>7, <1>9, <4>1, DocFinite DEF Texts
      <4>3. Asked.text[op[1]] >= Text(prior[p].doc)[op[1]] \/ op[1] \in user[p].gone
        BY <2>7, <4>1 DEF ReadOf
      <4> QED
        BY <4>1, <4>2, <4>3
    <3> QED
      BY <3>1
  <2>9. Recorded(p, row.stat, Text(row.doc))
    BY <2>2, <2>5, <2>7 DEF ReadOf
  <2>10. Tabled(p)
    BY <1>4, <1>9, <2>1, <2>2, <2>5, <2>6, <2>8, <2>9 DEF Tabled
  <2>11. \A q \in Paths : Tabled(q)
    BY <1>10, <2>1, <2>6, <2>10
  <2> QED
    BY <1>1, <1>6, <2>1, <2>6, <2>11, ImportActionServed
<1> QED
  BY <1>11, <1>12, <1>13

\* The fields of a reply.
LEMMA ReplyTyped ==
    ASSUME NEW type \in ReplyTypes, NEW reads \in SUBSET Paths, NEW writes \in SUBSET Paths,
           NEW deletes \in SUBSET Paths
    PROVE  /\ Reply(type, reads, writes, deletes) \in ReplyType
           /\ Reply(type, reads, writes, deletes).type = type
           /\ Reply(type, reads, writes, deletes).reads = reads
           /\ Reply(type, reads, writes, deletes).writes = writes
           /\ Reply(type, reads, writes, deletes).deletes = deletes
BY DEF Reply, ReplyType

\* An epoch is committed and answered.
LEMMA EpochServed ==
    ASSUME Inv, NEW type \in {"CommitImportEpoch", "CommitProjectionEpoch"}, Serve(type),
           epoch' = NoEpoch, reply' = reply \cup {Reply(type, {}, {}, {})}, UNCHANGED <<up, fs>>
    PROVE  /\ LinkInv' /\ reply' \in SUBSET ReplyType /\ engine' \in EngineType /\ up'
           /\ fs.stage = "asked"
           /\ engine'.phase \in {"ImportCommitting", "ProjectionCommitting"}
PROOF
<1> DEFINE r == Reply(type, {}, {}, {})
<1>1. r \in ReplyType /\ r.type = type
  BY ReplyTyped DEF ReplyTypes
<1> HIDE DEF r
<1>2. /\ reply = {} /\ fs = NoFs /\ Len(engine.requests) = 1
      /\ type = "CommitImportEpoch" => engine.phase = "ImportCommitting"
      /\ type = "CommitProjectionEpoch" => engine.phase = "ProjectionCommitting"
  BY PhaseOfRequest
<1>3. /\ up /\ engine' \in EngineType /\ engine'.phase = engine.phase
      /\ engine'.requests = <<>> /\ engine'.reads = engine.reads
      /\ engine'.writes = engine.writes /\ engine'.deletes = engine.deletes
  BY <1>2, ServeTyped
<1>4. reply' = {r} /\ fs' = NoFs /\ up' /\ r.type = type
  BY <1>1, <1>2, <1>3 DEF r
<1>5. engine'.reads = {} /\ engine'.writes = {} /\ engine'.deletes = {}
  BY <1>2, <1>3, InvParts DEF ProtocolInv, PlanInv
<1>6. Len(engine'.requests) = 0 /\ \E s \in reply' : Answered(type, s)'
  BY <1>3, <1>4 DEF Answered
<1>7. ProtocolInv'
  <2>1. CASE type = "CommitImportEpoch"
    <3>1. Committing("import", "CommitImportAction", "CommitImportEpoch")'
      BY <1>4, <1>6, <2>1 DEF Committing
    <3> QED
      BY <1>2, <1>3, <1>4, <1>5, <2>1, <3>1 DEF ProtocolInv, IdleInv, ScanningInv, PlanningInv,
         ImportingInv, ImportCommittingInv, AwaitingInv, ProjectingInv,
         ProjectionCommittingInv, PlanInv
  <2>2. CASE type = "CommitProjectionEpoch"
    <3>1. Committing("projection", "CommitProjectionAction", "CommitProjectionEpoch")'
      BY <1>4, <1>6, <2>2 DEF Committing
    <3> QED
      BY <1>2, <1>3, <1>4, <1>5, <2>2, <3>1 DEF ProtocolInv, IdleInv, ScanningInv, PlanningInv,
         ImportingInv, ImportCommittingInv, AwaitingInv, ProjectingInv,
         ProjectionCommittingInv, PlanInv
  <2> QED
    BY <2>1, <2>2
<1>8. fs.stage = "asked" /\ fs.op = "none" /\ fs' = fs
  BY <1>2 DEF NoFs
<1>9. FsInv'
  BY <1>8 DEF FsInv
<1>10. QueueInv'
  BY <1>6 DEF QueueInv
<1>11. ResultInv'
  BY <1>2, <1>3 DEF ResultInv, Unbroken
<1> QED
  BY <1>1, <1>2, <1>3, <1>4, <1>7, <1>8, <1>9, <1>10, <1>11 DEF LinkInv

\* The rows of an import become prior, and their updates go into stable.
LEMMA CommitImportEpochInv ==
    ASSUME Inv, CommitImportEpoch
    PROVE  Inv'
PROOF
<1> DEFINE rows == {p \in Paths : staged[p].kind # "none"}
<1>1. /\ Serve("CommitImportEpoch")
      /\ stable' = [p \in Paths |->
            IF p \notin rows THEN stable[p]
            ELSE [live |-> stable[p].live \/ staged[p].kind = "Create",
                  born |-> TRUE, doc |-> stable[p].doc \cup staged[p].update]]
      /\ prior' = [p \in Paths |->
            IF p \notin rows THEN prior[p]
            ELSE [live |-> TRUE, doc |-> staged[p].doc, stat |-> staged[p].stat]]
      /\ staged' = [p \in Paths |-> NoRow]
      /\ epoch' = NoEpoch
      /\ reply' = reply \cup {Reply("CommitImportEpoch", {}, {}, {})}
      /\ UNCHANGED <<up, disk, user, intents, fs, changed, count>>
  BY DEF CommitImportEpoch, userVars
<1>2. /\ LinkInv' /\ reply' \in SUBSET ReplyType /\ engine' \in EngineType /\ up'
      /\ fs.stage = "asked"
      /\ engine'.phase \in {"ImportCommitting", "ProjectionCommitting"}
  BY <1>1, EpochServed
<1> HIDE DEF rows
<1>3. ASSUME NEW p \in Paths \ rows PROVE stable'[p] = stable[p] /\ prior'[p] = prior[p]
  BY <1>1
<1>4. ASSUME NEW p \in Paths, p \in rows
      PROVE  /\ stable'[p] \in StableType /\ prior'[p] \in PriorType
             /\ stable'[p].born /\ stable'[p].doc = stable[p].doc \cup staged[p].update
             /\ prior'[p].doc = staged[p].doc /\ prior'[p].stat = staged[p].stat
  <2>1. /\ stable'[p] = [live |-> stable[p].live \/ staged[p].kind = "Create",
                         born |-> TRUE, doc |-> stable[p].doc \cup staged[p].update]
        /\ prior'[p] = [live |-> TRUE, doc |-> staged[p].doc, stat |-> staged[p].stat]
    BY <1>1, <1>4
  <2>2. /\ stable[p].doc \in Docs /\ staged[p].update \in Docs /\ staged[p].doc \in Docs
        /\ staged[p].stat \in Nat
    BY InvParts, FileTyped
  <2>3. stable[p].doc \cup staged[p].update \in Docs
    BY <2>2 DEF Docs
  <2>4. (stable[p].live \/ staged[p].kind = "Create") \in BOOLEAN
    OBVIOUS
  <2> QED
    BY <2>1, <2>2, <2>3, <2>4 DEF StableType, PriorType
<1>5. Types'
  <2>1. stable' \in [Paths -> StableType] /\ prior' \in [Paths -> PriorType]
    <3>1. \A p \in Paths : stable'[p] \in StableType /\ prior'[p] \in PriorType
      BY <1>3, <1>4, InvParts DEF Types
    <3> QED
      BY <1>1, <3>1
  <2>2. staged' \in [Paths -> RowType] /\ epoch' \in EpochType
        /\ epoch'.done \subseteq epoch'.expected
    BY <1>1, EmptyRecords, NoEpochFields
  <2> QED
    BY <1>1, <1>2, <2>1, <2>2 DEF Inv, Types
<1>6. ASSUME NEW p \in Paths
      PROVE  /\ prior[p].doc \subseteq stable[p].doc /\ Own(stable[p].doc) \subseteq prior[p].doc
             /\ WellFormed(stable[p].doc) /\ WellFormed(prior[p].doc) /\ WellFormed(staged[p].doc)
             /\ p \in rows => /\ staged[p].doc = prior[p].doc \cup staged[p].update
                              /\ staged[p].update \subseteq Own(staged[p].update)
                              /\ Recorded(p, staged[p].stat, Text(staged[p].doc))
                              /\ \A op \in staged[p].update :
                                    op[3] = "del" => op[1] \in user[p].gone
  BY InvParts DEF DocInv, OpIdsUnique, RowInv, TablesInv, rows
<1>7. ASSUME NEW p \in Paths
      PROVE  /\ stable'[p].live => stable'[p].born
             /\ ~stable'[p].born => stable'[p].doc = {}
             /\ prior'[p].doc \subseteq stable'[p].doc
             /\ Own(stable'[p].doc) \subseteq prior'[p].doc
             /\ WellFormed(stable'[p].doc) /\ WellFormed(prior'[p].doc)
             /\ stable[p].doc \subseteq stable'[p].doc
  <2>1. CASE p \notin rows
    BY <1>3, <1>6, <2>1, InvParts DEF DocInv
  <2>2. CASE p \in rows
    <3> DEFINE u == staged[p].update
    <3>1. prior'[p].doc \subseteq stable'[p].doc
      BY <1>4, <1>6, <2>2
    <3>2. Own(stable'[p].doc) \subseteq prior'[p].doc
      BY <1>4, <1>6, <2>2 DEF Own
    <3>3. stable'[p].doc \in Docs /\ prior'[p].doc \in Docs
      BY <1>4, <2>2 DEF StableType, PriorType
    <3>4. WellFormed(prior'[p].doc)
      BY <1>4, <1>6, <2>2
    <3>5. WellFormed(stable'[p].doc)
      BY <3>1, <3>2, <3>3, <3>4, LaterDoc
    <3> QED
      BY <1>4, <2>2, <3>1, <3>2, <3>4, <3>5
  <2> QED
    BY <2>1, <2>2
<1>8. \A p \in Paths : staged'[p].kind = "none" /\ staged'[p].doc = {}
  BY <1>1 DEF NoRow
<1>9. DocInv'
  <2>1. OpIdsUnique'
    BY <1>7 DEF OpIdsUnique
  <2>2. ASSUME NEW p \in Paths
        PROVE  /\ WellFormed(staged'[p].doc) /\ WellFormed(epoch'.target[p])
               /\ RowInv(p)' /\ TargetInv(p)' /\ \A i \in intents'[p] : WellFormed(i.doc)
    <3>1. WellFormed(staged'[p].doc) /\ WellFormed(epoch'.target[p])
      BY <1>1, <1>8, NoEpochFields, EmptyDoc
    <3>2. RowInv(p)' /\ TargetInv(p)'
      BY <1>1, <1>8, NoEpochFields DEF RowInv, TargetInv
    <3>3. \A i \in intents[p] : WellFormed(i.doc)
      BY InvParts DEF DocInv
    <3> QED
      BY <1>1, <3>1, <3>2, <3>3
  <2> QED
    BY <1>7, <2>1, <2>2 DEF DocInv
<1>10. TablesInv'
  <2>1. ASSUME NEW p \in Paths
        PROVE  /\ disk'[p].stat > 0 /\ (~disk'[p].live => disk'[p].text = NoWords)
               /\ prior'[p].live => Seen(p, prior[p].stat, Text(prior[p].doc))'
               /\ Covered(p, Text(prior[p].doc))'
               /\ \A i \in intents'[p] : i.text = Text(i.doc)
    <3>1. /\ disk[p].stat > 0 /\ (~disk[p].live => disk[p].text = NoWords)
          /\ prior[p].live => Seen(p, prior[p].stat, Text(prior[p].doc))
          /\ Covered(p, Text(prior[p].doc))
          /\ \A i \in intents[p] : i.text = Text(i.doc)
      BY InvParts DEF TablesInv
    <3>2. /\ prior'[p].live => Seen(p, prior'[p].stat, Text(prior'[p].doc))
          /\ Covered(p, Text(prior'[p].doc))
      <4>1. CASE p \notin rows
        BY <1>3, <3>1, <4>1
      <4>2. CASE p \in rows
        BY <1>4, <1>6, <4>2 DEF Recorded
      <4> QED
        BY <4>1, <4>2
    <3>3. prior'[p].live => Seen(p, prior[p].stat, Text(prior[p].doc))'
      BY <1>1, <3>2 DEF Seen
    <3>4. Covered(p, Text(prior[p].doc))'
      BY <1>1, <3>2 DEF Covered
    <3> QED
      BY <1>1, <3>1, <3>3, <3>4
  <2> QED
    BY <1>8, <2>1 DEF TablesInv
<1>11. ExpectInv' /\ QuietInv'
  BY <1>1, <1>2, NoEpochFields DEF ExpectInv, QuietInv
<1>12. ASSUME NEW p \in Paths, NEW op \in stable'[p].doc
       PROVE  \/ op \in stable[p].doc
              \/ /\ op[2] # 0 \/ op[3] = "del"
                 /\ op[3] = "del" => op[1] \in user[p].gone
  <2>1. CASE p \notin rows
    BY <1>3, <1>12, <2>1
  <2>2. CASE p \in rows
    <3>1. op \in stable[p].doc \/ op \in staged[p].update
      BY <1>4, <1>12, <2>2
    <3>2. CASE op \in staged[p].update
      BY <1>6, <2>2, <3>2 DEF Own
    <3> QED
      BY <3>1, <3>2
  <2> QED
    BY <2>1, <2>2
<1>13. WordsInv'
  <2>1. ASSUME NEW p \in Paths, NEW op \in stable'[p].doc, op[2] = 0 /\ op[3] = "ins"
        PROVE  op \in stable[p].doc
    BY <1>12, <2>1
  <2> QED
    BY <1>1, <1>2, <2>1, InvParts DEF WordsInv
<1>14. NoSpuriousRemoval'
  <2>1. ASSUME NEW p \in Paths, NEW op \in stable'[p].doc, op[3] = "del"
        PROVE  op[1] \in user[p].gone
    BY <1>12, <2>1 DEF Inv, CycleInv, NoSpuriousRemoval
  <2> QED
    BY <1>1, <2>1 DEF NoSpuriousRemoval
<1>15. (QuietSwap => NoUserEditLost)'
  <2> SUFFICES ASSUME QuietSwap, NEW q \in Paths, NEW w \in user[q].typed
               PROVE  \/ disk[q].live /\ disk[q].text[w] > 0
                      \/ Inserted(stable'[q].doc, w) \ {0} # {}
    BY <1>1 DEF NoUserEditLost
  <2>1. \/ disk[q].live /\ disk[q].text[w] > 0
        \/ Inserted(stable[q].doc, w) \ {0} # {}
    BY DEF Inv, CycleInv, NoUserEditLost
  <2>2. Inserted(stable[q].doc, w) \subseteq Inserted(stable'[q].doc, w)
    BY <1>7 DEF Inserted
  <2> QED
    BY <2>1, <2>2
<1> QED
  BY <1>2, <1>5, <1>9, <1>10, <1>11, <1>13, <1>14, <1>15 DEF Inv, CycleInv, LinkInv, HonestInv

\* No row is staged while a projection runs.
LEMMA NoRows ==
    ASSUME Inv, up, epoch.kind # "import"
    PROVE  \A p \in Paths : staged[p].kind = "none"
BY InvParts DEF DocInv, RowInv

\* The result of a write or a delete.
LEMMA CommitProjectionActionInv ==
    ASSUME Inv, CommitProjectionAction
    PROVE  Inv'
PROOF
<1> DEFINE p == Asked.path
<1>1. /\ Serve("CommitProjectionAction")
      /\ epoch' = [epoch EXCEPT !.done = @ \cup {p}, !.result[p] = Asked.stat]
      /\ intents' = IF Asked.ok /\ p \notin epoch.deletes
                    THEN [intents EXCEPT ![p] =
                            {IF i.text = Asked.text THEN [i EXCEPT !.stat = Asked.stat]
                                                    ELSE i : i \in @}]
                    ELSE intents
      /\ UNCHANGED <<up, disk, user, stable, prior, staged, fs, reply, changed, count>>
  BY DEF CommitProjectionAction, userVars
<1>2. /\ epoch.kind = "projection" /\ p \in Owed /\ up
      /\ engine.phase \in {"Projecting", "ProjectionCommitting"}
      /\ engine' \in EngineType /\ engine'.phase = engine.phase
      /\ Asked \in RequestType /\ Asked.type = "CommitProjectionAction"
      /\ Asked = engine.requests[1] /\ 1 \in 1 .. Len(engine.requests)
  BY <1>1, PhaseOfRequest, ServeTyped
<1>3. p \in epoch.expected \ epoch.done /\ p \in Paths /\ Asked.stat \in Nat
  BY <1>2, InvParts DEF Owed, EpochType, RequestType
<1>4. /\ epoch' \in EpochType /\ epoch'.done = epoch.done \cup {p} /\ epoch'.kind = epoch.kind
      /\ epoch'.expected = epoch.expected /\ epoch'.deletes = epoch.deletes
      /\ epoch'.target = epoch.target /\ epoch'.stat = epoch.stat
      /\ epoch'.result[p] = Asked.stat
      /\ \A q \in Paths \ {p} : epoch'.result[q] = epoch.result[q]
  BY <1>1, <1>3, InvParts DEF EpochType, Stats
<1>5. ProtocolInv'
  BY <1>1, <1>4, ResultServed
<1>6. /\ intents' \in [Paths -> SUBSET IntentType]
      /\ \A q \in Paths : \A i \in intents'[q] : \E j \in intents[q] :
            i.doc = j.doc /\ i.text = j.text
  <2>1. intents \in [Paths -> SUBSET IntentType]
    BY InvParts DEF Types
  <2>2. CASE ~(Asked.ok /\ p \notin epoch.deletes)
    BY <1>1, <2>1, <2>2
  <2>3. CASE Asked.ok /\ p \notin epoch.deletes
    <3> DEFINE S == {IF i.text = Asked.text THEN [i EXCEPT !.stat = Asked.stat]
                                            ELSE i : i \in intents[p]}
    <3>1. intents' = [intents EXCEPT ![p] = S]
      BY <1>1, <2>3
    <3>2. ASSUME NEW s \in S
          PROVE  s \in IntentType /\ \E j \in intents[p] : s.doc = j.doc /\ s.text = j.text
      <4>1. PICK i \in intents[p] :
               s = IF i.text = Asked.text THEN [i EXCEPT !.stat = Asked.stat] ELSE i
        BY <3>2
      <4>2. i \in IntentType
        BY <1>3, <2>1
      <4>3. s \in IntentType /\ s.doc = i.doc /\ s.text = i.text
        BY <1>3, <4>1, <4>2 DEF IntentType
      <4> QED
        BY <4>3
    <3> HIDE DEF S
    <3> QED
      BY <1>3, <2>1, <3>1, <3>2
  <2> QED
    BY <2>2, <2>3
<1>7. Types'
  <2>1. epoch'.done \subseteq epoch'.expected
    BY <1>3, <1>4, InvParts
  <2> QED
    BY <1>1, <1>2, <1>4, <1>6, <2>1 DEF Inv, Types
<1>8. \A q \in Paths : staged[q].kind = "none"
  BY <1>2, NoRows
<1>9. DocInv'
  <2>1. OpIdsUnique'
    BY <1>1, InvParts DEF DocInv, OpIdsUnique
  <2>2. ASSUME NEW q \in Paths
        PROVE  RowInv(q)' /\ TargetInv(q)' /\ \A i \in intents'[q] : WellFormed(i.doc)
    <3>1. RowInv(q)'
      BY <1>1, <1>8 DEF RowInv
    <3>2. TargetInv(q)'
      BY <1>1, <1>4, InvParts DEF DocInv, TargetInv
    <3>3. \A i \in intents'[q] : WellFormed(i.doc)
      <4>1. \A i \in intents[q] : WellFormed(i.doc)
        BY InvParts DEF DocInv
      <4> QED
        BY <1>6, <4>1
    <3> QED
      BY <3>1, <3>2, <3>3
  <2> QED
    BY <1>1, <1>4, <2>1, <2>2, InvParts DEF DocInv
<1>10. TablesInv'
  <2>1. ASSUME NEW q \in Paths
        PROVE  /\ disk'[q].stat > 0 /\ (~disk'[q].live => disk'[q].text = NoWords)
               /\ prior'[q].live => Seen(q, prior[q].stat, Text(prior[q].doc))'
               /\ Covered(q, Text(prior[q].doc))'
               /\ \A i \in intents'[q] : i.text = Text(i.doc)
    <3>1. /\ disk'[q].stat > 0 /\ (~disk'[q].live => disk'[q].text = NoWords)
          /\ prior'[q].live => Seen(q, prior[q].stat, Text(prior[q].doc))'
          /\ Covered(q, Text(prior[q].doc))'
      BY <1>1, InvParts DEF TablesInv, Seen, Covered, Text
    <3>2. \A i \in intents[q] : i.text = Text(i.doc)
      BY InvParts DEF TablesInv
    <3>3. \A i \in intents'[q] : i.text = Text(i.doc)
      BY <1>6, <3>2
    <3> QED
      BY <3>1, <3>3
  <2> QED
    BY <1>1, <1>8, <2>1 DEF TablesInv
<1>11. ExpectInv' /\ QuietInv'
  BY <1>1, <1>2, <1>4, InvParts DEF ExpectInv, QuietInv
<1>12. ASSUME NEW q, NEW stat, NEW text, WrittenTo(q, stat, text) PROVE WrittenTo(q, stat, text)'
  BY <1>1, <1>4, <1>12 DEF WrittenTo, Recorded, Seen, Covered, Text
<1>13. ASSUME NEW i \in 1 .. Len(engine'.requests)
       PROVE  /\ Truthful(engine.requests[i])'
              /\ \E j \in 2 .. Len(engine.requests) : engine'.requests[i] = engine.requests[j]
  <2>1. PICK r : r = engine.requests[i + 1]
    OBVIOUS
  <2>2. /\ i + 1 \in 2 .. Len(engine.requests) /\ i + 1 \in 1 .. Len(engine.requests)
        /\ engine'.requests[i] = r
    BY <1>1, <2>1, ServeTyped
  <2>3. Truthful(r)
    BY <2>1, <2>2, InvParts DEF QueueInv
  <2>4. PICK a, b, c : a = r.path /\ b = r.stat /\ c = r.text
    OBVIOUS
  <2>5. ReadOf(a, b, c) => ReadOf(a, b, c)'
    BY <1>1 DEF ReadOf, Recorded, Seen, Covered, Text
  <2>6. WrittenTo(a, b, c) => WrittenTo(a, b, c)'
    BY <1>12
  <2>7. Truthful(r)'
    BY <1>4, <2>3, <2>4, <2>5, <2>6 DEF Truthful
  <2> QED
    BY <2>1, <2>2, <2>7
<1>14. QueueInv'
  BY <1>13 DEF QueueInv
<1>15. ResultInv'
  <2> SUFFICES ASSUME Unbroken'
               PROVE  /\ \A i \in 1 .. Len(engine'.requests) : engine'.requests[i].ok
                      /\ \A q \in epoch'.done \ epoch'.deletes :
                            WrittenTo(q, epoch.result[q], Text(epoch.target[q]))'
    BY DEF ResultInv
  <2>1. Unbroken
    <3>1. CASE engine.phase = "Projecting"
      BY <3>1 DEF Unbroken
    <3>2. CASE engine.phase = "ProjectionCommitting"
      <4>1. engine'.requests # <<>> /\ engine'.requests[Len(engine'.requests)].ok
        BY <1>2, <3>2 DEF Unbroken
      <4>2. /\ Len(engine'.requests) \in Nat /\ Len(engine'.requests) > 0
            /\ Len(engine.requests) = Len(engine'.requests) + 1
            /\ engine.requests # <<>>
        <5>1. engine'.requests \in Seq(RequestType) /\ Len(engine.requests) \in Nat
          BY <1>1, <1>2, ServeTyped DEF EngineType
        <5>2. Len(engine'.requests) = Len(engine.requests) - 1 /\ Len(engine.requests) > 0
          BY <1>1, ServeTyped
        <5> QED
          BY <4>1, <5>1, <5>2
      <4>3. Len(engine'.requests) \in 1 .. Len(engine'.requests)
        BY <4>2
      <4>4. engine'.requests[Len(engine'.requests)] = engine.requests[Len(engine.requests)]
        BY <1>1, <4>2, <4>3, ServeTyped
      <4> QED
        BY <3>2, <4>1, <4>2, <4>4 DEF Unbroken
    <3> QED
      BY <1>2, <3>1, <3>2
  <2>2. /\ \A i \in 1 .. Len(engine.requests) : engine.requests[i].ok
        /\ \A q \in epoch.done \ epoch.deletes :
              WrittenTo(q, epoch.result[q], Text(epoch.target[q]))
    BY <2>1, InvParts DEF ResultInv
  <2>3. \A i \in 1 .. Len(engine'.requests) : engine'.requests[i].ok
    <3>1. \A j \in 2 .. Len(engine.requests) : engine.requests[j].ok
      BY <2>2
    <3> QED
      BY <1>13, <3>1
  <2>4. ASSUME NEW q \in epoch'.done \ epoch'.deletes
        PROVE  WrittenTo(q, epoch.result[q], Text(epoch.target[q]))'
    <3>1. PICK b, c : b = epoch'.result[q] /\ c = Text(epoch.target[q])
      OBVIOUS
    <3>2. WrittenTo(q, b, c)
      <4>1. CASE q = p
        <5>1. Asked.ok /\ Truthful(Asked)
          BY <1>2, <2>2, InvParts DEF QueueInv
        <5>2. p \notin epoch.deletes
          BY <1>4, <4>1
        <5>3. WrittenTo(p, Asked.stat, Asked.text)
          BY <1>2, <5>1, <5>2 DEF Truthful
        <5> QED
          BY <1>4, <3>1, <4>1, <5>3 DEF WrittenTo
      <4>2. CASE q # p
        <5>1. q \in epoch.done \ epoch.deletes /\ q \in Paths
          BY <1>4, <4>2, InvParts DEF EpochType
        <5> QED
          BY <1>4, <2>2, <3>1, <4>2, <5>1
      <4> QED
        BY <4>1, <4>2
    <3>3. WrittenTo(q, b, c)'
      BY <1>12, <3>2
    <3> QED
      BY <1>4, <3>1, <3>3 DEF WrittenTo, Text
  <2> QED
    BY <2>3, <2>4
<1>16. FsInv'
  BY <1>1, <1>4, InvParts DEF FsInv, ReadOf, Recorded, Seen, Covered, Text
<1>17. WordsInv'
  BY <1>1, InvParts DEF WordsInv, AsExpected
<1>18. NoSpuriousRemoval' /\ (QuietSwap => NoUserEditLost)'
  BY <1>1 DEF Inv, CycleInv, NoSpuriousRemoval, NoUserEditLost
<1> QED
  BY <1>5, <1>7, <1>9, <1>10, <1>11, <1>14, <1>15, <1>16, <1>17, <1>18
     DEF Inv, CycleInv, HonestInv

\* An exhausted plan becomes prior.
LEMMA CommitProjectionEpochInv ==
    ASSUME Inv, CommitProjectionEpoch
    PROVE  Inv'
PROOF
<1> DEFINE committed == IF Asked.ok THEN epoch.expected ELSE {}
<1>1. /\ Serve("CommitProjectionEpoch")
      /\ prior' = [p \in Paths |->
            IF p \notin committed THEN prior[p]
            ELSE IF p \in epoch.deletes THEN [prior[p] EXCEPT !.live = FALSE]
            ELSE [live |-> TRUE, doc |-> epoch.target[p], stat |-> epoch.result[p]]]
      /\ intents' = [p \in Paths |-> IF p \in committed THEN {} ELSE intents[p]]
      /\ epoch' = NoEpoch
      /\ reply' = reply \cup {Reply("CommitProjectionEpoch", {}, {}, {})}
      /\ UNCHANGED <<up, disk, user, stable, staged, fs, changed, count>>
  BY DEF CommitProjectionEpoch, userVars
<1>2. /\ LinkInv' /\ reply' \in SUBSET ReplyType /\ engine' \in EngineType /\ up'
      /\ fs.stage = "asked"
      /\ engine'.phase \in {"ImportCommitting", "ProjectionCommitting"}
  BY <1>1, EpochServed
<1>3. /\ epoch.kind = "projection" /\ engine.phase = "ProjectionCommitting" /\ up
      /\ Len(engine.requests) = 1 /\ Asked = engine.requests[1] /\ (Asked.ok => Owed = {})
  BY <1>1, PhaseOfRequest, ServeTyped
<1>4. \A p \in committed \ epoch.deletes :
         WrittenTo(p, epoch.result[p], Text(epoch.target[p]))
  <2>1. CASE Asked.ok
    <3>1. engine.requests # <<>> /\ Unbroken
      BY <1>3, <2>1 DEF Unbroken
    <3>2. epoch.expected \subseteq epoch.done
      BY <1>3, <2>1 DEF Owed
    <3> QED
      BY <3>1, <3>2, InvParts DEF ResultInv
  <2> QED
    BY <2>1
<1>5. committed \subseteq epoch.expected /\ committed \subseteq Paths
  BY InvParts DEF EpochType
<1> HIDE DEF committed
<1>6. \A p \in Paths : staged[p].kind = "none"
  BY <1>3, NoRows
<1>7. ASSUME NEW p \in Paths
      PROVE  /\ prior'[p] \in PriorType /\ intents'[p] \subseteq intents[p]
             /\ Tabled(p)
  <2>1. /\ prior[p].doc \subseteq stable[p].doc /\ Own(stable[p].doc) \subseteq prior[p].doc
        /\ WellFormed(prior[p].doc) /\ WellFormed(staged[p].doc) /\ WellFormed(epoch.target[p])
        /\ \A i \in intents[p] : WellFormed(i.doc) /\ i.text = Text(i.doc)
        /\ prior[p].live => Seen(p, prior[p].stat, Text(prior[p].doc))
        /\ Covered(p, Text(prior[p].doc)) /\ TargetInv(p)
    BY InvParts DEF DocInv, OpIdsUnique, TablesInv
  <2>2. /\ prior[p] \in PriorType /\ epoch.target[p] \in Docs /\ epoch.result[p] \in Nat
        /\ staged'[p].kind = "none" /\ staged'[p].doc = staged[p].doc
    BY <1>1, <1>6, InvParts, FileTyped DEF Types
  <2>3. intents'[p] \subseteq intents[p]
    BY <1>1
  <2>4. CASE p \notin committed
    <3>1. prior'[p] = prior[p]
      BY <1>1, <2>4
    <3> QED
      BY <2>1, <2>2, <2>3, <3>1 DEF Tabled
  <2>5. CASE p \in committed /\ p \in epoch.deletes
    <3>1. prior'[p] = [prior[p] EXCEPT !.live = FALSE]
      BY <1>1, <2>5
    <3>2. prior'[p] \in PriorType /\ ~prior'[p].live /\ prior'[p].doc = prior[p].doc
      BY <2>2, <3>1 DEF PriorType
    <3> QED
      BY <2>1, <2>2, <2>3, <3>2 DEF Tabled
  <2>6. CASE p \in committed \ epoch.deletes
    <3>1. prior'[p] = [live |-> TRUE, doc |-> epoch.target[p], stat |-> epoch.result[p]]
      BY <1>1, <2>6
    <3>2. /\ prior'[p] \in PriorType /\ prior'[p].doc = epoch.target[p]
          /\ prior'[p].stat = epoch.result[p]
      BY <2>2, <3>1 DEF PriorType
    <3>3. prior[p].doc \subseteq epoch.target[p] /\ epoch.target[p] \subseteq stable[p].doc
      BY <1>3, <1>5, <2>1, <2>6 DEF TargetInv
    <3>4. Recorded(p, epoch.result[p], Text(epoch.target[p]))
      BY <1>4, <2>6 DEF WrittenTo
    <3> QED
      BY <2>1, <2>2, <2>3, <3>2, <3>3, <3>4 DEF Tabled, Recorded
  <2> QED
    BY <2>4, <2>5, <2>6
<1>8. /\ OpIdsUnique' /\ TablesInv'
      /\ \A q \in Paths : /\ WellFormed(prior'[q].doc) /\ WellFormed(staged'[q].doc)
                          /\ \A i \in intents'[q] : WellFormed(i.doc)
                          /\ RowInv(q)'
  BY <1>1, <1>7, AllTabled
<1>9. Types'
  <2>1. prior' \in [Paths -> PriorType]
    BY <1>1, <1>7
  <2>2. intents' \in [Paths -> SUBSET IntentType]
    BY <1>1, InvParts DEF Types
  <2>3. epoch' \in EpochType /\ epoch'.done \subseteq epoch'.expected
    BY <1>1, EmptyRecords, NoEpochFields
  <2> QED
    BY <1>1, <1>2, <2>1, <2>2, <2>3 DEF Inv, Types
<1>10. DocInv'
  <2>1. ASSUME NEW q \in Paths
        PROVE  /\ stable'[q].live => stable'[q].born
               /\ ~stable'[q].born => stable'[q].doc = {}
               /\ WellFormed(stable'[q].doc) /\ WellFormed(epoch'.target[q])
               /\ TargetInv(q)'
    BY <1>1, NoEpochFields, EmptyDoc, InvParts DEF DocInv, TargetInv
  <2> QED
    BY <1>8, <2>1 DEF DocInv
<1>11. ExpectInv' /\ QuietInv'
  BY <1>1, <1>2, NoEpochFields DEF ExpectInv, QuietInv
<1>12. WordsInv'
  BY <1>1, <1>2, InvParts DEF WordsInv
<1>13. NoSpuriousRemoval' /\ (QuietSwap => NoUserEditLost)'
  BY <1>1 DEF Inv, CycleInv, NoSpuriousRemoval, NoUserEditLost
<1> QED
  BY <1>2, <1>8, <1>9, <1>10, <1>11, <1>12, <1>13 DEF Inv, CycleInv, LinkInv, HonestInv

\* A request is answered, and the epoch that the answer announces is installed.
Planned(type, reads, writes, deletes) ==
    /\ Serve(type)
    /\ reply' = reply \cup {Reply(type, reads, writes, deletes)}
    /\ UNCHANGED <<up, fs>>
    /\ type = "ApplyScan" =>
          IF reads = {} THEN epoch' = NoEpoch
          ELSE epoch'.kind = "import" /\ epoch'.expected = reads /\ epoch'.done = {}
    /\ type = "GetNextWork" =>
          IF writes \cup deletes = {} THEN epoch' = NoEpoch
          ELSE /\ epoch'.kind = "projection"
               /\ epoch'.expected = writes \cup deletes
               /\ epoch'.deletes = deletes /\ writes \cap deletes = {}
               /\ epoch'.done = {}

\* The answer to a scan, or to the question for next work.
LEMMA PlanServed ==
    ASSUME Inv, NEW type \in {"ApplyScan", "GetNextWork"},
           NEW reads \in SUBSET Paths, NEW writes \in SUBSET Paths, NEW deletes \in SUBSET Paths,
           Planned(type, reads, writes, deletes)
    PROVE  /\ LinkInv' /\ reply' \in SUBSET ReplyType /\ engine' \in EngineType /\ up'
           /\ fs.stage = "asked" /\ epoch = NoEpoch
           /\ engine'.phase = IF type = "ApplyScan" THEN "PlanningImport"
                                                    ELSE "AwaitingNextWork"
           /\ \A r \in reply' : r.writes = writes /\ r.deletes = deletes
PROOF
<1> USE DEF Planned
<1> DEFINE r == Reply(type, reads, writes, deletes)
<1>1. /\ r \in ReplyType /\ r.type = type /\ r.reads = reads /\ r.writes = writes
      /\ r.deletes = deletes
  BY ReplyTyped DEF ReplyTypes
<1> HIDE DEF r
<1>2. /\ reply = {} /\ fs = NoFs /\ Len(engine.requests) = 1 /\ epoch = NoEpoch
      /\ engine.phase = IF type = "ApplyScan" THEN "PlanningImport" ELSE "AwaitingNextWork"
  BY PhaseOfRequest
<1>3. /\ up /\ engine' \in EngineType /\ engine'.phase = engine.phase
      /\ engine'.requests = <<>> /\ engine'.reads = engine.reads
      /\ engine'.writes = engine.writes /\ engine'.deletes = engine.deletes
  BY <1>2, ServeTyped
<1>4. reply' = {r} /\ fs' = NoFs /\ up'
  BY <1>1, <1>2, <1>3 DEF r
<1>5. engine'.reads = {} /\ engine'.writes = {} /\ engine'.deletes = {}
  BY <1>2, <1>3, InvParts DEF ProtocolInv, PlanInv
<1>6. Len(engine'.requests) = 0 /\ r \in reply' /\ Answered(type, r)'
  BY <1>1, <1>3, <1>4 DEF Answered
<1>7. ProtocolInv'
  <2>1. CASE type = "ApplyScan"
    <3>1. PlanningInv'
      BY <1>1, <1>4, <1>6, <2>1 DEF PlanningInv
    <3> QED
      BY <1>2, <1>3, <1>4, <1>5, <2>1, <3>1 DEF ProtocolInv, IdleInv, ScanningInv,
         ImportingInv, ImportCommittingInv, AwaitingInv, ProjectingInv,
         ProjectionCommittingInv, PlanInv
  <2>2. CASE type = "GetNextWork"
    <3>1. AwaitingInv'
      BY <1>1, <1>4, <1>6, <2>2 DEF AwaitingInv
    <3> QED
      BY <1>2, <1>3, <1>4, <1>5, <2>2, <3>1 DEF ProtocolInv, IdleInv, ScanningInv, PlanningInv,
         ImportingInv, ImportCommittingInv, ProjectingInv,
         ProjectionCommittingInv, PlanInv
  <2> QED
    BY <2>1, <2>2
<1>8. fs.stage = "asked" /\ fs.op = "none" /\ fs' = fs
  BY <1>2 DEF NoFs
<1>9. FsInv'
  BY <1>8 DEF FsInv
<1>10. QueueInv'
  BY <1>6 DEF QueueInv
<1>11. ResultInv'
  BY <1>2, <1>3 DEF ResultInv, Unbroken
<1> QED
  BY <1>1, <1>2, <1>3, <1>4, <1>7, <1>8, <1>9, <1>10, <1>11 DEF LinkInv

\* A scan removes the files it did not find, and plans the reads.
LEMMA ApplyScanInv ==
    ASSUME Inv, ApplyScan
    PROVE  Inv'
PROOF
<1> DEFINE missing == {p \in Asked.scope : prior[p].live /\ Asked.seen[p] = 0}
           reads == {p \in Asked.scope : /\ Asked.seen[p] # 0
                                         /\ prior[p].live => Asked.seen[p] # prior[p].stat}
<1>1. /\ Serve("ApplyScan")
      /\ prior' = [p \in Paths |-> [prior[p] EXCEPT !.live = @ /\ p \notin missing]]
      /\ stable' = [p \in Paths |-> [stable[p] EXCEPT !.live = @ /\ p \notin missing]]
      /\ epoch' = IF reads = {} THEN epoch
                  ELSE [NoEpoch EXCEPT !.kind = "import", !.expected = reads,
                                       !.stat = Asked.seen]
      /\ reply' = reply \cup {Reply("ApplyScan", reads, {}, {})}
      /\ UNCHANGED <<up, disk, user, intents, staged, fs, changed, count>>
  BY DEF ApplyScan, userVars
<1>2. /\ reads \in SUBSET Paths /\ Asked.seen \in Stats
  <2>1. Asked \in RequestType
    BY <1>1, ServeTyped
  <2> QED
    BY <2>1 DEF RequestType
<1> HIDE DEF missing, reads
<1>3. epoch = NoEpoch /\ up
  BY <1>1, PhaseOfRequest, ServeTyped
<1>4. /\ epoch' \in EpochType /\ epoch'.done = {} /\ epoch'.kind # "projection"
      /\ \A p \in Paths : epoch'.target[p] = {}
      /\ IF reads = {} THEN epoch' = NoEpoch
         ELSE epoch'.kind = "import" /\ epoch'.expected = reads /\ epoch'.done = {}
  <2>1. CASE reads = {}
    BY <1>1, <1>3, <2>1, EmptyRecords, NoEpochFields
  <2>2. CASE reads # {}
    <3>1. epoch' = [NoEpoch EXCEPT !.kind = "import", !.expected = reads, !.stat = Asked.seen]
      BY <1>1, <2>2
    <3>2. NoEpoch \in EpochType
      BY EmptyRecords
    <3> QED
      BY <1>2, <2>2, <3>1, <3>2, NoEpochFields DEF EpochType
  <2> QED
    BY <2>1, <2>2
<1>5. /\ LinkInv' /\ reply' \in SUBSET ReplyType /\ engine' \in EngineType /\ up'
      /\ fs.stage = "asked" /\ engine'.phase = "PlanningImport"
  <2>1. Planned("ApplyScan", reads, {}, {})
    BY <1>1, <1>4 DEF Planned
  <2> QED
    BY <1>2, <2>1, PlanServed
<1>6. ASSUME NEW p \in Paths
      PROVE  /\ prior'[p] \in PriorType /\ stable'[p] \in StableType
             /\ prior'[p].doc = prior[p].doc /\ stable'[p].doc = stable[p].doc
             /\ prior'[p].stat = prior[p].stat /\ stable'[p].born = stable[p].born
             /\ prior'[p].live => prior[p].live
             /\ stable'[p].live => stable[p].live
  <2>1. prior[p] \in PriorType /\ stable[p] \in StableType
    BY InvParts DEF Types
  <2>2. /\ prior'[p] = [prior[p] EXCEPT !.live = @ /\ p \notin missing]
        /\ stable'[p] = [stable[p] EXCEPT !.live = @ /\ p \notin missing]
    BY <1>1
  <2>3. CASE p \in missing
    <3>1. /\ prior'[p] = [prior[p] EXCEPT !.live = FALSE]
          /\ stable'[p] = [stable[p] EXCEPT !.live = FALSE]
      BY <2>2, <2>3
    <3> QED
      BY <2>1, <3>1 DEF PriorType, StableType
  <2>4. CASE p \notin missing
    <3>1. /\ prior'[p] = [prior[p] EXCEPT !.live = @]
          /\ stable'[p] = [stable[p] EXCEPT !.live = @]
      BY <2>1, <2>2, <2>4 DEF PriorType, StableType
    <3> QED
      BY <2>1, <3>1 DEF PriorType, StableType
  <2> QED
    BY <2>3, <2>4
<1>7. Types'
  <2>1. stable' \in [Paths -> StableType] /\ prior' \in [Paths -> PriorType]
    BY <1>1, <1>6
  <2>2. epoch'.done \subseteq epoch'.expected
    BY <1>4
  <2> QED
    BY <1>1, <1>4, <1>5, <2>1, <2>2 DEF Inv, Types
<1>8. \A p \in Paths : staged'[p].kind = "none" /\ staged'[p].doc = staged[p].doc
  BY <1>1, <1>3, NoEpochFields, NoRows
<1>9. DocInv'
  <2>1. OpIdsUnique'
    BY <1>6, InvParts DEF DocInv, OpIdsUnique
  <2>2. ASSUME NEW p \in Paths
        PROVE  /\ stable'[p].live => stable'[p].born
               /\ ~stable'[p].born => stable'[p].doc = {}
               /\ WellFormed(stable'[p].doc) /\ WellFormed(prior'[p].doc)
               /\ WellFormed(staged'[p].doc) /\ WellFormed(epoch'.target[p])
               /\ \A i \in intents'[p] : WellFormed(i.doc)
    <3>1. /\ stable[p].live => stable[p].born
          /\ ~stable[p].born => stable[p].doc = {}
          /\ WellFormed(stable[p].doc) /\ WellFormed(prior[p].doc) /\ WellFormed(staged[p].doc)
          /\ \A i \in intents[p] : WellFormed(i.doc)
      BY InvParts DEF DocInv
    <3>2. WellFormed(epoch'.target[p])
      BY <1>4, EmptyDoc
    <3> QED
      BY <1>1, <1>6, <1>8, <3>1, <3>2
  <2>3. ASSUME NEW p \in Paths PROVE RowInv(p)' /\ TargetInv(p)'
    BY <1>4, <1>8 DEF RowInv, TargetInv
  <2> QED
    BY <2>1, <2>2, <2>3 DEF DocInv
<1>10. TablesInv'
  <2>1. ASSUME NEW p \in Paths
        PROVE  /\ disk'[p].stat > 0 /\ (~disk'[p].live => disk'[p].text = NoWords)
               /\ prior'[p].live => Seen(p, prior[p].stat, Text(prior[p].doc))'
               /\ Covered(p, Text(prior[p].doc))'
               /\ \A i \in intents'[p] : i.text = Text(i.doc)
    <3>1. /\ disk[p].stat > 0 /\ (~disk[p].live => disk[p].text = NoWords)
          /\ prior[p].live => Seen(p, prior[p].stat, Text(prior[p].doc))
          /\ Covered(p, Text(prior[p].doc))
          /\ \A i \in intents[p] : i.text = Text(i.doc)
      BY InvParts DEF TablesInv
    <3>2. prior'[p].live => Seen(p, prior[p].stat, Text(prior[p].doc))'
      BY <1>1, <1>6, <3>1 DEF Seen
    <3>3. Covered(p, Text(prior[p].doc))'
      BY <1>1, <1>6, <3>1 DEF Covered
    <3> QED
      BY <1>1, <3>1, <3>2, <3>3
  <2> QED
    BY <1>8, <2>1 DEF TablesInv
<1>11. ExpectInv' /\ QuietInv'
  BY <1>4, <1>5 DEF ExpectInv, QuietInv
<1>12. WordsInv'
  BY <1>1, <1>5, <1>6, InvParts DEF WordsInv
<1>13. NoSpuriousRemoval' /\ (QuietSwap => NoUserEditLost)'
  BY <1>1, <1>6 DEF Inv, CycleInv, NoSpuriousRemoval, NoUserEditLost
<1> QED
  BY <1>5, <1>7, <1>9, <1>10, <1>11, <1>12, <1>13 DEF Inv, CycleInv, LinkInv, HonestInv

\* A write intent for a document, which keeps the mark of an earlier one.
LEMMA IntendTyped ==
    ASSUME NEW set \in SUBSET IntentType, NEW doc \in Docs, WellFormed(doc),
           \A i \in set : WellFormed(i.doc) /\ i.text = Text(i.doc)
    PROVE  /\ Intend(set, doc) \in SUBSET IntentType
           /\ \A i \in Intend(set, doc) : WellFormed(i.doc) /\ i.text = Text(i.doc)
PROOF
<1> DEFINE same == {i \in set : i.text = Text(doc)}
           stat == IF same = {} THEN 0 ELSE (CHOOSE i \in same : TRUE).stat
           new == [text |-> Text(doc), doc |-> doc, stat |-> stat]
<1>1. stat \in Nat
  <2>1. CASE same = {}
    BY <2>1
  <2>2. CASE same # {}
    <3>1. (CHOOSE i \in same : TRUE) \in same
      BY <2>2
    <3>2. (CHOOSE i \in same : TRUE) \in IntentType
      BY <3>1
    <3> QED
      BY <2>2, <3>2 DEF IntentType
  <2> QED
    BY <2>1, <2>2
<1>2. Text(doc) \in Texts
  BY TextType
<1> HIDE DEF stat
<1>3. new \in IntentType /\ new.doc = doc /\ new.text = Text(doc)
  BY <1>1, <1>2 DEF IntentType
<1>4. Intend(set, doc) = (set \ same) \cup {new}
  BY DEF Intend, stat
<1> HIDE DEF same, new
<1> QED
  BY <1>3, <1>4

\* The paths to write and to delete are different.
LEMMA WorkSplits ==
    /\ ToWrite \in SUBSET Paths /\ ToDelete \in SUBSET Paths /\ ToWrite \cap ToDelete = {}
BY DEF ToWrite, ToDelete

\* The next work is planned from the tables.
LEMMA GetNextWorkInv ==
    ASSUME Inv, GetNextWork
    PROVE  Inv'
PROOF
<1> DEFINE target == [p \in Paths |-> IF p \in ToWrite THEN stable[p].doc ELSE {}]
           stat == [p \in Paths |-> IF prior[p].live THEN prior[p].stat ELSE 0]
<1>1. /\ Serve("GetNextWork")
      /\ intents' = [p \in Paths |-> IF p \in ToWrite THEN Intend(intents[p], stable[p].doc)
                                                     ELSE intents[p]]
      /\ epoch' = IF ToWrite \cup ToDelete = {} THEN epoch
                  ELSE [NoEpoch EXCEPT !.kind = "projection", !.expected = ToWrite \cup ToDelete,
                                       !.deletes = ToDelete, !.target = target, !.stat = stat]
      /\ reply' = reply \cup {Reply("GetNextWork", {}, ToWrite, ToDelete)}
      /\ UNCHANGED <<up, disk, user, stable, prior, staged, fs, changed, count>>
  BY DEF GetNextWork, userVars
<1>2. epoch = NoEpoch /\ up
  BY <1>1, PhaseOfRequest, ServeTyped
<1>3. ASSUME NEW p \in Paths
      PROVE  /\ prior[p].stat \in Nat /\ stable[p].doc \in Docs /\ intents[p] \in SUBSET IntentType
             /\ WellFormed(stable[p].doc) /\ WellFormed(staged[p].doc)
             /\ prior[p].doc \subseteq stable[p].doc
             /\ \A i \in intents[p] : WellFormed(i.doc) /\ i.text = Text(i.doc)
  BY InvParts, FileTyped DEF Types, DocInv, TablesInv, OpIdsUnique
<1>4. target \in [Paths -> Docs] /\ stat \in Stats
  BY <1>3, EmptyDoc DEF Stats
<1>5. /\ epoch' \in EpochType /\ epoch'.done = {} /\ epoch'.kind # "import"
      /\ IF ToWrite \cup ToDelete = {} THEN epoch' = NoEpoch
         ELSE /\ epoch'.kind = "projection" /\ epoch'.expected = ToWrite \cup ToDelete
              /\ epoch'.deletes = ToDelete /\ epoch'.target = target /\ epoch'.stat = stat
  <2>1. CASE ToWrite \cup ToDelete = {}
    BY <1>1, <1>2, <2>1, EmptyRecords, NoEpochFields
  <2>2. CASE ToWrite \cup ToDelete # {}
    <3> HIDE DEF target, stat
    <3>1. epoch' = [NoEpoch EXCEPT !.kind = "projection", !.expected = ToWrite \cup ToDelete,
                                   !.deletes = ToDelete, !.target = target, !.stat = stat]
      BY <1>1, <2>2
    <3>2. NoEpoch \in EpochType
      BY EmptyRecords
    <3> QED
      BY <1>4, <2>2, <3>1, <3>2, NoEpochFields, WorkSplits DEF EpochType
  <2> QED
    BY <2>1, <2>2
<1>6. /\ LinkInv' /\ reply' \in SUBSET ReplyType /\ engine' \in EngineType /\ up'
      /\ fs.stage = "asked" /\ engine'.phase = "AwaitingNextWork"
      /\ \A r \in reply' : r.writes = ToWrite /\ r.deletes = ToDelete
  <2>1. Planned("GetNextWork", {}, ToWrite, ToDelete)
    BY <1>1, <1>5, WorkSplits DEF Planned
  <2> QED
    BY <2>1, WorkSplits, PlanServed
<1>7. ASSUME NEW p \in Paths
      PROVE  /\ intents'[p] \in SUBSET IntentType
             /\ \A i \in intents'[p] : WellFormed(i.doc) /\ i.text = Text(i.doc)
  <2>1. CASE p \in ToWrite
    <3>1. intents'[p] = Intend(intents[p], stable[p].doc)
      BY <1>1, <2>1
    <3> QED
      BY <1>3, <3>1, IntendTyped
  <2>2. CASE p \notin ToWrite
    BY <1>1, <1>3, <2>2
  <2> QED
    BY <2>1, <2>2
<1>8. \A p \in Paths : staged[p].kind = "none"
  BY <1>2, NoEpochFields, NoRows
<1>9. /\ OpIdsUnique' /\ TablesInv'
      /\ \A q \in Paths : /\ WellFormed(prior'[q].doc) /\ WellFormed(staged'[q].doc)
                          /\ \A i \in intents'[q] : WellFormed(i.doc)
                          /\ RowInv(q)'
  <2>1. ASSUME NEW q \in Paths PROVE Tabled(q)
    <3>1. /\ prior[q].doc \subseteq stable[q].doc /\ Own(stable[q].doc) \subseteq prior[q].doc
          /\ WellFormed(prior[q].doc) /\ WellFormed(staged[q].doc)
          /\ prior[q].live => Seen(q, prior[q].stat, Text(prior[q].doc))
          /\ Covered(q, Text(prior[q].doc))
      BY InvParts DEF DocInv, OpIdsUnique, TablesInv
    <3> QED
      BY <1>1, <1>7, <1>8, <3>1 DEF Tabled
  <2> QED
    BY <1>1, <2>1, AllTabled
<1>10. Types'
  <2>1. intents' \in [Paths -> SUBSET IntentType]
    BY <1>1, <1>7
  <2>2. epoch'.done \subseteq epoch'.expected
    BY <1>5
  <2> QED
    BY <1>1, <1>5, <1>6, <2>1, <2>2 DEF Inv, Types
<1>11. ASSUME NEW p \in Paths
       PROVE  /\ WellFormed(epoch'.target[p])
              /\ epoch'.kind = "projection" =>
                    /\ p \in epoch'.expected \ epoch'.deletes => epoch'.target[p] = stable[p].doc
                    /\ epoch'.stat[p] = IF prior[p].live THEN prior[p].stat ELSE 0
  <2>1. CASE ToWrite \cup ToDelete = {}
    BY <1>5, <2>1, NoEpochFields, EmptyDoc
  <2>2. CASE ToWrite \cup ToDelete # {}
    BY <1>3, <1>5, <2>2, EmptyDoc
  <2> QED
    BY <2>1, <2>2
<1>12. DocInv'
  <2>1. ASSUME NEW p \in Paths
        PROVE  /\ stable'[p].live => stable'[p].born
               /\ ~stable'[p].born => stable'[p].doc = {}
               /\ WellFormed(stable'[p].doc) /\ WellFormed(epoch'.target[p])
               /\ TargetInv(p)'
    <3>1. TargetInv(p)'
      BY <1>1, <1>3, <1>11 DEF TargetInv
    <3> QED
      BY <1>1, <1>11, <3>1, InvParts DEF DocInv
  <2> QED
    BY <1>9, <2>1 DEF DocInv
<1>13. ExpectInv'
  <2>1. epoch'.expected \subseteq Paths
    BY <1>5 DEF EpochType
  <2> QED
    BY <1>1, <1>11, <2>1 DEF ExpectInv
<1>14. QuietInv'
  <2>1. ToWrite' = ToWrite /\ ToDelete' = ToDelete
    BY <1>1 DEF ToWrite, ToDelete
  <2> QED
    BY <1>6, <2>1 DEF QuietInv
<1>15. WordsInv'
  BY <1>1, <1>6, InvParts DEF WordsInv
<1>16. NoSpuriousRemoval' /\ (QuietSwap => NoUserEditLost)'
  BY <1>1 DEF Inv, CycleInv, NoSpuriousRemoval, NoUserEditLost
<1> QED
  BY <1>6, <1>9, <1>10, <1>12, <1>13, <1>14, <1>15, <1>16
     DEF Inv, CycleInv, LinkInv, HonestInv

-----------------------------------------------------------------------------
(* Every step, and what the invariant says.                                *)

\* A step that changes nothing.
LEMMA StutterInv ==
    ASSUME Inv, UNCHANGED vars
    PROVE  Inv'
PROOF
<1> USE DEF vars
<1>1. Types'
  BY DEF Inv, Types
<1>2. LinkInv'
  <2>1. ProtocolInv'
    BY InvParts DEF ProtocolInv, IdleInv, ScanningInv, PlanningInv, ImportingInv,
       ImportCommittingInv, AwaitingInv, ProjectingInv, ProjectionCommittingInv, PlanInv,
       Asking, Answered, Working, Committing, Owed
  <2>2. FsInv'
    BY InvParts DEF FsInv, ReadOf, Recorded, Seen, Covered, Text
  <2>4. QueueInv'
    BY InvParts, QueueStill DEF QueueInv, Still
  <2>3. ResultInv'
    BY InvParts DEF ResultInv, Unbroken, WrittenTo, Recorded, Seen, Covered, Text
  <2> QED
    BY <2>1, <2>2, <2>3, <2>4 DEF LinkInv
<1>3. QuietInv'
  BY InvParts DEF QuietInv, ToWrite, ToDelete
<1> QED
  BY <1>1, <1>2, <1>3, InvParts, EngineFrame DEF Types

\* The invariant is inductive.
LEMMA NextInv ==
    ASSUME Inv, [Next]_vars
    PROVE  Inv'
PROOF
<1>1. CASE User
  BY <1>1, UserEditInv, UserCreateInv, UserDeleteInv DEF User
<1>2. CASE Remote
  BY <1>2, RemoteEditInv, RemoteCreateInv, RemoteDeleteInv DEF Remote
<1>3. CASE Engine
  BY <1>3, FullScanTimerInv, OnProjectionChangedInv, OnScanDoneInv, OnReadDoneInv,
     OnProjectionDoneInv, OnApplyScanReplyInv, OnEpochCommittedInv, OnNextWorkInv DEF Engine
<1>4. CASE FsActor
  BY <1>4, FsScanStepInv, FsReadInv, FsCheckInv, FsSwapInv, FsVerifyInv DEF FsActor
<1>5. CASE Semantic
  BY <1>5, ApplyScanInv, CommitImportActionInv, CommitImportEpochInv, GetNextWorkInv,
     CommitProjectionActionInv, CommitProjectionEpochInv DEF Semantic
<1>6. CASE Restart
  BY <1>6, RestartInv
<1>7. ASSUME NEW scope \in {Paths} \cup {{p} : p \in Paths}, ScanCommand(scope)
      PROVE  Inv'
  <2>1. scope \in SUBSET Paths
    BY <1>7
  <2> QED
    BY <1>7, <2>1, ScanCommandInv
<1>8. CASE FsFail
  BY <1>8, FsFailInv
<1>9. CASE Crash
  BY <1>9, CrashInv
<1>10. CASE UNCHANGED vars
  BY <1>10, StutterInv
<1> QED
  BY <1>1, <1>2, <1>3, <1>4, <1>5, <1>6, <1>7, <1>8, <1>9, <1>10 DEF Next, Daemon

\* The queue holds at most the results of an epoch and its commit.
LEMMA QueueBound ==
    ASSUME Inv
    PROVE  Len(engine.requests) <= NumPaths + 1
PROOF
<1> DEFINE q == engine.requests
           n == Len(q)
<1>1. q \in Seq(RequestType) /\ engine.phase \in Phases /\ n \in Nat /\ NumPaths \in Nat
  BY InvParts, CycleConstants DEF EngineType
<1>2. Owed \subseteq Paths
  BY InvParts DEF Owed, EpochType
<1> HIDE DEF q
<1>3. ASSUME NEW type, NEW todo, Working(type, todo) PROVE n <= NumPaths
  <2>1. Results(q, type, n) /\ PathsOf(q, n) \subseteq Paths /\ n \in 0 .. Len(q)
    BY <1>1, <1>2, <1>3 DEF Working, q
  <2> QED
    BY <1>1, <2>1, ResultsBound
<1>4. ASSUME NEW kind, NEW action, NEW commit, Committing(kind, action, commit)
      PROVE  n <= NumPaths + 1
  <2>1. CASE n = 0
    BY <1>1, <2>1
  <2>2. CASE n # 0
    <3>1. n - 1 \in 0 .. Len(q)
      BY <1>1, <2>2
    <3>2. Results(q, action, n - 1) /\ PathsOf(q, n - 1) \subseteq Paths
      BY <1>2, <1>4, <2>2 DEF Committing, Answered, q
    <3>3. n - 1 <= NumPaths
      BY <1>1, <3>1, <3>2, ResultsBound
    <3> QED
      BY <1>1, <3>3
  <2> QED
    BY <2>1, <2>2
<1>5. n = 0 \/ n = 1 \/ n <= NumPaths \/ n <= NumPaths + 1
  <2>1. CASE engine.phase \in {"Idle", "Scanning", "Draining", "PlanningImport", "AwaitingNextWork"}
    BY <1>1, <2>1, InvParts DEF ProtocolInv, IdleInv, ScanningInv, PlanInv, PlanningInv,
       AwaitingInv, Asking, Answered, q
  <2>2. CASE engine.phase = "Importing"
    BY <1>3, <2>2, InvParts DEF ProtocolInv, ImportingInv
  <2>3. CASE engine.phase = "Projecting"
    BY <1>3, <2>3, InvParts DEF ProtocolInv, ProjectingInv
  <2>4. CASE engine.phase = "ImportCommitting"
    BY <1>4, <2>4, InvParts DEF ProtocolInv, ImportCommittingInv
  <2>5. CASE engine.phase = "ProjectionCommitting"
    BY <1>4, <2>5, InvParts DEF ProtocolInv, ProjectionCommittingInv
  <2> QED
    BY <1>1, <2>1, <2>2, <2>3, <2>4, <2>5 DEF Phases
<1>6. n <= NumPaths + 1
  <2> HIDE DEF n
  <2> QED
    BY <1>1, <1>5
<1> QED
  BY <1>6 DEF q

\* The type invariant follows.
LEMMA InvTypeOK ==
    ASSUME Inv
    PROVE  TypeOK
PROOF
<1>1. Cardinality(reply) <= 1
  <2>1. CASE reply = {}
    BY <2>1, FS_EmptySet
  <2>2. CASE reply # {}
    <3>1. PICK r \in reply : TRUE
      BY <2>2
    <3>2. reply = {r}
      BY <3>1, InvParts, PhaseOfReply
    <3>3. Cardinality({r}) = 1
      BY FS_Singleton
    <3> QED
      BY <3>2, <3>3
  <2> QED
    BY <2>1, <2>2
<1> QED
  BY <1>1, QueueBound, InvParts DEF TypeOK

\* So does the absence of protocol errors.
LEMMA InvNoProtocolPanic ==
    ASSUME Inv
    PROVE  NoProtocolPanic
PROOF
<1>1. fs.stage = "done" => engine.phase \in
         CASE fs.op = "scan" -> {"Scanning"}
           [] fs.op = "read" -> {"Importing"}
           [] OTHER -> {"Projecting", "Draining"}
  <2>1. fs.op \in {"none", "scan", "read", "write", "delete"}
    BY InvParts DEF FsType
  <2> QED
    BY <2>1, InvParts, PhaseOfFs
<1>2. ASSUME NEW r \in reply
      PROVE  engine.phase =
                CASE r.type = "ApplyScan" -> "PlanningImport"
                  [] r.type = "CommitImportEpoch" -> "ImportCommitting"
                  [] r.type = "CommitProjectionEpoch" -> "ProjectionCommitting"
                  [] r.type = "GetNextWork" -> "AwaitingNextWork"
  <2>1. r.type \in ReplyTypes
    BY InvParts DEF ReplyType
  <2> QED
    BY <2>1, InvParts, PhaseOfReply DEF ReplyTypes
<1>3. ASSUME engine.requests # <<>>
      PROVE  CASE Asked.type \in {"ApplyScan", "GetNextWork"} -> epoch.kind = "none"
               [] Asked.type = "CommitImportAction" ->
                     epoch.kind = "import" /\ Asked.path \in epoch.expected \ epoch.done
               [] Asked.type = "CommitImportEpoch" ->
                     epoch.kind = "import" /\ epoch.done = epoch.expected
               [] Asked.type = "CommitProjectionAction" ->
                     epoch.kind = "projection" /\ Asked.path \in epoch.expected \ epoch.done
               [] Asked.type = "CommitProjectionEpoch" ->
                     epoch.kind = "projection" /\ (Asked.ok => epoch.done = epoch.expected)
  <2>1. Asked.type \in RequestTypes
    BY <1>3, FirstRequest
  <2>2. Owed = {} => epoch.done = epoch.expected
    BY InvParts DEF Owed
  <2>3. CASE Asked.type \in {"ApplyScan", "GetNextWork"}
    BY <1>3, <2>3, FirstRequest, NoEpochFields
  <2>4. CASE Asked.type = "CommitImportAction"
    BY <1>3, <2>4, FirstRequest DEF Owed
  <2>5. CASE Asked.type = "CommitProjectionAction"
    BY <1>3, <2>5, FirstRequest DEF Owed
  <2>6. CASE Asked.type = "CommitImportEpoch"
    BY <1>3, <2>2, <2>6, FirstRequest
  <2>7. CASE Asked.type = "CommitProjectionEpoch"
    BY <1>3, <2>2, <2>7, FirstRequest
  <2> QED
    BY <2>1, <2>3, <2>4, <2>5, <2>6, <2>7 DEF RequestTypes, ReplyTypes
<1> QED
  BY <1>1, <1>2, <1>3 DEF NoProtocolPanic

\* The inductive invariant of the cycle holds in every reachable state, with any
\* number of paths, edits, deletes, hints, errors and crashes.
THEOREM CycleHolds == Spec => [](Types /\ CycleInv)
PROOF
<1>1. Init => Inv
  BY InitInv
<1>2. Inv /\ [Next]_vars => Inv'
  BY NextInv
<1>3. Spec => []Inv
  BY <1>1, <1>2, PTL DEF Spec
<1>4. Inv => Types /\ CycleInv
  BY DEF Inv
<1> QED
  BY <1>3, <1>4, PTL

\* TypeOK: every variable keeps its type, the engine's queue never holds more than
\* the results of one epoch and its commit, and at most one reply is unread.
THEOREM CycleTypes == Spec => []TypeOK
PROOF
<1>1. Types /\ CycleInv => TypeOK
  BY InvTypeOK DEF Inv
<1> QED
  BY <1>1, CycleHolds, PTL

\* NoProtocolPanic: no result, reply or epoch request ever meets the engine or the
\* semantic actor in a phase that rejects it and stops the daemon.
THEOREM CycleProtocol == Spec => []NoProtocolPanic
PROOF
<1>1. Types /\ CycleInv => NoProtocolPanic
  BY InvNoProtocolPanic DEF Inv
<1> QED
  BY <1>1, CycleHolds, PTL

\* IdleIsQuiet: an idle engine that no ProjectionChanged is on its way to has nothing
\* to project, whatever changed while the question for next work was answered.
THEOREM CycleQuiet == Spec => []IdleIsQuiet
PROOF
<1>1. Types /\ CycleInv => IdleIsQuiet
  BY DEF CycleInv, QuietInv, IdleIsQuiet
<1> QED
  BY <1>1, CycleHolds, PTL

\* PriorIsHonest: a file with the stat recorded in prior has the text of the prior
\* document, so skipping it in a scan and replacing it in a projection are safe.
THEOREM CycleHonest == Spec => []PriorIsHonest
PROOF
<1>1. Types /\ CycleInv => PriorIsHonest
  BY DEF CycleInv, HonestInv, TablesInv, Seen, PriorIsHonest
<1> QED
  BY <1>1, CycleHolds, PTL

\* OpIdsUnique: prior always lies between this daemon's own operations and stable, so
\* an import never gives out a (client, clock) twice.
THEOREM CycleIds == Spec => []OpIdsUnique
PROOF
<1>1. Types /\ CycleInv => OpIdsUnique
  BY DEF CycleInv, DocInv
<1> QED
  BY <1>1, CycleHolds, PTL

\* NoSpuriousRemoval: an import removes only words that were in a file removed from
\* its path; an edit from the log that is not on disk yet is never removed.
THEOREM CycleRemoves == Spec => []NoSpuriousRemoval
PROOF
<1>1. Types /\ CycleInv => NoSpuriousRemoval
  BY DEF CycleInv
<1> QED
  BY <1>1, CycleHolds, PTL

\* NoUserEditLost: if the user does not touch a file between the guard of a write or
\* a delete and its effect, a typed word stays on disk until it is in stable, over
\* any aborts, errors, crashes and restarts.
THEOREM CycleKeepsEdits ==
    ASSUME QuietSwap
    PROVE  Spec => []NoUserEditLost
PROOF
<1>1. Types /\ CycleInv => NoUserEditLost
  BY DEF CycleInv
<1> QED
  BY <1>1, CycleHolds, PTL
=============================================================================
