------------------------- MODULE SegmentSyncProofs -------------------------
(* That the export base of a device never jumps over its work, that a name in *)
(* the tree stands for one segment, and that a cursor is never ahead of the   *)
(* copy it is used with, proved for any number of devices, copies, segments,  *)
(* edits and faults.                                                          *)
EXTENDS SegmentSync, FiniteSetTheorems, TLAPS

Runs == [pc : Stages, file : File \cup {NoFile}, boot : BOOLEAN, sent : Nat,
         drained : BOOLEAN, got : BOOLEAN, conflict : BOOLEAN, listed : SUBSET Device,
         seen : SUBSET Segment, segment : Segment \cup {NoSegment}, level : BOOLEAN]

Types ==
    /\ remote \subseteq Segment
    /\ held \in [Copy -> SUBSET Commit]
    /\ active \in [Device -> File \cup {NoFile}]
    /\ cursor \in [Device -> Cursor]
    /\ run \in [Device -> Runs]
    /\ exports \in [Device -> 0..MaxExports]
    /\ born \in Commit /\ faults \in Nat /\ reopened \subseteq Device

(* The base is published; so is all the copy holds once a run has found       *)
(* nothing left to publish, for what it applies from then on is published     *)
(* too.                                                                       *)
DeviceOk(d) ==
    LET r == run[d] IN
    /\ cursor[d].base \subseteq Published
    /\ r.pc # "idle" => r.file \in File
    /\ r.pc \in {"upload", "verify"} => cursor[d].pending \in Segment
    /\ r.drained => r.pc # "idle" /\ held[At(d)] \subseteq Published
    /\ r.seen \subseteq remote
    /\ r.pc = "record" =>
        r.segment \in remote /\ (r.level => held[At(d)] \subseteq Published)

IInv == Types /\ \A d \in Device : DeviceOk(d)

-----------------------------------------------------------------------------
LEMMA PublishedGrows == remote \subseteq remote' => Published \subseteq Published'
BY DEF Published

(* A step of one device touches only its own copies, cursor and run, and adds *)
(* to the remote tree.                                                        *)
LEMMA DeviceStep ==
    ASSUME IInv, NEW d \in Device, NEW r \in Runs, NEW c \in Cursor,
           Goes(d, r), cursor' = [cursor EXCEPT ![d] = c],
           remote \subseteq remote', remote' \subseteq Segment,
           held' \in [Copy -> SUBSET Commit],
           \A p \in Copy : p[1] # d => held'[p] = held[p],
           active' \in [Device -> File \cup {NoFile}],
           exports' \in [Device -> 0..MaxExports],
           born' \in Commit, faults' \in Nat, reopened' \subseteq Device,
           DeviceOk(d)'
    PROVE  IInv'
<1>1. /\ run' \in [Device -> Runs] /\ run'[d] = r /\ \A e \in Device : e # d => run'[e] = run[e]
  BY DEF IInv, Types, Goes
<1>2. /\ cursor' \in [Device -> Cursor] /\ \A e \in Device : e # d => cursor'[e] = cursor[e]
  BY DEF IInv, Types
<1>3. Types' BY <1>1, <1>2 DEF Types
<1>4. ASSUME NEW e \in Device, e # d PROVE DeviceOk(e)'
  <2>1. DeviceOk(e) /\ Published \subseteq Published' BY PublishedGrows DEF IInv
  <2>2. run[e].pc # "idle" => At(e)' = At(e) /\ held'[At(e)] = held[At(e)]
    <3>1. run[e].pc # "idle" => At(e) \in Copy /\ At(e)[1] = e BY <2>1 DEF DeviceOk, At, Copy
    <3>2. QED BY <1>1, <1>4, <3>1 DEF At
  <2>3. QED BY <1>1, <1>2, <1>4, <2>1, <2>2 DEF DeviceOk
<1>5. QED BY <1>3, <1>4 DEF IInv

LEMMA SegmentsAreReal == NoSegment \notin Segment
BY DEF NoSegment, Segment, Id

LEMMA IdleRun == Idle \in Runs /\ Idle.pc = "idle" /\ Idle.drained = FALSE /\ Idle.seen = {}
BY DEF Idle, Runs, Stages

LEMMA NoCursorShape == NoCursor \in Cursor /\ NoCursor.base = {}
BY DEF NoCursor, Cursor, Stream

LEMMA MoreIsFewer ==
    ASSUME IInv, MoreEvents
    PROVE  born + 1 \in Commit /\ faults + 1 \in Nat
<1>1. Cardinality(reopened) \in Nat
  BY SegmentSyncAssumption, FS_Subset, FS_CardinalityType DEF IInv, Types
<1>2. born \in Nat /\ faults \in Nat /\ MaxEvents \in Nat /\ born >= 1
  BY SegmentSyncAssumption DEF IInv, Types, Commit
<1>3. born - 1 + faults + Cardinality(reopened) < MaxEvents BY DEF MoreEvents, Boot
<1>4. QED BY <1>1, <1>2, <1>3 DEF Commit

(* What the run of a device may hold on to when only the device goes on.      *)
LEMMA QuietStep ==
    ASSUME IInv, NEW d \in Device, NEW r \in Runs, Goes(d, r),
           UNCHANGED <<remote, held, active, cursor, exports, born, reopened>>,
           faults' \in Nat,
           r.file = run[d].file,
           r.pc # "idle" => run[d].pc # "idle",
           r.pc \in {"upload", "verify"} => cursor[d].pending \in Segment,
           r.drained => r.pc # "idle" /\ held[At(d)] \subseteq Published,
           r.seen \subseteq remote,
           r.pc # "record"
    PROVE  IInv'
<1>1. run'[d] = r BY DEF Goes, IInv, Types
<1>2. DeviceOk(d) BY DEF IInv
<1>3. Published' = Published BY DEF Published
<1>4. At(d)' = At(d) BY <1>1 DEF At
<1>5. DeviceOk(d)' BY <1>1, <1>2, <1>3, <1>4 DEF DeviceOk
<1>6. cursor[d] \in Cursor /\ cursor' = [cursor EXCEPT ![d] = cursor[d]]
  BY DEF IInv, Types
<1>7. QED BY <1>5, <1>6, DeviceStep DEF IInv, Types

LEMMA StopStep == ASSUME IInv, NEW d \in Device, Stop(d) PROVE IInv'
<1>1. Goes(d, Idle) /\ UNCHANGED <<remote, held, active, cursor, exports, born, reopened>>
  BY DEF Stop, folder, copies, config, history
<1>2. run'[d] = Idle BY <1>1, IdleRun DEF Goes, IInv, Types
<1>3. faults' \in Nat BY MoreIsFewer DEF Stop
<1>4. DeviceOk(d)' BY <1>1, <1>2, IdleRun DEF DeviceOk, IInv, Published
<1>5. cursor[d] \in Cursor /\ cursor' = [cursor EXCEPT ![d] = cursor[d]]
  BY <1>1 DEF IInv, Types
<1>6. QED BY <1>1, <1>3, <1>4, <1>5, IdleRun, DeviceStep DEF IInv, Types

-----------------------------------------------------------------------------
(* Outside a run.                                                             *)

LEMMA EditStep == ASSUME IInv, NEW d \in Device, Edit(d) PROVE IInv'
<1> DEFINE p == <<d, active[d]>>
           more == held[p] \cup {born + 1}
<1>1. /\ run[d].pc = "idle" /\ p \in Copy /\ MoreEvents
      /\ held' = [held EXCEPT ![p] = more]
      /\ born' = born + 1 /\ UNCHANGED <<remote, active, cursor, run, exports, reopened, faults>>
  BY DEF Edit, folder, config, IInv, Types, Copy
<1>2. held' \in [Copy -> SUBSET Commit] BY <1>1, MoreIsFewer DEF IInv, Types
<1>3. \A q \in Copy : q[1] # d => held'[q] = held[q] BY <1>1 DEF IInv, Types
<1>4. run[d] \in Runs /\ Goes(d, run[d]) /\ cursor[d] \in Cursor /\ cursor' = [cursor EXCEPT ![d] = cursor[d]]
  BY <1>1 DEF IInv, Types, Goes
<1>5. DeviceOk(d)'
  <2>1. DeviceOk(d) BY DEF IInv
  <2>2. ~ run[d].drained BY <1>1, <2>1 DEF DeviceOk
  <2>3. QED BY <1>1, <2>1, <2>2 DEF DeviceOk, Published
<1>6. QED BY <1>1, <1>2, <1>3, <1>4, <1>5, MoreIsFewer, DeviceStep DEF IInv, Types

LEMMA OutsideSteps ==
    ASSUME IInv, NEW d \in Device, Sync(d) \/ LoseCursor(d) \/ \E f \in File : Switch(d, f)
    PROVE  IInv'
<1> USE DEF folder, copies, config, history
<1>0. DeviceOk(d) /\ run[d] \in Runs /\ cursor[d] \in Cursor BY DEF IInv, Types
<1>1. CASE Sync(d)
  <2> DEFINE r == [Idle EXCEPT !.pc = "blobs", !.file = active[d]]
  <2>1. active[d] \in File BY <1>1 DEF Sync, IInv, Types
  <2>2. r \in Runs /\ r.pc = "blobs" /\ r.file = active[d] /\ ~ r.drained /\ r.seen = {}
    BY <2>1, IdleRun DEF Idle, Runs, Stages
  <2>3. Goes(d, r) /\ UNCHANGED <<remote, held, active, cursor, exports, born, reopened, faults>>
    BY <1>1 DEF Sync, Goes
  <2> HIDE DEF r
  <2>4. run'[d] = r BY <2>3 DEF Goes, IInv, Types
  <2>5. DeviceOk(d)' BY <1>0, <2>1, <2>2, <2>3, <2>4 DEF DeviceOk, Published
  <2>6. cursor' = [cursor EXCEPT ![d] = cursor[d]] BY <2>3 DEF IInv, Types
  <2>7. QED BY <1>0, <2>2, <2>3, <2>5, <2>6, DeviceStep DEF IInv, Types
<1>2. CASE LoseCursor(d)
  <2>1. /\ cursor' = [cursor EXCEPT ![d] = NoCursor] /\ faults' \in Nat
        /\ UNCHANGED <<remote, held, active, run, exports, born, reopened>>
        /\ run[d].pc = "idle"
    BY <1>2, MoreIsFewer DEF LoseCursor
  <2>2. cursor'[d] = NoCursor BY <2>1 DEF IInv, Types
  <2>3. DeviceOk(d)'
    BY <1>0, <2>1, <2>2, NoCursorShape DEF DeviceOk, Published, At
  <2>4. Goes(d, run[d]) BY <2>1 DEF Goes, IInv, Types
  <2>5. QED BY <1>0, <2>1, <2>3, <2>4, NoCursorShape, DeviceStep DEF IInv, Types
<1>3. CASE \E f \in File : Switch(d, f)
  <2>1. /\ active' \in [Device -> File \cup {NoFile}] /\ faults' \in Nat
        /\ UNCHANGED <<remote, held, cursor, run, exports, born, reopened>>
    BY <1>3, MoreIsFewer DEF Switch, IInv, Types
  <2>2. DeviceOk(d)' BY <1>0, <2>1 DEF DeviceOk, Published, At
  <2>3. Goes(d, run[d]) /\ cursor' = [cursor EXCEPT ![d] = cursor[d]]
    BY <2>1 DEF Goes, IInv, Types
  <2>4. QED BY <1>0, <2>1, <2>2, <2>3, DeviceStep DEF IInv, Types
<1>4. QED BY <1>1, <1>2, <1>3

LEMMA OpenStep == ASSUME IInv, NEW d \in Device, Open(d) PROVE IInv'
<1> USE DEF folder, config
<1> DEFINE f == Cardinality(known[d]) + 1
           p == <<d, f>>
           r == [Idle EXCEPT !.pc = "blobs", !.file = f, !.boot = TRUE]
           c == [NoCursor EXCEPT !.base = {Boot}]
<1>1. /\ f \in File /\ held' = [held EXCEPT ![p] = {Boot}]
      /\ cursor' = [cursor EXCEPT ![d] = c] /\ Goes(d, r)
      /\ UNCHANGED <<remote, active, exports, born, faults>>
      /\ reopened' = reopened \/ reopened' = reopened \cup {d}
  BY DEF Open, FreshCursor, Goes
<1> HIDE DEF f
<1>2. p \in Copy /\ Boot \in Commit BY <1>1, SegmentSyncAssumption DEF Copy, Commit, Boot
<1>3. /\ held' \in [Copy -> SUBSET Commit]
      /\ \A q \in Copy : q[1] # d => held'[q] = held[q]
  BY <1>1, <1>2 DEF IInv, Types
<1>4. c \in Cursor /\ c.base = {Boot} BY <1>2, NoCursorShape DEF Cursor
<1>5. r \in Runs /\ r.pc = "blobs" /\ r.file = f /\ ~ r.drained /\ r.seen = {}
  BY <1>1, IdleRun DEF Idle, Runs, Stages
<1> HIDE DEF r, c
<1>6. run'[d] = r /\ cursor'[d] = c BY <1>1 DEF Goes, IInv, Types
<1>7. DeviceOk(d)' BY <1>1, <1>4, <1>5, <1>6 DEF DeviceOk, Published
<1>8. reopened' \subseteq Device BY <1>1 DEF IInv, Types
<1>9. QED BY <1>1, <1>3, <1>4, <1>5, <1>7, <1>8, DeviceStep DEF IInv, Types

-----------------------------------------------------------------------------
(* Publishing.                                                                *)

LEMMA SettleStep == ASSUME IInv, NEW d \in Device, Settle(d) PROVE IInv'
<1> DEFINE r == [run[d] EXCEPT !.pc = "publish"]
<1>1. /\ run[d].pc = "blobs" /\ Goes(d, r)
      /\ UNCHANGED <<remote, held, active, cursor, exports, born, reopened, faults>>
  BY DEF Settle, config, history
<1>2. DeviceOk(d) /\ run[d] \in Runs BY DEF IInv, Types
<1>3. /\ r \in Runs /\ r.pc = "publish" /\ r.file = run[d].file
      /\ r.drained = run[d].drained /\ r.seen = run[d].seen
  BY <1>2 DEF Runs, Stages
<1> HIDE DEF r
<1>4. QED BY <1>1, <1>2, <1>3, QuietStep DEF DeviceOk, IInv, Types

LEMMA SegmentForIsOne ==
    ASSUME IInv, NEW d \in Device, run[d].pc # "idle", exports[d] < MaxExports,
           NEW page \in Pages(d)
    PROVE  SegmentFor(d, page) \in Segment
<1>1. exports[d] + 1 \in Id BY SegmentSyncAssumption DEF IInv, Types, Id
<1>2. cursor[d] \in Cursor BY DEF IInv, Types
<1>3. cursor[d].resume # NoResume => cursor[d].resume.gen \in Id /\ cursor[d].resume.next \in Nat
  BY <1>2 DEF Cursor, Resume
<1>4. At(d) \in Copy BY DEF IInv, DeviceOk, At, Copy
<1>5. page \subseteq Commit BY <1>4 DEF Pages, Owed, IInv, Types
<1>6. QED BY <1>1, <1>3, <1>5 DEF SegmentFor, Segment

LEMMA ExportStep == ASSUME IInv, NEW d \in Device, Export(d) PROVE IInv'
<1>1. PICK page \in Pages(d) :
        cursor' = [cursor EXCEPT ![d] = [cursor[d] EXCEPT !.pending = SegmentFor(d, page)]]
  BY DEF Export
<1> DEFINE s == SegmentFor(d, page)
           c == [cursor[d] EXCEPT !.pending = s]
           r == [run[d] EXCEPT !.pc = "upload"]
<1>2. /\ run[d].pc = "publish" /\ Goes(d, r) /\ exports[d] < MaxExports
      /\ exports' = [exports EXCEPT ![d] = exports[d] + 1]
      /\ UNCHANGED <<remote, held, active, born, reopened, faults>>
  BY DEF Export, folder, copies, config, history
<1>3. s \in Segment BY <1>2, SegmentForIsOne
<1>4. DeviceOk(d) /\ run[d] \in Runs /\ cursor[d] \in Cursor BY DEF IInv, Types
<1> HIDE DEF s
<1>5. c \in Cursor /\ c.pending = s /\ c.base = cursor[d].base BY <1>3, <1>4 DEF Cursor
<1>6. /\ r \in Runs /\ r.pc = "upload" /\ r.file = run[d].file
      /\ r.drained = run[d].drained /\ r.seen = run[d].seen
  BY <1>4 DEF Runs, Stages
<1>7. cursor' = [cursor EXCEPT ![d] = c] BY <1>1 DEF s
<1> HIDE DEF r, c
<1>8. run'[d] = r /\ cursor'[d] = c BY <1>2, <1>7 DEF Goes, IInv, Types
<1>9. DeviceOk(d)' BY <1>2, <1>3, <1>4, <1>5, <1>6, <1>8 DEF DeviceOk, Published, At
<1>10. exports' \in [Device -> 0..MaxExports]
  BY <1>2, SegmentSyncAssumption DEF IInv, Types
<1>11. QED BY <1>2, <1>5, <1>6, <1>7, <1>9, <1>10, DeviceStep DEF IInv, Types

LEMMA ResendStep == ASSUME IInv, NEW d \in Device, Resend(d) PROVE IInv'
<1> DEFINE r == [run[d] EXCEPT !.pc = "upload"]
<1>1. /\ run[d].pc = "publish" /\ Goes(d, r) /\ cursor[d].pending # NoSegment
      /\ UNCHANGED <<remote, held, active, cursor, exports, born, reopened, faults>>
  BY DEF Resend, NothingPending, folder, copies, config, history
<1>2. DeviceOk(d) /\ run[d] \in Runs /\ cursor[d].pending \in Segment
  BY <1>1 DEF IInv, Types, Cursor
<1>3. /\ r \in Runs /\ r.pc = "upload" /\ r.file = run[d].file
      /\ r.drained = run[d].drained /\ r.seen = run[d].seen
  BY <1>2 DEF Runs, Stages
<1> HIDE DEF r
<1>4. QED BY <1>1, <1>2, <1>3, QuietStep DEF DeviceOk, IInv, Types

LEMMA PutStep == ASSUME IInv, NEW d \in Device, Put(d) PROVE IInv'
<1> DEFINE r == [run[d] EXCEPT !.pc = "verify"]
<1>1. /\ run[d].pc = "upload" /\ Goes(d, r) /\ remote' = remote \cup {cursor[d].pending}
      /\ UNCHANGED <<held, active, cursor, exports, born, reopened, faults>>
  BY DEF Put, copies, config, history
<1>2. DeviceOk(d) /\ run[d] \in Runs /\ cursor[d] \in Cursor BY DEF IInv, Types
<1>3. cursor[d].pending \in Segment BY <1>1, <1>2 DEF DeviceOk
<1>4. /\ r \in Runs /\ r.pc = "verify" /\ r.file = run[d].file
      /\ r.drained = run[d].drained /\ r.seen = run[d].seen
  BY <1>2 DEF Runs, Stages
<1> HIDE DEF r
<1>5. run'[d] = r BY <1>1 DEF Goes, IInv, Types
<1>6. Published \subseteq Published' BY <1>1, PublishedGrows
<1>7. DeviceOk(d)' BY <1>1, <1>2, <1>3, <1>4, <1>5, <1>6 DEF DeviceOk, At
<1>8. cursor' = [cursor EXCEPT ![d] = cursor[d]] BY <1>1 DEF IInv, Types
<1>9. QED BY <1>1, <1>2, <1>3, <1>4, <1>7, <1>8, DeviceStep DEF IInv, Types

LEMMA ConfirmStep == ASSUME IInv, NEW d \in Device, Confirm(d) PROVE IInv'
<1> DEFINE s == cursor[d].pending
           next == IF s.last THEN NoResume ELSE [gen |-> s.gen, next |-> s.seq + 1]
           c == [cursor[d] EXCEPT !.pending = NoSegment, !.base = cursor[d].base \cup s.commits,
                                  !.resume = next]
           r == [run[d] EXCEPT !.pc = "publish", !.sent = run[d].sent + 1]
<1>1. /\ run[d].pc = "verify" /\ Goes(d, r) /\ s \in remote
      /\ cursor' = [cursor EXCEPT ![d] = c]
      /\ UNCHANGED <<remote, held, active, exports, born, reopened, faults>>
  BY DEF Confirm, folder, config, history
<1>2. DeviceOk(d) /\ run[d] \in Runs /\ cursor[d] \in Cursor /\ s \in Segment
  BY <1>1 DEF IInv, Types
<1>3. next \in Resume \cup {NoResume} BY <1>2 DEF Segment, Resume
<1>4. cursor[d].base \cup s.commits \subseteq Commit BY <1>2 DEF Cursor, Segment
<1>5. cursor[d].base \cup s.commits \subseteq Published BY <1>1, <1>2 DEF DeviceOk, Published
<1> HIDE DEF s, next
<1>6. c \in Cursor /\ c.base = cursor[d].base \cup s.commits BY <1>2, <1>3, <1>4 DEF Cursor
<1>7. /\ r \in Runs /\ r.pc = "publish" /\ r.file = run[d].file
      /\ r.drained = run[d].drained /\ r.seen = run[d].seen
  <2>1. run[d].sent + 1 \in Nat /\ "publish" \in Stages BY <1>2 DEF Runs, Stages
  <2>2. QED BY <1>2, <2>1 DEF Runs
<1> HIDE DEF r, c
<1>8. run'[d] = r /\ cursor'[d] = c BY <1>1 DEF Goes, IInv, Types
<1>9. DeviceOk(d)' BY <1>1, <1>2, <1>5, <1>6, <1>7, <1>8 DEF DeviceOk, Published, At
<1>10. QED BY <1>1, <1>6, <1>7, <1>9, DeviceStep DEF IInv, Types

(* A run that ends its publishing with nothing owed holds only what is        *)
(* published.                                                                 *)
LEMMA EndPublishStep == ASSUME IInv, NEW d \in Device, EndPublish(d) PROVE IInv'
<1> DEFINE may == MaySend(d)
           r == [run[d] EXCEPT !.pc = "list", !.drained = may]
<1>1. may \in BOOLEAN BY DEF MaySend
<1>2. /\ run[d].pc = "publish" /\ Goes(d, r) /\ (may => Owed(d) = {})
      /\ UNCHANGED <<remote, held, active, cursor, exports, born, reopened, faults>>
  BY DEF EndPublish, Owes, folder, copies, config, history
<1> HIDE DEF may
<1>3. DeviceOk(d) /\ run[d] \in Runs BY DEF IInv, Types
<1>4. may => held[At(d)] \subseteq Published BY <1>2, <1>3 DEF Owed, DeviceOk
<1>5. /\ r.pc = "list" /\ r.file = run[d].file
      /\ r.drained = may /\ r.seen = run[d].seen
  BY <1>3 DEF Runs
<1>6. r \in Runs
  <2>1. "list" \in Stages BY DEF Stages
  <2>2. QED BY <1>1, <1>3, <2>1 DEF Runs
<1> HIDE DEF r
<1>7. QED BY <1>2, <1>3, <1>4, <1>5, <1>6, QuietStep DEF DeviceOk, IInv, Types

-----------------------------------------------------------------------------
(* Receiving.                                                                 *)

LEMMA ListStep == ASSUME IInv, NEW d \in Device, NEW e \in Device, List(d, e) PROVE IInv'
<1> DEFINE q == [run[d] EXCEPT !.listed = run[d].listed \cup {e},
                               !.seen = run[d].seen \cup {s \in remote : s.dev = e}]
           r == IF q.listed = Others(d) THEN [q EXCEPT !.pc = "receive"] ELSE q
<1>1. /\ run[d].pc = "list" /\ Goes(d, r)
      /\ UNCHANGED <<remote, held, active, cursor, exports, born, reopened, faults>>
  BY DEF List, folder, copies, config, history
<1>2. DeviceOk(d) /\ run[d] \in Runs /\ remote \subseteq Segment BY DEF IInv, Types
<1>3. /\ q \in Runs /\ q.pc = "list" /\ q.file = run[d].file /\ q.drained = run[d].drained
      /\ q.seen \subseteq remote
  BY <1>1, <1>2 DEF Runs, DeviceOk
<1> HIDE DEF q
<1>4. /\ r \in Runs /\ r.pc \in {"list", "receive"} /\ r.file = run[d].file
      /\ r.drained = run[d].drained /\ r.seen \subseteq remote
  BY <1>3 DEF Runs, Stages
<1> HIDE DEF r
<1>5. QED BY <1>1, <1>2, <1>4, QuietStep DEF DeviceOk, IInv, Types

LEMMA ApplyStep == ASSUME IInv, NEW d \in Device, NEW s \in run[d].seen, Apply(d, s) PROVE IInv'
<1> DEFINE p == At(d)
           more == held[p] \cup (s.commits \ held[p])
           level == cursor[d].base = held[p] /\ ~ derived[p]
<1>1. PICK conflict \in BOOLEAN :
          Goes(d, [run[d] EXCEPT !.pc = "record", !.got = TRUE, !.segment = s,
                                 !.level = level,
                                 !.conflict = run[d].conflict \/ conflict])
  BY DEF Apply
<1> DEFINE told == run[d].conflict \/ conflict
           r == [run[d] EXCEPT !.pc = "record", !.got = TRUE, !.segment = s,
                               !.level = level, !.conflict = told]
<1>2. /\ run[d].pc = "receive" /\ held' = [held EXCEPT ![p] = more] /\ Goes(d, r)
      /\ UNCHANGED <<remote, active, cursor, exports, born, reopened, faults>>
  BY <1>1 DEF Apply, folder, config, history
<1>3. /\ DeviceOk(d) /\ run[d] \in Runs /\ s \in remote /\ s \in Segment
  BY DEF IInv, Types, DeviceOk
<1>4. p \in Copy /\ p[1] = d BY <1>2, <1>3 DEF DeviceOk, At, Copy
<1>5. s.commits \subseteq Commit /\ s.commits \subseteq Published
  BY <1>3 DEF Segment, Published
<1>6. /\ held' \in [Copy -> SUBSET Commit] /\ held'[p] = more
      /\ \A q \in Copy : q[1] # d => held'[q] = held[q]
  BY <1>2, <1>4, <1>5 DEF IInv, Types
<1>7. level => held[p] \subseteq Published BY <1>3 DEF DeviceOk
<1>8. level \in BOOLEAN /\ told \in BOOLEAN OBVIOUS
<1>9. more \subseteq held[p] \cup Published BY <1>5
<1> HIDE DEF level, told, more, p
<1>10. /\ r \in Runs /\ r.pc = "record" /\ r.file = run[d].file /\ r.segment = s
       /\ r.drained = run[d].drained /\ r.seen = run[d].seen /\ r.level = level
  BY <1>3, <1>8 DEF Runs, Stages
<1> HIDE DEF r
<1>11. run'[d] = r BY <1>2 DEF Goes, IInv, Types
<1>12. At(d)' = p BY <1>10, <1>11 DEF At, p
<1>13. Published' = Published BY <1>2 DEF Published
<1>14. run[d].drained => held[p] \subseteq Published BY <1>3 DEF DeviceOk, p
<1>15. DeviceOk(d)'
  BY <1>2, <1>3, <1>6, <1>7, <1>9, <1>10, <1>11, <1>12, <1>13, <1>14 DEF DeviceOk
<1>16. cursor[d] \in Cursor /\ cursor' = [cursor EXCEPT ![d] = cursor[d]]
  BY <1>2 DEF IInv, Types
<1>17. QED BY <1>2, <1>6, <1>10, <1>15, <1>16, DeviceStep DEF IInv, Types

LEMMA StreamsShape ==
    ASSUME NEW c \in Cursor, NEW s \in Segment, NEW m \in Stream
    PROVE  [c.streams EXCEPT ![StreamOf(s)] = m] \in [Key -> Stream]
BY DEF Cursor, StreamOf, Segment, Key

LEMMA RecordStep == ASSUME IInv, NEW d \in Device, Record(d) PROVE IInv'
<1> DEFINE s == run[d].segment
           p == At(d)
           level == run[d].level
           streams == [cursor[d].streams EXCEPT ![StreamOf(s)] = Received(d, s)]
           base == IF level THEN held[p] ELSE cursor[d].base
           resume == IF level THEN NoResume ELSE cursor[d].resume
           c == [cursor[d] EXCEPT !.streams = streams, !.base = base, !.resume = resume]
           r == [run[d] EXCEPT !.pc = "receive", !.segment = NoSegment, !.level = FALSE]
<1>1. /\ run[d].pc = "record" /\ Goes(d, r) /\ cursor' = [cursor EXCEPT ![d] = c]
      /\ UNCHANGED <<remote, held, active, exports, born, reopened, faults>>
  BY DEF Record, folder, config, history
<1>2. /\ DeviceOk(d) /\ run[d] \in Runs /\ cursor[d] \in Cursor BY DEF IInv, Types
<1>3. s \in Segment /\ p \in Copy BY <1>1, <1>2 DEF DeviceOk, IInv, Types, At, Copy
<1>4. streams \in [Key -> Stream]
  <2>1. Received(d, s) \in Stream BY <1>3 DEF Received, Stream, Segment
  <2>2. QED BY <1>2, <1>3, <2>1, StreamsShape
<1>5. base \subseteq Commit /\ base \subseteq Published
  BY <1>1, <1>2, <1>3 DEF DeviceOk, IInv, Types, Cursor
<1>6. resume \in Resume \cup {NoResume} BY <1>2 DEF Cursor
<1> HIDE DEF streams, base, resume, s
<1>7. c \in Cursor /\ c.base = base BY <1>2, <1>4, <1>5, <1>6 DEF Cursor
<1>8. /\ r \in Runs /\ r.pc = "receive" /\ r.file = run[d].file
      /\ r.drained = run[d].drained /\ r.seen = run[d].seen
  BY <1>2 DEF Runs, Stages
<1> HIDE DEF r, c
<1>9. run'[d] = r /\ cursor'[d] = c BY <1>1 DEF Goes, IInv, Types
<1>10. DeviceOk(d)' BY <1>1, <1>2, <1>5, <1>7, <1>8, <1>9 DEF DeviceOk, Published, At
<1>11. QED BY <1>1, <1>7, <1>8, <1>10, DeviceStep DEF IInv, Types

LEMMA StallStep == ASSUME IInv, NEW d \in Device, NEW s \in run[d].seen, Stall(d, s) PROVE IInv'
<1> DEFINE k == StreamOf(s)
           m == [cursor[d].streams[k] EXCEPT !.blocked = TRUE]
           streams == [cursor[d].streams EXCEPT ![k] = m]
           c == [cursor[d] EXCEPT !.streams = streams]
           r == [run[d] EXCEPT !.got = TRUE]
<1>1. /\ run[d].pc = "receive" /\ Goes(d, r) /\ cursor' = [cursor EXCEPT ![d] = c]
      /\ UNCHANGED <<remote, held, active, exports, born, reopened, faults>>
  BY DEF Stall, folder, copies, config, history
<1>2. /\ DeviceOk(d) /\ run[d] \in Runs /\ cursor[d] \in Cursor /\ s \in Segment
  BY DEF IInv, Types, DeviceOk
<1>3. m \in Stream
  <2>1. k \in Key BY <1>2 DEF StreamOf, Key, Segment
  <2>2. QED BY <1>2, <2>1 DEF Cursor, Stream
<1> HIDE DEF m
<1>4. streams \in [Key -> Stream] BY <1>2, <1>3, StreamsShape
<1> HIDE DEF streams
<1>5. c \in Cursor /\ c.base = cursor[d].base /\ c.pending = cursor[d].pending
  BY <1>2, <1>4 DEF Cursor
<1>6. /\ r \in Runs /\ r.pc = run[d].pc /\ r.file = run[d].file
      /\ r.drained = run[d].drained /\ r.seen = run[d].seen
  BY <1>2 DEF Runs
<1> HIDE DEF r, c
<1>7. run'[d] = r /\ cursor'[d] = c BY <1>1 DEF Goes, IInv, Types
<1>8. DeviceOk(d)' BY <1>1, <1>2, <1>5, <1>6, <1>7 DEF DeviceOk, Published, At
<1>9. QED BY <1>1, <1>5, <1>6, <1>8, DeviceStep DEF IInv, Types

LEMMA CloseSteps == ASSUME IInv, NEW d \in Device, EndReceive(d) \/ Cancel(d) PROVE IInv'
<1> DEFINE r == [run[d] EXCEPT !.pc = "closing", !.seen = {}, !.listed = {}]
<1>1. /\ run[d].pc = "receive" /\ Goes(d, r) /\ faults' \in Nat
      /\ UNCHANGED <<remote, held, active, cursor, exports, born, reopened>>
  BY MoreIsFewer DEF EndReceive, Cancel, Disclose, folder, config, history, IInv, Types
<1>2. DeviceOk(d) /\ run[d] \in Runs BY DEF IInv, Types
<1>3. /\ r \in Runs /\ r.pc = "closing" /\ r.file = run[d].file
      /\ r.drained = run[d].drained /\ r.seen = {}
  BY <1>2 DEF Runs, Stages
<1> HIDE DEF r
<1>4. QED BY <1>1, <1>2, <1>3, QuietStep DEF DeviceOk

(* The jump of the base: only after a run that left nothing unpublished.      *)
LEMMA ReanchorStep == ASSUME IInv, NEW d \in Device, Reanchor(d) PROVE IInv'
<1> DEFINE c == IF Jumps(run[d])
                THEN [cursor[d] EXCEPT !.base = held[At(d)], !.resume = NoResume]
                ELSE cursor[d]
<1>1. /\ run[d].pc = "closing" /\ Goes(d, Idle) /\ cursor' = [cursor EXCEPT ![d] = c]
      /\ active' = [active EXCEPT ![d] = run[d].file]
      /\ UNCHANGED <<remote, held, exports, born, reopened, faults>>
  BY DEF Reanchor, folder, history
<1>2. /\ DeviceOk(d) /\ run[d] \in Runs /\ cursor[d] \in Cursor /\ run[d].file \in File
  BY <1>1 DEF IInv, Types, DeviceOk
<1>3. held[At(d)] \subseteq Commit BY <1>2 DEF IInv, Types, At, Copy
<1>4. Jumps(run[d]) => held[At(d)] \subseteq Published BY <1>2 DEF Jumps, DeviceOk
<1>5. c \in Cursor /\ c.base \subseteq Published
  BY <1>2, <1>3, <1>4 DEF Cursor, DeviceOk
<1> HIDE DEF c
<1>6. run'[d] = Idle /\ cursor'[d] = c BY <1>1, IdleRun DEF Goes, IInv, Types
<1>7. DeviceOk(d)' BY <1>1, <1>5, <1>6, IdleRun DEF DeviceOk, Published
<1>8. active' \in [Device -> File \cup {NoFile}] BY <1>1, <1>2 DEF IInv, Types
<1>9. QED BY <1>1, <1>5, <1>7, <1>8, IdleRun, DeviceStep DEF IInv, Types

-----------------------------------------------------------------------------
LEMMA InitIInv == Init => IInv
<1> SUFFICES ASSUME Init PROVE IInv
  OBVIOUS
<1>1. Boot \in Commit BY SegmentSyncAssumption DEF Boot, Commit
<1>2. Types
  <2>1. held \in [Copy -> SUBSET Commit] BY <1>1 DEF Init
  <2>2. active \in [Device -> File \cup {NoFile}]
    BY SegmentSyncAssumption DEF Init, File
  <2>3. cursor \in [Device -> Cursor] /\ run \in [Device -> Runs]
    BY NoCursorShape, IdleRun DEF Init
  <2>4. exports \in [Device -> 0..MaxExports] BY SegmentSyncAssumption DEF Init
  <2>5. remote = {} /\ born = Boot /\ faults = 0 /\ reopened = {} BY DEF Init
  <2>6. QED BY <1>1, <2>1, <2>2, <2>3, <2>4, <2>5 DEF Types
<1>3. \A d \in Device : cursor[d] = NoCursor /\ run[d] = Idle BY DEF Init
<1>4. \A d \in Device : DeviceOk(d) BY <1>3, NoCursorShape, IdleRun DEF DeviceOk
<1>5. QED BY <1>2, <1>4 DEF IInv

LEMMA StepIInv == ASSUME IInv, [Next]_vars PROVE IInv'
<1>1. CASE Next
  <2>1. PICK d \in Device :
            \/ Edit(d) \/ Sync(d) \/ Open(d) \/ LoseCursor(d)
            \/ \E f \in File : Switch(d, f)
            \/ RunStep(d) \/ Cancel(d) \/ Stop(d)
    BY <1>1 DEF Next
  <2>2. CASE Edit(d) BY <2>2, EditStep
  <2>3. CASE Sync(d) \/ LoseCursor(d) \/ \E f \in File : Switch(d, f) BY <2>3, OutsideSteps
  <2>4. CASE Open(d) BY <2>4, OpenStep
  <2>5. CASE Stop(d) BY <2>5, StopStep
  <2>6. CASE Settle(d) \/ Export(d) \/ Resend(d) \/ Put(d) \/ Confirm(d) \/ EndPublish(d)
    BY <2>6, SettleStep, ExportStep, ResendStep, PutStep, ConfirmStep, EndPublishStep
  <2>7. CASE \E e \in Device : List(d, e) BY <2>7, ListStep
  <2>8. CASE \E s \in run[d].seen : Apply(d, s) \/ Stall(d, s) BY <2>8, ApplyStep, StallStep
  <2>9. CASE Record(d) BY <2>9, RecordStep
  <2>10. CASE EndReceive(d) \/ Cancel(d) BY <2>10, CloseSteps
  <2>11. CASE Reanchor(d) BY <2>11, ReanchorStep
  <2>12. QED BY <2>1, <2>2, <2>3, <2>4, <2>5, <2>6, <2>7, <2>8, <2>9, <2>10, <2>11 DEF RunStep
<1>2. CASE UNCHANGED vars
  <2> USE <1>2 DEF vars, folder, copies, config, history
  <2>1. Types' BY DEF IInv, Types
  <2>2. \A d \in Device : DeviceOk(d)' BY DEF IInv, DeviceOk, Published, At
  <2>3. QED BY <2>1, <2>2 DEF IInv
<1>3. QED BY <1>1, <1>2

(* However the runs that moved it ended, and whatever other devices append    *)
(* meanwhile: every commit before an export base is in the bootstrap or in a  *)
(* segment on the remote (reanchor and settle of segment.rs).                 *)
THEOREM NothingIsJumped == Spec => []NothingJumped
<1>1. IInv => NothingJumped BY DEF IInv, DeviceOk, NothingJumped
<1>2. IInv /\ [Next]_vars => IInv' BY StepIInv
<1>3. QED BY InitIInv, <1>1, <1>2, PTL DEF Spec

-----------------------------------------------------------------------------
(* The names of segments.  A segment on its way is the newest of its stream,  *)
(* or is there already; where a stream is resumed, all of it is older.        *)
NameOk(d) ==
    LET c == cursor[d]  p == c.pending IN
    /\ p # NoSegment =>
         /\ p.dev = d /\ p.gen <= exports[d]
         /\ \A s \in remote : StreamOf(s) = StreamOf(p) => s.seq < p.seq \/ s = p
    /\ p = NoSegment /\ c.resume # NoResume =>
         /\ c.resume.gen <= exports[d]
         /\ \A s \in remote : StreamOf(s) = <<d, c.resume.gen>> => s.seq < c.resume.next

NamesInv ==
    /\ \A s \in remote : s.gen <= exports[s.dev]
    /\ \A s, t \in remote : StreamOf(s) = StreamOf(t) /\ s.seq = t.seq => s = t
    /\ \A d \in Device : NameOk(d)

LEMMA NamesInvIsEnough == IInv /\ NamesInv => OneSegmentPerName
<1> SUFFICES ASSUME IInv, NamesInv,
                    NEW s \in remote \cup {cursor[d].pending : d \in Device},
                    NEW t \in remote \cup {cursor[d].pending : d \in Device},
                    StreamOf(s) = StreamOf(t), s.seq = t.seq
             PROVE  s = t
  BY DEF OneSegmentPerName
<1>0. /\ remote \subseteq Segment /\ s.dev = t.dev /\ s.gen = t.gen
      /\ \A d \in Device : cursor[d].pending \in Segment \cup {NoSegment}
  BY DEF IInv, Types, Cursor, StreamOf
<1>1. CASE s \in remote /\ t \in remote BY <1>1 DEF NamesInv
<1>2. ASSUME NEW a \in remote, NEW d \in Device, StreamOf(a) = StreamOf(cursor[d].pending),
             a.seq = cursor[d].pending.seq
      PROVE  a = cursor[d].pending
  <2>1. a \in Segment /\ a.gen = cursor[d].pending.gen BY <1>0, <1>2 DEF StreamOf
  <2>2. cursor[d].pending # NoSegment BY <2>1 DEF Segment, Id, NoSegment
  <2>3. QED BY <1>0, <1>2, <2>1, <2>2 DEF NamesInv, NameOk, Segment
<1>3. ASSUME NEW d \in Device, NEW e \in Device, s = cursor[d].pending, t = cursor[e].pending
      PROVE  s = t
  <2>1. CASE s = NoSegment
    <3>1. t.gen = 0 BY <1>0, <2>1 DEF NoSegment
    <3>2. QED BY <1>0, <1>3, <2>1, <3>1 DEF Segment, Id
  <2>2. CASE s # NoSegment
    <3>1. s \in Segment /\ s.dev = d BY <1>0, <1>3, <2>2 DEF NamesInv, NameOk
    <3>2. t # NoSegment BY <1>0, <3>1 DEF NoSegment, Segment, Id
    <3>3. t.dev = e BY <1>3, <3>2 DEF NamesInv, NameOk
    <3>4. QED BY <1>0, <1>3, <3>1, <3>3
  <2>3. QED BY <2>1, <2>2
<1>4. QED BY <1>1, <1>2, <1>3

(* A step that exports nothing and sends nothing, and forgets a name at most. *)
LEMMA NamesKept ==
    ASSUME NamesInv, NEW d \in Device, UNCHANGED <<remote, exports>>,
           \A e \in Device : e # d => cursor'[e] = cursor[e],
           \/ /\ cursor'[d].pending = cursor[d].pending
              /\ cursor'[d].resume \in {cursor[d].resume, NoResume}
           \/ cursor'[d].pending = NoSegment /\ cursor'[d].resume = NoResume
    PROVE  NamesInv'
<1>1. NameOk(d)' BY DEF NamesInv, NameOk
<1>2. \A e \in Device : e # d => NameOk(e)' BY DEF NamesInv, NameOk
<1>3. QED BY <1>1, <1>2 DEF NamesInv

LEMMA QuietNames ==
    ASSUME IInv, NamesInv, NEW d \in Device,
           \/ Edit(d) \/ Sync(d) \/ Open(d) \/ LoseCursor(d)
           \/ \E f \in File : Switch(d, f)
           \/ Settle(d) \/ Resend(d) \/ EndPublish(d)
           \/ \E e \in Device : List(d, e)
           \/ \E s \in run[d].seen : Apply(d, s) \/ Stall(d, s)
           \/ Record(d) \/ EndReceive(d) \/ Cancel(d) \/ Reanchor(d) \/ Stop(d)
    PROVE  NamesInv'
<1> USE DEF folder, copies, config, history
<1>0. cursor \in [Device -> Cursor] BY DEF IInv, Types
<1>1. CASE UNCHANGED <<remote, exports, cursor>> BY <1>1, NamesKept
<1>2. CASE Open(d) \/ LoseCursor(d)
  <2>1. PICK c \in {NoCursor, FreshCursor(d)} : cursor' = [cursor EXCEPT ![d] = c]
    BY <1>2 DEF Open, LoseCursor
  <2>2. c.pending = NoSegment /\ c.resume = NoResume BY DEF NoCursor, FreshCursor
  <2>3. UNCHANGED <<remote, exports>> BY <1>2 DEF Open, LoseCursor
  <2>4. QED BY <1>0, <2>1, <2>2, <2>3, NamesKept
<1>3. CASE Record(d) \/ Reanchor(d) \/ \E s \in run[d].seen : Stall(d, s)
  <2>1. UNCHANGED <<remote, exports>> /\ \A e \in Device : e # d => cursor'[e] = cursor[e]
    <3>1. UNCHANGED <<remote, exports>> /\ \E c : cursor' = [cursor EXCEPT ![d] = c]
      BY <1>3 DEF Record, Reanchor, Stall
    <3>2. QED BY <1>0, <3>1
  <2>2. /\ cursor'[d].pending = cursor[d].pending
        /\ cursor'[d].resume \in {cursor[d].resume, NoResume}
    <3>1. CASE Record(d)
      <4> DEFINE streams == [cursor[d].streams EXCEPT ![StreamOf(run[d].segment)] = Received(d, run[d].segment)]
                 base == IF run[d].level THEN held[At(d)] ELSE cursor[d].base
                 resume == IF run[d].level THEN NoResume ELSE cursor[d].resume
      <4>1. cursor'[d] = [cursor[d] EXCEPT !.streams = streams, !.base = base, !.resume = resume]
        BY <1>0, <3>1 DEF Record
      <4>2. resume \in {cursor[d].resume, NoResume} OBVIOUS
      <4> HIDE DEF streams, base, resume
      <4>3. QED BY <1>0, <4>1, <4>2 DEF Cursor
    <3>2. CASE Reanchor(d) BY <1>0, <3>2 DEF Reanchor, Cursor
    <3>3. CASE \E s \in run[d].seen : Stall(d, s)
      <4>1. PICK s \in run[d].seen : Stall(d, s) BY <3>3
      <4> DEFINE streams == [cursor[d].streams EXCEPT ![StreamOf(s)] =
                                [cursor[d].streams[StreamOf(s)] EXCEPT !.blocked = TRUE]]
      <4>2. cursor'[d] = [cursor[d] EXCEPT !.streams = streams] BY <1>0, <4>1 DEF Stall
      <4> HIDE DEF streams
      <4>3. QED BY <1>0, <4>2 DEF Cursor
    <3>4. QED BY <1>3, <3>1, <3>2, <3>3
  <2>3. QED BY <2>1, <2>2, NamesKept
<1>4. CASE \/ Edit(d) \/ Sync(d) \/ Settle(d) \/ Resend(d) \/ EndPublish(d)
           \/ \E f \in File : Switch(d, f)
  BY <1>1, <1>4 DEF Edit, Sync, Switch, Settle, Resend, EndPublish
<1>5. CASE \/ EndReceive(d) \/ Cancel(d) \/ Stop(d) \/ (\E e \in Device : List(d, e))
           \/ \E s \in run[d].seen : Apply(d, s)
  BY <1>1, <1>5 DEF EndReceive, Cancel, Disclose, Stop, List, Apply
<1>6. QED BY <1>2, <1>3, <1>4, <1>5

LEMMA ExportNames == ASSUME IInv, NamesInv, NEW d \in Device, Export(d) PROVE NamesInv'
<1>1. PICK page \in Pages(d) :
        cursor' = [cursor EXCEPT ![d] = [cursor[d] EXCEPT !.pending = SegmentFor(d, page)]]
  BY DEF Export
<1> DEFINE s == SegmentFor(d, page)
           c == [cursor[d] EXCEPT !.pending = s]
<1>2. /\ run[d].pc = "publish" /\ cursor[d].pending = NoSegment /\ exports[d] < MaxExports
      /\ exports' = [exports EXCEPT ![d] = exports[d] + 1] /\ remote' = remote
  BY DEF Export, NothingPending, folder
<1>3. /\ remote \subseteq Segment /\ cursor \in [Device -> Cursor]
      /\ exports \in [Device -> 0..MaxExports] /\ exports[d] \in Nat
  BY SegmentSyncAssumption DEF IInv, Types
<1>4. s \in Segment BY <1>2, SegmentForIsOne
<1>5. /\ s.dev = d
      /\ IF cursor[d].resume = NoResume THEN s.gen = exports[d] + 1 /\ s.seq = 0
         ELSE s.gen = cursor[d].resume.gen /\ s.seq = cursor[d].resume.next
  BY DEF SegmentFor
<1> HIDE DEF s
<1>6. cursor'[d] = c /\ c.pending = s /\ \A e \in Device : e # d => cursor'[e] = cursor[e]
  BY <1>1, <1>3 DEF s, Cursor
<1>7. /\ exports'[d] = exports[d] + 1
      /\ \A e \in Device : e # d => exports'[e] = exports[e]
  BY <1>2, <1>3
<1>8. \A t \in remote : t.dev \in Device /\ t.gen \in Nat /\ t.seq \in Nat BY <1>3 DEF Segment, Id
<1>9. \A t \in remote : t.gen <= exports'[t.dev] BY <1>3, <1>7, <1>8 DEF NamesInv
<1>10. NameOk(d)'
  <2>1. s.gen <= exports'[d] BY <1>2, <1>3, <1>5, <1>7 DEF NamesInv, NameOk, Cursor, Resume, Id
  <2>2. \A t \in remote : StreamOf(t) = StreamOf(s) => t.seq < s.seq
    BY <1>2, <1>3, <1>5, <1>8 DEF NamesInv, NameOk, StreamOf
  <2>3. s # NoSegment BY <1>4, SegmentsAreReal
  <2>4. QED BY <1>2, <1>5, <1>6, <2>1, <2>2, <2>3 DEF NameOk
<1>11. \A e \in Device : e # d => NameOk(e)' BY <1>2, <1>6, <1>7 DEF NamesInv, NameOk
<1>12. QED BY <1>2, <1>9, <1>10, <1>11 DEF NamesInv

LEMMA PutNames == ASSUME IInv, NamesInv, NEW d \in Device, Put(d) PROVE NamesInv'
<1> DEFINE s == cursor[d].pending
<1>1. /\ run[d].pc = "upload" /\ remote' = remote \cup {s} /\ UNCHANGED <<cursor, exports>>
  BY DEF Put
<1>2. /\ remote \subseteq Segment /\ s \in Segment /\ s # NoSegment
      /\ \A e \in Device : cursor[e].pending \in Segment \cup {NoSegment}
  BY <1>1, SegmentsAreReal DEF IInv, Types, DeviceOk, Cursor
<1>3. s.dev = d /\ s.gen <= exports[d] /\ \A t \in remote : StreamOf(t) = StreamOf(s) => t.seq < s.seq \/ t = s
  BY <1>2 DEF NamesInv, NameOk
<1>4. \A t \in remote : StreamOf(t) = StreamOf(s) /\ t.seq = s.seq => t = s BY <1>2, <1>3 DEF Segment
<1>5. ASSUME NEW e \in Device PROVE NameOk(e)'
  <2>1. CASE e = d BY <1>1, <1>2, <1>3, <2>1 DEF NamesInv, NameOk
  <2>2. CASE e # d
    <3>1. /\ cursor[e].pending # NoSegment => StreamOf(s) # StreamOf(cursor[e].pending)
          /\ StreamOf(s) # <<e, cursor[e].resume.gen>>
      BY <1>2, <1>3, <2>2 DEF NamesInv, NameOk, StreamOf
    <3>2. QED BY <1>1, <2>2, <3>1 DEF NamesInv, NameOk
  <2>3. QED BY <2>1, <2>2
<1> HIDE DEF s
<1>6. \A t \in remote' : t.gen <= exports'[t.dev] BY <1>1, <1>3 DEF NamesInv
<1>7. \A t, u \in remote' : StreamOf(t) = StreamOf(u) /\ t.seq = u.seq => t = u
  BY <1>1, <1>4 DEF NamesInv
<1>8. QED BY <1>5, <1>6, <1>7 DEF NamesInv

LEMMA ConfirmNames == ASSUME IInv, NamesInv, NEW d \in Device, Confirm(d) PROVE NamesInv'
<1> DEFINE s == cursor[d].pending
           next == IF s.last THEN NoResume ELSE [gen |-> s.gen, next |-> s.seq + 1]
           base == cursor[d].base \cup s.commits
           c == [cursor[d] EXCEPT !.pending = NoSegment, !.base = base, !.resume = next]
<1>1. /\ s \in remote /\ cursor' = [cursor EXCEPT ![d] = c] /\ UNCHANGED <<remote, exports>>
  BY DEF Confirm, folder
<1>2. remote \subseteq Segment /\ s \in Segment /\ s # NoSegment /\ cursor \in [Device -> Cursor]
  BY <1>1, SegmentsAreReal DEF IInv, Types
<1>3. /\ s.dev = d /\ s.gen <= exports[d]
      /\ \A t \in remote : StreamOf(t) = StreamOf(s) => t.seq < s.seq \/ t = s
  BY <1>2 DEF NamesInv, NameOk
<1>4. \A t \in remote : StreamOf(t) = StreamOf(s) => t.seq < s.seq + 1 BY <1>2, <1>3 DEF Segment
<1>5. next # NoResume => next.gen = s.gen /\ next.next = s.seq + 1 OBVIOUS
<1>6. StreamOf(s) = <<d, s.gen>> BY <1>3 DEF StreamOf
<1> HIDE DEF s, next, base
<1>7. c.pending = NoSegment /\ c.resume = next BY <1>2 DEF Cursor
<1> HIDE DEF c
<1>8. cursor'[d] = c /\ \A e \in Device : e # d => cursor'[e] = cursor[e] BY <1>1, <1>2
<1>9. NameOk(d)' BY <1>1, <1>3, <1>4, <1>5, <1>6, <1>7, <1>8 DEF NameOk
<1>10. \A e \in Device : e # d => NameOk(e)' BY <1>1, <1>8 DEF NamesInv, NameOk
<1>11. QED BY <1>1, <1>9, <1>10 DEF NamesInv

LEMMA InitNames == Init => NamesInv
<1>1. ASSUME Init PROVE \A d \in Device : NameOk(d)
  BY <1>1 DEF Init, NameOk, NoCursor
<1>2. QED BY <1>1 DEF Init, NamesInv

LEMMA StepNames == ASSUME IInv, NamesInv, [Next]_vars PROVE NamesInv'
<1>1. CASE UNCHANGED vars
  <2>1. UNCHANGED <<remote, exports, cursor>> BY <1>1 DEF vars, folder
  <2>2. \A d \in Device : NameOk(d)' BY <2>1 DEF NamesInv, NameOk
  <2>3. QED BY <2>1, <2>2 DEF NamesInv
<1>2. CASE Next
  <2>1. PICK d \in Device :
            \/ Edit(d) \/ Sync(d) \/ Open(d) \/ LoseCursor(d)
            \/ \E f \in File : Switch(d, f)
            \/ RunStep(d) \/ Cancel(d) \/ Stop(d)
    BY <1>2 DEF Next
  <2>2. QED BY <2>1, QuietNames, ExportNames, PutNames, ConfirmNames DEF RunStep
<1>3. QED BY <1>1, <1>2

(* However many runs were cut short, cursors lost and copies exchanged, a     *)
(* name in the tree stands for one segment: a segment is in the cursor before *)
(* it is anywhere else, and a stream that cannot be resumed is never reused.  *)
THEOREM NamesAreUnique == Spec => []OneSegmentPerName
<1>1. NamesInv /\ IInv => OneSegmentPerName BY NamesInvIsEnough
<1>2. IInv /\ [Next]_vars => IInv' BY StepIInv
<1>3. IInv /\ NamesInv /\ [Next]_vars => NamesInv' BY StepNames
<1>4. QED BY InitIInv, InitNames, <1>1, <1>2, <1>3, PTL DEF Spec
-----------------------------------------------------------------------------
(* A device that opened the vault once has one copy.                          *)
OneCopy(d) ==
    /\ active[d] \in {NoFile, 1}
    /\ known[d] = IF active[d] = NoFile THEN {} ELSE {1}
    /\ run[d].pc # "idle" => run[d].file = 1

(* What was applied and is not in the cursor yet is the next of its stream    *)
(* and in the copy.                                                           *)
Reading(d) ==
    LET s == run[d].segment IN
    run[d].pc = "record" =>
      s.seq = cursor[d].streams[StreamOf(s)].next /\ s.commits \subseteq held[At(d)]

(* A stream was received without a gap, so nothing can slip in before it.     *)
Filled(d) ==
    \A k \in Key, n \in Nat : n < cursor[d].streams[k].next =>
      \E s \in remote : StreamOf(s) = k /\ s.seq = n

Got(d) ==
    \A s \in remote : s.seq < cursor[d].streams[StreamOf(s)].next =>
      s.commits \subseteq held[<<d, 1>>] /\ s.commits \cap Heavy \subseteq blobs[<<d, 1>>]

HeldTypes == blobs \in [Copy -> SUBSET Commit] /\ known \in [Device -> SUBSET File]
HeldOk(d) == Reading(d) /\ Filled(d) /\ (d \notin reopened => OneCopy(d) /\ Got(d))
HeldInv == HeldTypes /\ \A d \in Device : HeldOk(d)

LEMMA HeldInvIsEnough == IInv /\ HeldInv => ReceivedIsHeld
<1> SUFFICES ASSUME HeldInv, NEW d \in Device \ reopened, active[d] # NoFile, NEW s \in remote,
                    s.seq < cursor[d].streams[StreamOf(s)].next
             PROVE  /\ s.commits \subseteq Holding(d)
                    /\ s.commits \cap Heavy \subseteq blobs[<<d, active[d]>>]
  BY DEF ReceivedIsHeld
<1>1. active[d] = 1 /\ Got(d) BY DEF HeldInv, HeldOk, OneCopy
<1>2. QED BY <1>1 DEF Got, Holding

SameNext(d) == \A k \in Key : cursor'[d].streams[k].next = cursor[d].streams[k].next
NothingNext(d) == \A k \in Key : cursor'[d].streams[k].next = 0

(* A step that takes nothing from the copies of d and applies nothing.        *)
LEMMA HeldKept ==
    ASSUME IInv, HeldInv, NEW d \in Device, remote' = remote,
           \A p \in Copy : p[1] = d => held[p] \subseteq held'[p] /\ blobs[p] \subseteq blobs'[p],
           SameNext(d) \/ NothingNext(d),
           run'[d].pc = "record" => run'[d] = run[d] /\ SameNext(d),
           reopened \subseteq reopened',
           d \notin reopened' => OneCopy(d)'
    PROVE  HeldOk(d)'
<1>0. \A s \in remote : s \in Segment /\ s.seq \in Nat /\ StreamOf(s) \in Key
  BY DEF IInv, Types, Segment, StreamOf, Key
<1>1. Filled(d)'
  <2>1. CASE SameNext(d) BY <2>1 DEF SameNext, HeldInv, HeldOk, Filled
  <2>2. CASE NothingNext(d) BY <2>2 DEF NothingNext, Filled
  <2>3. QED BY <2>1, <2>2
<1>2. ASSUME d \notin reopened' PROVE Got(d)'
  <2>1. Got(d) BY <1>2 DEF HeldInv, HeldOk
  <2>2. CASE SameNext(d)
    <3>0. 1 \in File /\ <<d, 1>> \in Copy BY SegmentSyncAssumption DEF File, Copy
    <3>1. held[<<d, 1>>] \subseteq held'[<<d, 1>>] /\ blobs[<<d, 1>>] \subseteq blobs'[<<d, 1>>]
      BY <3>0
    <3>2. ASSUME NEW s \in remote, s.seq < cursor'[d].streams[StreamOf(s)].next
          PROVE  /\ s.commits \subseteq held'[<<d, 1>>]
                 /\ s.commits \cap Heavy \subseteq blobs'[<<d, 1>>]
      <4>1. s.seq < cursor[d].streams[StreamOf(s)].next BY <1>0, <2>2, <3>2 DEF SameNext
      <4>2. QED BY <2>1, <3>1, <4>1 DEF Got
    <3>3. QED BY <3>2 DEF Got
  <2>3. CASE NothingNext(d) BY <1>0, <2>3 DEF NothingNext, Got
  <2>4. QED BY <2>2, <2>3
<1>3. Reading(d)'
  <2> SUFFICES ASSUME run'[d].pc = "record"
               PROVE  /\ run'[d].segment.seq = cursor'[d].streams[StreamOf(run'[d].segment)].next
                      /\ run'[d].segment.commits \subseteq held'[At(d)']
    BY DEF Reading
  <2>1. run'[d] = run[d] /\ At(d)' = At(d) BY DEF At
  <2>2. run[d].segment \in remote /\ At(d) \in Copy /\ At(d)[1] = d
    BY <2>1 DEF IInv, DeviceOk, At, Copy
  <2>3. Reading(d) BY DEF HeldInv, HeldOk
  <2>4. QED BY <1>0, <2>1, <2>2, <2>3 DEF Reading, SameNext
<1>4. QED BY <1>1, <1>2, <1>3 DEF HeldOk

(* It leaves the other devices alone.                                         *)
LEMMA OthersHeld ==
    ASSUME IInv, HeldInv, NEW d \in Device, remote' = remote,
           \A p \in Copy : p[1] # d => held'[p] = held[p] /\ blobs'[p] = blobs[p],
           reopened \subseteq reopened',
           \A e \in Device : e # d => /\ cursor'[e] = cursor[e] /\ run'[e] = run[e]
                                      /\ active'[e] = active[e] /\ known'[e] = known[e],
           HeldTypes', HeldOk(d)'
    PROVE  HeldInv'
<1>1. ASSUME NEW e \in Device, e # d PROVE HeldOk(e)'
  <2>1. e \notin reopened' => OneCopy(e)' BY <1>1 DEF HeldInv, HeldOk, OneCopy
  <2>2. SameNext(e) BY <1>1 DEF SameNext
  <2>3. \A p \in Copy : p[1] = e => held'[p] = held[p] /\ blobs'[p] = blobs[p] BY <1>1
  <2>4. QED BY <1>1, <2>1, <2>2, <2>3, HeldKept
<1>2. QED BY <1>1 DEF HeldInv

(* Steps that keep the copies, the cursor and what is configured.             *)
LEMMA RunOnly ==
    ASSUME IInv, HeldInv, NEW d \in Device, NEW r, Goes(d, r),
           UNCHANGED <<remote, held, active, known, reopened>>,
           HeldTypes', \A p \in Copy : p[1] # d => blobs'[p] = blobs[p],
           \A p \in Copy : blobs[p] \subseteq blobs'[p],
           \A e \in Device : e # d => cursor'[e] = cursor[e],
           SameNext(d) \/ NothingNext(d),
           r.pc # "record",
           r.pc # "idle" => run[d].pc # "idle" /\ r.file = run[d].file
    PROVE  HeldInv'
<1>1. run'[d] = r /\ \A e \in Device : e # d => run'[e] = run[e] BY DEF Goes, IInv, Types
<1>2. d \notin reopened => OneCopy(d)' BY <1>1 DEF HeldInv, HeldOk, OneCopy
<1>3. HeldOk(d)' BY <1>1, <1>2, HeldKept
<1>4. QED BY <1>1, <1>3, OthersHeld

LEMMA RunOnlySteps ==
    ASSUME IInv, HeldInv, NEW d \in Device,
           \/ Settle(d) \/ Export(d) \/ Resend(d) \/ Confirm(d) \/ EndPublish(d)
           \/ \E e \in Device : List(d, e)
           \/ \E s \in run[d].seen : Stall(d, s)
           \/ EndReceive(d) \/ Cancel(d) \/ Stop(d)
    PROVE  HeldInv'
<1>0. /\ cursor \in [Device -> Cursor] /\ run[d] \in Runs /\ HeldTypes
      /\ DeviceOk(d) /\ held \in [Copy -> SUBSET Commit]
  BY DEF IInv, Types, HeldInv
<1>same. cursor' = cursor => SameNext(d) BY DEF SameNext
<1>1. CASE Settle(d)
  <2> DEFINE r == [run[d] EXCEPT !.pc = "publish"]
             more == blobs[At(d)] \cup Needs(d)
  <2>1. /\ run[d].pc = "blobs" /\ Goes(d, r) /\ blobs' = [blobs EXCEPT ![At(d)] = more]
        /\ UNCHANGED <<remote, held, active, known, cursor, reopened>>
    BY <1>1 DEF Settle, config, history
  <2>2. At(d) \in Copy /\ At(d)[1] = d BY <1>0, <2>1 DEF DeviceOk, At, Copy
  <2>3. more \in SUBSET Commit BY <1>0, <2>2 DEF Needs, HeldTypes
  <2>4. r.pc = "publish" /\ r.file = run[d].file BY <1>0 DEF Runs
  <2> HIDE DEF more, r
  <2>5. /\ HeldTypes' /\ \A p \in Copy : p[1] # d => blobs'[p] = blobs[p]
        /\ blobs'[At(d)] = more /\ \A p \in Copy : p # At(d) => blobs'[p] = blobs[p]
    BY <1>0, <2>1, <2>2, <2>3 DEF HeldTypes
  <2>6. \A p \in Copy : blobs[p] \subseteq blobs'[p] BY <2>5 DEF more
  <2>7. QED BY <1>same, <2>1, <2>4, <2>5, <2>6, RunOnly
<1>2. CASE Export(d)
  <2> DEFINE r == [run[d] EXCEPT !.pc = "upload"]
  <2>1. PICK s : cursor' = [cursor EXCEPT ![d] = [cursor[d] EXCEPT !.pending = s]]
    BY <1>2 DEF Export
  <2>2. /\ run[d].pc = "publish" /\ Goes(d, r)
        /\ UNCHANGED <<remote, held, blobs, active, known, reopened>>
    BY <1>2 DEF Export, folder, copies, config, history
  <2>3. cursor'[d].streams = cursor[d].streams /\ \A e \in Device : e # d => cursor'[e] = cursor[e]
    BY <1>0, <2>1 DEF Cursor
  <2>4. SameNext(d) BY <2>3 DEF SameNext
  <2>5. r.pc = "upload" /\ r.file = run[d].file BY <1>0 DEF Runs
  <2> HIDE DEF r
  <2>6. HeldTypes' BY <1>0, <2>2 DEF HeldTypes
  <2>7. QED BY <2>2, <2>3, <2>4, <2>5, <2>6, RunOnly
<1>3. CASE Confirm(d)
  <2> DEFINE r == [run[d] EXCEPT !.pc = "publish", !.sent = run[d].sent + 1]
  <2>1. PICK base, resume : cursor' = [cursor EXCEPT ![d] =
            [cursor[d] EXCEPT !.pending = NoSegment, !.base = base, !.resume = resume]]
    BY <1>3 DEF Confirm
  <2>2. /\ run[d].pc = "verify" /\ Goes(d, r)
        /\ UNCHANGED <<remote, held, blobs, active, known, reopened>>
    BY <1>3 DEF Confirm, folder, config, history
  <2>3. cursor'[d].streams = cursor[d].streams /\ \A e \in Device : e # d => cursor'[e] = cursor[e]
    BY <1>0, <2>1 DEF Cursor
  <2>4. SameNext(d) BY <2>3 DEF SameNext
  <2>5. r.pc = "publish" /\ r.file = run[d].file BY <1>0 DEF Runs
  <2> HIDE DEF r
  <2>6. HeldTypes' BY <1>0, <2>2 DEF HeldTypes
  <2>7. QED BY <2>2, <2>3, <2>4, <2>5, <2>6, RunOnly
<1>4. CASE \E s \in run[d].seen : Stall(d, s)
  <2> DEFINE r == [run[d] EXCEPT !.got = TRUE]
  <2>0. PICK s \in run[d].seen : Stall(d, s) BY <1>4
  <2> DEFINE k == StreamOf(s)
             m == [cursor[d].streams[k] EXCEPT !.blocked = TRUE]
             streams == [cursor[d].streams EXCEPT ![k] = m]
  <2>1. /\ run[d].pc = "receive" /\ Goes(d, r)
        /\ cursor' = [cursor EXCEPT ![d] = [cursor[d] EXCEPT !.streams = streams]]
        /\ UNCHANGED <<remote, held, blobs, active, known, reopened>>
    BY <2>0 DEF Stall, folder, copies, config, history
  <2>2. cursor[d].streams \in [Key -> Stream] BY <1>0 DEF Cursor
  <2>3. \A l \in Key : streams[l].next = cursor[d].streams[l].next BY <2>2 DEF Stream
  <2> HIDE DEF streams, m
  <2>4. cursor'[d].streams = streams /\ \A e \in Device : e # d => cursor'[e] = cursor[e]
    BY <1>0, <2>1 DEF Cursor
  <2>5. SameNext(d) BY <2>3, <2>4 DEF SameNext
  <2>6. r.pc = "receive" /\ r.file = run[d].file BY <1>0, <2>1 DEF Runs
  <2> HIDE DEF r
  <2>7. HeldTypes' BY <1>0, <2>1 DEF HeldTypes
  <2>8. QED BY <2>1, <2>4, <2>5, <2>6, <2>7, RunOnly
<1>5. ASSUME NEW r, Goes(d, r), UNCHANGED <<remote, copies, config, cursor, reopened>>,
             r.pc # "record", r.pc # "idle" => run[d].pc # "idle" /\ r.file = run[d].file
      PROVE  HeldInv'
  <2>1. HeldTypes' BY <1>0, <1>5 DEF HeldTypes, copies, config
  <2>2. QED BY <1>5, <1>same, <2>1, RunOnly DEF copies, config
<1>6. CASE Resend(d) \/ EndPublish(d) \/ Stop(d)
  <2>1. PICK r \in {[run[d] EXCEPT !.pc = "upload"],
                    [run[d] EXCEPT !.pc = "list", !.drained = MaySend(d)], Idle} : Goes(d, r)
    BY <1>6 DEF Resend, EndPublish, Stop
  <2>2. r.pc # "record" /\ (r.pc # "idle" => r.file = run[d].file)
    BY <1>0, <2>1, IdleRun DEF Runs
  <2>3. run[d].pc # "idle" /\ UNCHANGED <<remote, copies, config, cursor, reopened>>
    BY <1>6 DEF Resend, EndPublish, Stop, folder, history
  <2>4. QED BY <1>5, <2>1, <2>2, <2>3
<1>7. CASE \E e \in Device : List(d, e)
  <2>1. PICK e \in Device : List(d, e) BY <1>7
  <2> DEFINE q == [run[d] EXCEPT !.listed = run[d].listed \cup {e},
                                 !.seen = run[d].seen \cup {s \in remote : s.dev = e}]
             r == IF q.listed = Others(d) THEN [q EXCEPT !.pc = "receive"] ELSE q
  <2>2. /\ run[d].pc = "list" /\ Goes(d, r) /\ UNCHANGED <<remote, copies, config, cursor, reopened>>
    BY <2>1 DEF List, folder, history
  <2>3. r.pc \in {"list", "receive"} /\ r.file = run[d].file BY <1>0, <2>2 DEF Runs
  <2> HIDE DEF r
  <2>4. QED BY <1>5, <2>2, <2>3
<1>8. CASE EndReceive(d) \/ Cancel(d)
  <2> DEFINE r == [run[d] EXCEPT !.pc = "closing", !.seen = {}, !.listed = {}]
  <2>1. /\ run[d].pc = "receive" /\ Goes(d, r)
        /\ UNCHANGED <<remote, held, blobs, active, known, cursor, reopened>>
    BY <1>8 DEF EndReceive, Cancel, Disclose, folder, config, history
  <2>2. r.pc = "closing" /\ r.file = run[d].file BY <1>0 DEF Runs
  <2> HIDE DEF r
  <2>3. HeldTypes' BY <1>0, <2>1 DEF HeldTypes
  <2>4. QED BY <1>same, <2>1, <2>2, <2>3, RunOnly
<1>9. QED BY <1>1, <1>2, <1>3, <1>4, <1>6, <1>7, <1>8

LEMMA OutsideHeld ==
    ASSUME IInv, HeldInv, NEW d \in Device,
           \/ Edit(d) \/ Sync(d) \/ LoseCursor(d) \/ Reanchor(d)
           \/ \E f \in File : Switch(d, f)
    PROVE  HeldInv'
<1>0. /\ cursor \in [Device -> Cursor] /\ run \in [Device -> Runs] /\ HeldTypes
      /\ DeviceOk(d) /\ held \in [Copy -> SUBSET Commit]
      /\ active \in [Device -> File \cup {NoFile}] /\ HeldOk(d)
  BY DEF IInv, Types, HeldInv
<1>one. 1 \in File /\ NoFile # 1 BY SegmentSyncAssumption DEF File, NoFile
<1>same. cursor' = cursor => SameNext(d) BY DEF SameNext
<1>1. CASE Edit(d)
  <2> DEFINE p == <<d, active[d]>>
             more == held[p] \cup {born + 1}
             extra == blobs[p] \cup ({born + 1} \cap Heavy)
  <2>1. /\ run[d].pc = "idle" /\ active[d] # NoFile /\ MoreEvents
        /\ held' = [held EXCEPT ![p] = more] /\ blobs' = [blobs EXCEPT ![p] = extra]
        /\ UNCHANGED <<remote, active, known, cursor, run, reopened>>
    BY <1>1 DEF Edit, folder, config
  <2>2. p \in Copy /\ p[1] = d /\ born + 1 \in Commit BY <1>0, <2>1, MoreIsFewer DEF Copy
  <2>3. more \subseteq Commit /\ extra \subseteq Commit BY <1>0, <2>2 DEF HeldTypes
  <2>4. held[p] \subseteq more /\ blobs[p] \subseteq extra OBVIOUS
  <2> HIDE DEF more, extra, p
  <2>5. /\ HeldTypes' /\ \A q \in Copy : q[1] # d => held'[q] = held[q] /\ blobs'[q] = blobs[q]
        /\ \A q \in Copy : held[q] \subseteq held'[q] /\ blobs[q] \subseteq blobs'[q]
    BY <1>0, <2>1, <2>2, <2>3, <2>4 DEF HeldTypes
  <2>6. d \notin reopened => OneCopy(d)' BY <1>0, <2>1 DEF HeldOk, OneCopy
  <2>7. HeldOk(d)' BY <1>same, <2>1, <2>5, <2>6, HeldKept
  <2>8. QED BY <2>1, <2>5, <2>7, OthersHeld
<1>2. CASE Sync(d)
  <2> DEFINE r == [Idle EXCEPT !.pc = "blobs", !.file = active[d]]
  <2>1. /\ run[d].pc = "idle" /\ active[d] # NoFile /\ run' = [run EXCEPT ![d] = r]
        /\ UNCHANGED <<remote, held, blobs, active, known, cursor, reopened>>
    BY <1>2 DEF Sync, MayStart, folder, copies, config, history
  <2>2. r.pc = "blobs" /\ r.file = active[d] BY DEF Idle
  <2> HIDE DEF r
  <2>3. run'[d] = r /\ \A e \in Device : e # d => run'[e] = run[e] BY <1>0, <2>1
  <2>4. d \notin reopened => OneCopy(d)' BY <1>0, <2>1, <2>2, <2>3 DEF HeldOk, OneCopy
  <2>5. HeldOk(d)' BY <1>same, <2>1, <2>2, <2>3, <2>4, HeldKept
  <2>6. HeldTypes' BY <1>0, <2>1 DEF HeldTypes
  <2>7. QED BY <2>1, <2>3, <2>5, <2>6, OthersHeld
<1>3. CASE LoseCursor(d)
  <2>1. /\ run[d].pc = "idle" /\ cursor' = [cursor EXCEPT ![d] = NoCursor]
        /\ UNCHANGED <<remote, held, blobs, active, known, run, reopened>>
    BY <1>3 DEF LoseCursor, folder, config, history
  <2>2. cursor'[d] = NoCursor /\ \A e \in Device : e # d => cursor'[e] = cursor[e] BY <1>0, <2>1
  <2>3. NothingNext(d) BY <2>2 DEF NothingNext, NoCursor
  <2>4. d \notin reopened => OneCopy(d)' BY <1>0, <2>1 DEF HeldOk, OneCopy
  <2>5. HeldOk(d)' BY <2>1, <2>3, <2>4, HeldKept
  <2>6. HeldTypes' BY <1>0, <2>1 DEF HeldTypes
  <2>7. QED BY <2>1, <2>2, <2>5, <2>6, OthersHeld
<1>4. CASE Reanchor(d)
  <2>1. PICK c \in {cursor[d], [cursor[d] EXCEPT !.base = held[At(d)], !.resume = NoResume]} :
           cursor' = [cursor EXCEPT ![d] = c]
    BY <1>4 DEF Reanchor
  <2>2. c.streams = cursor[d].streams BY <1>0 DEF Cursor
  <2>3. /\ run[d].pc = "closing" /\ Goes(d, Idle)
        /\ active' = [active EXCEPT ![d] = run[d].file]
        /\ known' = [known EXCEPT ![d] = known[d] \cup {run[d].file}]
        /\ UNCHANGED <<remote, held, blobs, reopened>>
    BY <1>4 DEF Reanchor, folder, history
  <2>4. /\ cursor'[d] = c /\ run'[d] = Idle /\ active'[d] = run[d].file
        /\ known'[d] = known[d] \cup {run[d].file}
        /\ \A e \in Device : e # d => /\ cursor'[e] = cursor[e] /\ run'[e] = run[e]
                                      /\ active'[e] = active[e] /\ known'[e] = known[e]
    BY <1>0, <2>1, <2>3 DEF Goes, HeldTypes
  <2>5. SameNext(d) BY <2>2, <2>4 DEF SameNext
  <2>6. HeldTypes' BY <1>0, <2>3 DEF HeldTypes, DeviceOk
  <2>7. d \notin reopened => OneCopy(d)'
    BY <1>0, <1>one, <2>3, <2>4, IdleRun DEF HeldOk, OneCopy
  <2>8. HeldOk(d)' BY <2>3, <2>4, <2>5, <2>7, IdleRun, HeldKept
  <2>9. QED BY <2>3, <2>4, <2>6, <2>8, OthersHeld
<1>5. CASE \E f \in File : Switch(d, f)
  <2>1. PICK f \in File : Switch(d, f) BY <1>5
  <2>2. /\ run[d].pc = "idle" /\ f \in known[d] /\ f # active[d]
        /\ active' = [active EXCEPT ![d] = f]
        /\ UNCHANGED <<remote, held, blobs, known, cursor, run, reopened>>
    BY <2>1 DEF Switch, folder, copies, history
  <2>3. d \in reopened BY <1>0, <2>2 DEF HeldOk, OneCopy
  <2>4. HeldOk(d)' BY <1>same, <2>2, <2>3, HeldKept
  <2>5. HeldTypes' BY <1>0, <2>2 DEF HeldTypes
  <2>6. \A e \in Device : e # d => active'[e] = active[e] BY <1>0, <2>2
  <2>7. QED BY <2>2, <2>4, <2>5, <2>6, OthersHeld
<1>6. QED BY <1>1, <1>2, <1>3, <1>4, <1>5

(* A device that has no copy takes its first; any other opens it again.       *)
LEMMA OpenHeld == ASSUME IInv, HeldInv, NEW d \in Device, Open(d) PROVE HeldInv'
<1> DEFINE f == Cardinality(known[d]) + 1
           p == <<d, f>>
           r == [Idle EXCEPT !.pc = "blobs", !.file = f, !.boot = TRUE]
<1>0. /\ cursor \in [Device -> Cursor] /\ run \in [Device -> Runs] /\ HeldTypes
      /\ held \in [Copy -> SUBSET Commit] /\ HeldOk(d)
  BY DEF IInv, Types, HeldInv
<1>1. /\ f \in File /\ held' = [held EXCEPT ![p] = {Boot}] /\ blobs' = [blobs EXCEPT ![p] = {}]
      /\ cursor' = [cursor EXCEPT ![d] = FreshCursor(d)] /\ run' = [run EXCEPT ![d] = r]
      /\ reopened' = IF active[d] = NoFile THEN reopened ELSE reopened \cup {d}
      /\ UNCHANGED <<remote, active, known>>
  BY DEF Open, folder, config
<1>2. known[d] = {} => f = 1 BY FS_EmptySet
<1>3. r.pc = "blobs" /\ r.file = f BY DEF Idle
<1>4. p \in Copy /\ p[1] = d BY <1>1 DEF Copy
<1> HIDE DEF f, p, r
<1>5. /\ run'[d] = r /\ cursor'[d] = FreshCursor(d)
      /\ \A e \in Device : e # d => run'[e] = run[e] /\ cursor'[e] = cursor[e]
  BY <1>0, <1>1
<1>6. /\ \A q \in Copy : q[1] # d => held'[q] = held[q] /\ blobs'[q] = blobs[q]
      /\ HeldTypes'
  BY <1>0, <1>1, <1>4 DEF HeldTypes
<1>7. NothingNext(d) BY <1>5 DEF NothingNext, FreshCursor, NoCursor
<1>8. \A s \in remote : s.seq \in Nat /\ StreamOf(s) \in Key
  BY DEF IInv, Types, Segment, StreamOf, Key
<1>9. HeldOk(d)'
  <2>1. Filled(d)' BY <1>7 DEF NothingNext, Filled
  <2>2. Got(d)' BY <1>1, <1>7, <1>8 DEF NothingNext, Got
  <2>3. Reading(d)' BY <1>3, <1>5 DEF Reading
  <2>4. d \notin reopened' => OneCopy(d)' BY <1>0, <1>1, <1>2, <1>3, <1>5 DEF HeldOk, OneCopy
  <2>5. QED BY <2>1, <2>2, <2>3, <2>4 DEF HeldOk
<1>10. QED BY <1>1, <1>5, <1>6, <1>9, OthersHeld

(* A segment that arrives in the tree is not one that a cursor has passed:    *)
(* what it passed is there under that name, and the name is taken.            *)
LEMMA PutHeld ==
    ASSUME IInv, NamesInv, NamesInv', HeldInv, NEW d \in Device, Put(d)
    PROVE  HeldInv'
<1> DEFINE s == cursor[d].pending
<1>1. /\ run[d].pc = "upload" /\ remote' = remote \cup {s}
      /\ run' = [run EXCEPT ![d] = [run[d] EXCEPT !.pc = "verify"]]
      /\ UNCHANGED <<held, blobs, active, known, cursor, reopened>>
  BY DEF Put, Goes, copies, config, history
<1>2. s \in Segment /\ StreamOf(s) \in Key /\ s.seq \in Nat
  BY <1>1 DEF IInv, Types, DeviceOk, Segment, StreamOf, Key
<1> HIDE DEF s
<1>3. \A t \in remote : StreamOf(t) = StreamOf(s) /\ t.seq = s.seq => t = s
  BY <1>1 DEF NamesInv
<1>4. /\ run'[d].pc = "verify" /\ run'[d].file = run[d].file
      /\ \A e \in Device : e # d => run'[e] = run[e]
  BY <1>1 DEF IInv, Types, Runs
<1>5. ASSUME NEW e \in Device PROVE HeldOk(e)'
  <2>0. HeldOk(e) BY DEF HeldInv
  <2>1. Filled(e)' BY <1>1, <2>0 DEF HeldOk, Filled
  <2>2. ASSUME e \notin reopened PROVE Got(e)'
    <3>1. s.seq < cursor[e].streams[StreamOf(s)].next => s \in remote
      BY <1>2, <1>3, <2>0 DEF HeldOk, Filled
    <3>2. QED BY <1>1, <2>0, <2>2, <3>1 DEF HeldOk, Got
  <2>3. Reading(e)' BY <1>1, <1>4, <2>0 DEF HeldOk, Reading, At
  <2>4. e \notin reopened => OneCopy(e)' BY <1>1, <1>4, <2>0 DEF HeldOk, OneCopy
  <2>5. QED BY <1>1, <2>1, <2>2, <2>3, <2>4 DEF HeldOk
<1>6. HeldTypes' BY <1>1 DEF HeldInv, HeldTypes
<1>7. QED BY <1>5, <1>6 DEF HeldInv

LEMMA ApplyHeld ==
    ASSUME IInv, HeldInv, NEW d \in Device, NEW s \in run[d].seen, Apply(d, s)
    PROVE  HeldInv'
<1> DEFINE p == At(d)
           more == held[p] \cup (s.commits \ held[p])
<1>0. /\ run[d] \in Runs /\ HeldTypes /\ DeviceOk(d) /\ HeldOk(d)
      /\ held \in [Copy -> SUBSET Commit] /\ run \in [Device -> Runs]
  BY DEF IInv, Types, HeldInv
<1>1. PICK level, conflict :
          run' = [run EXCEPT ![d] =
                    [run[d] EXCEPT !.pc = "record", !.got = TRUE, !.segment = s,
                                   !.level = level, !.conflict = conflict]]
  BY DEF Apply, Goes
<1>2. /\ run[d].pc = "receive" /\ held' = [held EXCEPT ![p] = more]
      /\ s.seq = cursor[d].streams[StreamOf(s)].next
      /\ UNCHANGED <<remote, blobs, active, known, cursor, reopened>>
  BY DEF Apply, IsNext, folder, config, history
<1>3. /\ run'[d].pc = "record" /\ run'[d].segment = s /\ run'[d].file = run[d].file
      /\ \A e \in Device : e # d => run'[e] = run[e]
  BY <1>0, <1>1 DEF Runs
<1>4. p \in Copy /\ p[1] = d /\ At(d)' = p BY <1>0, <1>2, <1>3 DEF DeviceOk, At, Copy
<1>5. held[p] \subseteq more /\ s.commits \subseteq more OBVIOUS
<1> HIDE DEF p, more
<1>6. held'[p] = more /\ \A q \in Copy : q # p => held'[q] = held[q] BY <1>0, <1>2, <1>4
<1>7. HeldTypes' BY <1>0, <1>2 DEF HeldTypes
<1>8. HeldOk(d)'
  <2>1. Reading(d)' BY <1>2, <1>3, <1>4, <1>5, <1>6 DEF Reading
  <2>2. Filled(d)' BY <1>0, <1>2 DEF HeldOk, Filled
  <2>3. ASSUME d \notin reopened PROVE OneCopy(d)' /\ Got(d)'
    <3>0. 1 \in File /\ <<d, 1>> \in Copy BY SegmentSyncAssumption DEF File, Copy
    <3>1. held[<<d, 1>>] \subseteq held'[<<d, 1>>] BY <1>5, <1>6, <3>0
    <3>2. Got(d)' BY <1>0, <1>2, <2>3, <3>1 DEF HeldOk, Got
    <3>3. QED BY <1>0, <1>2, <1>3, <2>3, <3>2 DEF HeldOk, OneCopy
  <2>4. QED BY <1>2, <2>1, <2>2, <2>3 DEF HeldOk
<1>9. QED BY <1>2, <1>3, <1>4, <1>6, <1>7, <1>8, OthersHeld

LEMMA RecordHeld ==
    ASSUME IInv, NamesInv, HeldInv, NEW d \in Device, Record(d)
    PROVE  HeldInv'
<1> DEFINE s == run[d].segment
           p == At(d)
           k == StreamOf(s)
           more == blobs[p] \cup Needs(d)
           streams == [cursor[d].streams EXCEPT ![k] = Received(d, s)]
<1>0. /\ run[d] \in Runs /\ HeldTypes /\ DeviceOk(d) /\ HeldOk(d)
      /\ held \in [Copy -> SUBSET Commit] /\ run \in [Device -> Runs]
      /\ cursor \in [Device -> Cursor] /\ remote \subseteq Segment
  BY DEF IInv, Types, HeldInv
<1>1. PICK base, resume : cursor' = [cursor EXCEPT ![d] =
          [cursor[d] EXCEPT !.streams = streams, !.base = base, !.resume = resume]]
  BY DEF Record
<1>2. /\ run[d].pc = "record" /\ blobs' = [blobs EXCEPT ![p] = more]
      /\ run' = [run EXCEPT ![d] = [run[d] EXCEPT !.pc = "receive", !.segment = NoSegment,
                                                  !.level = FALSE]]
      /\ UNCHANGED <<remote, held, active, known, reopened>>
  BY DEF Record, Goes, folder, config, history
<1>3. /\ s \in remote /\ s \in Segment /\ k \in Key /\ s.seq \in Nat /\ p \in Copy /\ p[1] = d
  BY <1>0, <1>2 DEF DeviceOk, Segment, StreamOf, Key, At, Copy
<1>4. s.seq = cursor[d].streams[k].next /\ s.commits \subseteq held[p]
  BY <1>0, <1>2 DEF HeldOk, Reading
<1>5. /\ streams[k].next = s.seq + 1
      /\ \A l \in Key : l # k => streams[l] = cursor[d].streams[l]
  BY <1>0, <1>3 DEF Cursor, Received
<1>6. /\ more \subseteq Commit /\ blobs[p] \subseteq more /\ s.commits \cap Heavy \subseteq more
  BY <1>0, <1>3, <1>4 DEF Needs, HeldTypes
<1> HIDE DEF streams, more, s, k
<1>7. /\ cursor'[d].streams = streams /\ \A e \in Device : e # d => cursor'[e] = cursor[e]
  BY <1>0, <1>1 DEF Cursor
<1>8. /\ run'[d].pc = "receive" /\ run'[d].file = run[d].file
      /\ \A e \in Device : e # d => run'[e] = run[e]
  BY <1>0, <1>2 DEF Runs
<1>9. /\ HeldTypes' /\ blobs'[p] = more /\ \A q \in Copy : q # p => blobs'[q] = blobs[q]
  BY <1>0, <1>2, <1>3, <1>6 DEF HeldTypes
<1>10. \A t \in remote : t.seq \in Nat /\ StreamOf(t) \in Key
  BY <1>0 DEF Segment, StreamOf, Key
<1>11. HeldOk(d)'
  <2>1. Reading(d)' BY <1>8 DEF Reading
  <2>2. ASSUME NEW l \in Key, NEW n \in Nat, n < streams[l].next
        PROVE  \E t \in remote : StreamOf(t) = l /\ t.seq = n
    <3>1. CASE l = k /\ n = s.seq BY <1>3, <3>1 DEF k
    <3>2. CASE ~ (l = k /\ n = s.seq)
      <4>1. n < cursor[d].streams[l].next BY <1>3, <1>4, <1>5, <2>2, <3>2
      <4>2. QED BY <1>0, <4>1 DEF HeldOk, Filled
    <3>3. QED BY <3>1, <3>2
  <2>3. Filled(d)' BY <1>2, <1>7, <2>2 DEF Filled
  <2>4. ASSUME d \notin reopened PROVE OneCopy(d)' /\ Got(d)'
    <3>1. OneCopy(d)' BY <1>0, <1>2, <1>8, <2>4 DEF HeldOk, OneCopy
    <3>2. p = <<d, 1>> BY <1>0, <1>2, <2>4 DEF HeldOk, OneCopy, p, At
    <3>3. ASSUME NEW t \in remote, t.seq < streams[StreamOf(t)].next
          PROVE  t.commits \subseteq held[p] /\ t.commits \cap Heavy \subseteq more
      <4>1. CASE t = s BY <1>4, <1>6, <4>1
      <4>2. CASE t # s
        <5>1. ~ (StreamOf(t) = k /\ t.seq = s.seq) BY <1>3, <4>2 DEF NamesInv, k
        <5>2. t.seq < cursor[d].streams[StreamOf(t)].next
          BY <1>3, <1>4, <1>5, <1>10, <3>3, <5>1
        <5>3. QED BY <1>0, <1>6, <2>4, <3>2, <5>2 DEF HeldOk, Got
      <4>3. QED BY <4>1, <4>2
    <3>4. Got(d)' BY <1>2, <1>7, <1>9, <3>2, <3>3 DEF Got
    <3>5. QED BY <3>1, <3>4
  <2>5. QED BY <1>2, <2>1, <2>3, <2>4 DEF HeldOk
<1>12. QED BY <1>2, <1>3, <1>7, <1>8, <1>9, <1>11, OthersHeld

LEMMA InitHeld == Init => HeldInv
<1> SUFFICES ASSUME Init PROVE HeldInv
  OBVIOUS
<1>1. 1 \in File /\ NoFile # 1 BY SegmentSyncAssumption DEF File, NoFile
<1>2. HeldTypes BY <1>1 DEF Init, HeldTypes
<1>3. ASSUME NEW d \in Device PROVE HeldOk(d)
  <2>1. /\ cursor[d] = NoCursor /\ run[d] = Idle /\ remote = {}
        /\ active[d] = IF d = Origin THEN 1 ELSE NoFile
        /\ known[d] = IF d = Origin THEN {1} ELSE {}
    BY DEF Init
  <2>2. Filled(d) BY <2>1 DEF Filled, NoCursor
  <2>3. Reading(d) BY <2>1, IdleRun DEF Reading
  <2>4. OneCopy(d) BY <1>1, <2>1, IdleRun DEF OneCopy
  <2>5. Got(d) BY <2>1 DEF Got
  <2>6. QED BY <2>2, <2>3, <2>4, <2>5 DEF HeldOk
<1>4. QED BY <1>2, <1>3 DEF HeldInv

LEMMA StepHeld == ASSUME IInv, NamesInv, HeldInv, [Next]_vars PROVE HeldInv'
<1>1. CASE UNCHANGED vars
  <2> USE <1>1 DEF vars, folder, copies, config, history
  <2>1. HeldTypes' BY DEF HeldInv, HeldTypes
  <2>2. \A d \in Device : HeldOk(d)'
    BY DEF HeldInv, HeldOk, Reading, Filled, OneCopy, Got, At
  <2>3. QED BY <2>1, <2>2 DEF HeldInv
<1>2. CASE Next
  <2>1. PICK d \in Device :
            \/ Edit(d) \/ Sync(d) \/ Open(d) \/ LoseCursor(d)
            \/ \E f \in File : Switch(d, f)
            \/ RunStep(d) \/ Cancel(d) \/ Stop(d)
    BY <1>2 DEF Next
  <2>2. CASE Put(d)
    <3>1. NamesInv' BY <2>2, PutNames
    <3>2. QED BY <2>2, <3>1, PutHeld
  <2>3. CASE \E s \in run[d].seen : Apply(d, s) BY <2>3, ApplyHeld
  <2>4. CASE \/ Edit(d) \/ Sync(d) \/ LoseCursor(d) \/ Reanchor(d) \/ Open(d) \/ Record(d)
             \/ \E f \in File : Switch(d, f)
    BY <2>4, OutsideHeld, OpenHeld, RecordHeld
  <2>5. CASE \/ Settle(d) \/ Export(d) \/ Resend(d) \/ Confirm(d) \/ EndPublish(d)
             \/ (\E e \in Device : List(d, e)) \/ (\E s \in run[d].seen : Stall(d, s))
             \/ EndReceive(d) \/ Cancel(d) \/ Stop(d)
    BY <2>5, RunOnlySteps
  <2>6. QED BY <2>1, <2>2, <2>3, <2>4, <2>5 DEF RunStep
<1>3. QED BY <1>1, <1>2

(* A cursor is never ahead of the copy it is used with, whichever step a run  *)
(* was cut short at, on a device that opened the vault once: the vault takes  *)
(* a segment before the cursor does, attachments included (segment.rs:869).   *)
THEOREM CursorIsNeverAhead == Spec => []ReceivedIsHeld
<1>1. HeldInv /\ IInv => ReceivedIsHeld BY HeldInvIsEnough
<1>2. IInv /\ [Next]_vars => IInv' BY StepIInv
<1>3. IInv /\ NamesInv /\ [Next]_vars => NamesInv' BY StepNames
<1>4. IInv /\ NamesInv /\ HeldInv /\ [Next]_vars => HeldInv' BY StepHeld
<1>5. QED BY InitIInv, InitNames, InitHeld, <1>1, <1>2, <1>3, <1>4, PTL DEF Spec
=============================================================================
