---------------------------- MODULE SegmentSync ----------------------------
(* src/segment.rs, with the part of src/sync.rs that opens a remote vault and *)
(* src/blobs.rs: devices that share one vault over a WebDAV folder.  Nobody   *)
(* replaces a file: each device appends immutable segments to its own stream  *)
(* and applies the streams of the others.  What a device already handed over  *)
(* and what it already applied is in its transport cursor, a file that is     *)
(* written after the fact, so a run that stops halfway leaves a cursor that   *)
(* is behind the vault or behind the remote tree.                             *)
EXTENDS Naturals, FiniteSets

CONSTANTS
    Device,
    Origin,       \* the device that published the bootstrap
    Heavy,        \* commits that refer to an attachment
    PageSize,     \* commits per segment: SEGMENT_PAGE_SIZE
    MaxSegments,  \* segments one run uploads: MAX_SEGMENTS_PER_SYNC
    MaxFiles,     \* bound of the model: copies of the vault a device opens
    MaxRuns,      \* bound of the model: runs in progress at a time
    MaxExports,   \* bound of the model: segments a device exports
    MaxEvents     \* bound of the model: edits, faults and devices that open
                  \* the vault a second time, taken together

Boot == 1         \* the commit that the bootstrap holds
Commit == 1..(MaxEvents + 1)
Id == 1..MaxExports
File == 1..MaxFiles
NoFile == 0
Key == Device \X Id     \* a stream: <device>/<generation>

ASSUME SegmentSyncAssumption ==
    /\ Origin \in Device
    /\ \E d \in Device : d # Origin
    /\ IsFiniteSet(Device)
    /\ Heavy \subseteq Commit \ {Boot}
    /\ {PageSize, MaxSegments, MaxFiles, MaxRuns} \subseteq Nat \ {0}
    /\ {MaxExports, MaxEvents} \subseteq Nat

(* A segment is a page of what came after a checkpoint: commits, and rows     *)
(* that the engine derived for itself, which are no commits.  Its id stands   *)
(* for its digest, and the id of the first segment for the generation.        *)
Segment == [dev : Device, gen : Id, seq : Nat, id : Id, commits : SUBSET Commit,
            derived : BOOLEAN, last : BOOLEAN]
NoSegment == [dev |-> Origin, gen |-> 0, seq |-> 0, id |-> 0, commits |-> {},
              derived |-> FALSE, last |-> TRUE]
Resume == [gen : Id, next : Nat]
NoResume == [gen |-> 0, next |-> 0]
Stream == [next : Nat, blocked : BOOLEAN]

(* The cursor file.  Its export base is a checkpoint: the commits up to it    *)
(* are base, and whether rows were derived after it is kept in derived.  No   *)
(* file, or one of another vault, is the start of history, nothing received.  *)
Cursor == [base : SUBSET Commit, resume : Resume \cup {NoResume}, pending : Segment \cup {NoSegment},
           streams : [Key -> Stream]]
NoCursor == [base |-> {}, resume |-> NoResume, pending |-> NoSegment,
             streams |-> [k \in Key |-> [next |-> 0, blocked |-> FALSE]]]

Stages == {"idle", "blobs", "publish", "upload", "verify", "list", "receive", "record",
           "closing"}
Run == [pc : Stages, file : File \cup {NoFile}, boot : BOOLEAN, sent : 0..MaxSegments,
        drained : BOOLEAN, got : BOOLEAN, conflict : BOOLEAN, listed : SUBSET Device,
        seen : SUBSET Segment, segment : Segment \cup {NoSegment}, level : BOOLEAN]
Idle == [pc |-> "idle", file |-> NoFile, boot |-> FALSE, sent |-> 0, drained |-> FALSE,
         got |-> FALSE, conflict |-> FALSE, listed |-> {}, seen |-> {},
         segment |-> NoSegment, level |-> FALSE]

VARIABLES
    \* the remote folder
    remote,       \* the segments in the tree
    remoteBlobs,  \* the commits whose attachment is there
    \* files of a device
    held,         \* the commits in a copy of the vault
    derived,      \* whether derived rows came after the export base
    blobs,        \* the commits of a copy whose attachment is beside it
    active,       \* the copy that the configuration names
    known,        \* the copies a configuration named, now or before
    cursor,
    \* memory of a device, under its broker lock
    run,
    \* exports made so far, for a fresh UUID or digest is a new number here
    exports,
    \* history and bounds: commits made so far and what each was made on; the
    \* devices that opened the vault although they had a copy of it
    born, parents, reopened, faults

copies == <<held, derived, blobs>>
folder == <<remote, remoteBlobs>>
config == <<active, known>>
history == <<born, parents, reopened>>
vars == <<folder, copies, config, cursor, run, exports, history, faults>>

Copy == Device \X File
TypeOK ==
    /\ remote \subseteq Segment
    /\ remoteBlobs \subseteq Commit
    /\ held \in [Copy -> SUBSET Commit]
    /\ derived \in [Copy -> BOOLEAN]
    /\ blobs \in [Copy -> SUBSET Commit]
    /\ active \in [Device -> File \cup {NoFile}]
    /\ known \in [Device -> SUBSET File]
    /\ cursor \in [Device -> Cursor]
    /\ run \in [Device -> Run]
    /\ exports \in [Device -> 0..MaxExports]
    /\ born \in Commit
    /\ parents \in [Commit -> SUBSET Commit]
    /\ reopened \subseteq Device
    /\ faults \in 0..MaxEvents

Holding(d) == IF active[d] = NoFile THEN {} ELSE held[<<d, active[d]>>]
Others(d) == Device \ {d}
StreamOf(s) == <<s.dev, s.gen>>
Published == {Boot} \cup UNION {s.commits : s \in remote}

(* The origin made the vault and published the bootstrap, which no cursor     *)
(* knows of.                                                                  *)
Init ==
    /\ remote = {} /\ remoteBlobs = {}
    /\ held = [p \in Copy |-> IF p = <<Origin, 1>> THEN {Boot} ELSE {}]
    /\ derived = [p \in Copy |-> p = <<Origin, 1>>]
    /\ blobs = [p \in Copy |-> {}]
    /\ active = [d \in Device |-> IF d = Origin THEN 1 ELSE NoFile]
    /\ known = [d \in Device |-> IF d = Origin THEN {1} ELSE {}]
    /\ cursor = [d \in Device |-> NoCursor]
    /\ run = [d \in Device |-> Idle]
    /\ exports = [d \in Device |-> 0]
    /\ born = Boot /\ parents = [c \in Commit |-> {}]
    /\ reopened = {} /\ faults = 0

MoreEvents == (born - Boot) + faults + Cardinality(reopened) < MaxEvents
-----------------------------------------------------------------------------
(* What happens outside a run.                                                *)

(* An edit: a commit on top of everything the copy holds.  The broker lock    *)
(* keeps it out of a run of the same device.                                  *)
Edit(d) ==
    LET p == <<d, active[d]>>  c == born + 1 IN
    /\ run[d].pc = "idle" /\ active[d] # NoFile /\ MoreEvents
    /\ held' = [held EXCEPT ![p] = @ \cup {c}]
    /\ blobs' = [blobs EXCEPT ![p] = @ \cup ({c} \cap Heavy)]
    /\ born' = c
    /\ parents' = [parents EXCEPT ![c] = Holding(d)]
    /\ UNCHANGED <<folder, derived, config, cursor, run, exports, reopened, faults>>

(* databases::switch: back to a copy that an earlier configuration named.     *)
Switch(d, f) ==
    /\ run[d].pc = "idle" /\ f \in known[d] /\ f # active[d] /\ MoreEvents
    /\ active' = [active EXCEPT ![d] = f]
    /\ faults' = faults + 1
    /\ UNCHANGED <<folder, copies, known, cursor, run, exports, history>>

(* A cursor describes one copy: for another copy there are always rows that   *)
(* came after it.                                                             *)
Anchored(d, p) == [q \in Copy |-> IF q[1] = d THEN q # p ELSE derived[q]]

(* Without a cursor the next run starts from the beginning of history.        *)
LoseCursor(d) ==
    /\ run[d].pc = "idle" /\ active[d] # NoFile /\ cursor[d] # NoCursor
    /\ MoreEvents
    /\ cursor' = [cursor EXCEPT ![d] = NoCursor]
    /\ derived' = [q \in Copy |-> q[1] = d \/ derived[q]]
    /\ faults' = faults + 1
    /\ UNCHANGED <<folder, held, blobs, config, run, exports, history>>

MayStart(d) ==
    run[d].pc = "idle" /\ Cardinality({e \in Device : run[e].pc # "idle"}) < MaxRuns

(* segment::synchronize.                                                      *)
Sync(d) ==
    /\ MayStart(d) /\ active[d] # NoFile
    /\ run' = [run EXCEPT ![d] = [Idle EXCEPT !.pc = "blobs", !.file = active[d]]]
    /\ UNCHANGED <<folder, copies, config, cursor, exports, history, faults>>

OldCursor(d) == cursor[d]

(* segment::bootstrap: the cursor for a copy that was just installed.         *)
FreshCursor(d) == [NoCursor EXCEPT !.base = {Boot}]

(* sync::open_remote: the bootstrap is downloaded and installed as a copy of  *)
(* its own, and segment::bootstrap writes a cursor for it at once, anchored   *)
(* at its end.  A copy that was never configured is not used again.           *)
Open(d) ==
    LET f == Cardinality(known[d]) + 1  p == <<d, f>> IN
    /\ MayStart(d) /\ f \in File
    /\ active[d] = NoFile \/ d \in reopened \/ MoreEvents
    /\ reopened' = IF active[d] = NoFile THEN reopened ELSE reopened \cup {d}
    /\ held' = [held EXCEPT ![p] = {Boot}]
    /\ derived' = Anchored(d, p)
    /\ blobs' = [blobs EXCEPT ![p] = {}]
    /\ cursor' = [cursor EXCEPT ![d] = FreshCursor(d)]
    /\ run' = [run EXCEPT ![d] = [Idle EXCEPT !.pc = "blobs", !.file = f, !.boot = TRUE]]
    /\ UNCHANGED <<folder, config, exports, born, parents, faults>>

-----------------------------------------------------------------------------
(* settle: attachments first, then publish, then receive.                     *)

At(d) == <<d, run[d].file>>
Goes(d, r) == run' = [run EXCEPT ![d] = r]
Needs(d) == Heavy \cap held[At(d)]


(* blobs::publish offers every attachment that the copy refers to.            *)
Offered(d) == Needs(d)

(* blobs::receive and blobs::publish: what is missing here is fetched, what   *)
(* is here is offered.  The run fails while an attachment is nowhere.         *)
Obtainable(d) == Needs(d) \subseteq blobs[At(d)] \cup remoteBlobs
Settle(d) ==
    /\ run[d].pc = "blobs" /\ Obtainable(d)
    /\ blobs' = [blobs EXCEPT ![At(d)] = @ \cup Needs(d)]
    /\ remoteBlobs' = remoteBlobs \cup Offered(d)
    /\ Goes(d, [run[d] EXCEPT !.pc = "publish"])
    /\ UNCHANGED <<remote, held, derived, config, cursor, exports, history, faults>>

Owed(d) == held[At(d)] \ cursor[d].base
Owes(d) == Owed(d) # {} \/ derived[At(d)]
(* PeerSyncService::export_incremental_segment: at most PageSize commits that *)
(* the copy owes, in an order that keeps a parent before its child; derived   *)
(* rows go with the last page.                                                *)
Pages(d) ==
    {page \in SUBSET Owed(d) :
        /\ Cardinality(page) <= PageSize
        /\ page = {} => Owed(d) = {}
        /\ \A c \in page : parents[c] \cap Owed(d) \subseteq page}
SegmentFor(d, page) ==
    LET fresh == cursor[d].resume = NoResume  id == exports[d] + 1  end == page = Owed(d)
    IN  [dev |-> d, id |-> id,
         gen |-> IF fresh THEN id ELSE cursor[d].resume.gen,
         seq |-> IF fresh THEN 0 ELSE cursor[d].resume.next,
         commits |-> page, derived |-> end /\ derived[At(d)], last |-> end]

MaySend(d) == run[d].sent < MaxSegments

AnyPending(d) == TRUE
NothingPending(d) == cursor[d].pending = NoSegment

(* The page goes to a file and into the cursor before it goes anywhere else.  *)
Export(d) ==
    /\ run[d].pc = "publish" /\ MaySend(d) /\ NothingPending(d)
    /\ Owes(d) /\ exports[d] < MaxExports
    /\ \E page \in Pages(d) :
          cursor' = [cursor EXCEPT ![d] = [@ EXCEPT !.pending = SegmentFor(d, page)]]
    /\ exports' = [exports EXCEPT ![d] = @ + 1]
    /\ Goes(d, [run[d] EXCEPT !.pc = "upload"])
    /\ UNCHANGED <<folder, copies, config, history, faults>>

(* What an earlier run left is sent again, byte for byte.                     *)
Resend(d) ==
    /\ run[d].pc = "publish" /\ MaySend(d) /\ ~ NothingPending(d)
    /\ Goes(d, [run[d] EXCEPT !.pc = "upload"])
    /\ UNCHANGED <<folder, copies, config, cursor, exports, history, faults>>

(* create_immutable: 201, or 412 because it is there already.                 *)
Put(d) ==
    /\ run[d].pc = "upload"
    /\ remote' = remote \cup {cursor[d].pending}
    /\ Goes(d, [run[d] EXCEPT !.pc = "verify"])
    /\ UNCHANGED <<remoteBlobs, copies, config, cursor, exports, history, faults>>

(* The download that proves the upload, and the cursor that says so.          *)
Confirm(d) ==
    LET c == cursor[d]  s == c.pending IN
    /\ run[d].pc = "verify" /\ s \in remote
    /\ cursor' = [cursor EXCEPT ![d] =
         [c EXCEPT !.pending = NoSegment, !.base = c.base \cup s.commits,
                   !.resume = IF s.last THEN NoResume
                              ELSE [gen |-> s.gen, next |-> s.seq + 1]]]
    /\ derived' = [derived EXCEPT ![At(d)] = @ /\ ~ s.derived]
    /\ Goes(d, [run[d] EXCEPT !.pc = "publish", !.sent = @ + 1])
    /\ UNCHANGED <<folder, held, blobs, config, exports, history, faults>>

(* publish ends: nothing is owed, or the run has sent all it may.             *)
EndPublish(d) ==
    /\ run[d].pc = "publish"
    /\ MaySend(d) => NothingPending(d) /\ ~ Owes(d)
    /\ Goes(d, [run[d] EXCEPT !.pc = "list", !.drained = MaySend(d)])
    /\ UNCHANGED <<folder, copies, config, cursor, exports, history, faults>>

(* list_streams walks the tree directory by directory while other devices go  *)
(* on appending to it.  Its own stream is measured, never applied.            *)
List(d, e) ==
    LET r == [run[d] EXCEPT !.listed = @ \cup {e},
                            !.seen = @ \cup {s \in remote : s.dev = e}] IN
    /\ run[d].pc = "list" /\ e \in Others(d) \ run[d].listed
    /\ Goes(d, IF r.listed = Others(d) THEN [r EXCEPT !.pc = "receive"] ELSE r)
    /\ UNCHANGED <<folder, copies, config, cursor, exports, history, faults>>

IsNext(d, s) == s \in run[d].seen /\ s.seq = cursor[d].streams[StreamOf(s)].next
Missing(d, s) == \E c \in s.commits : ~ parents[c] \subseteq held[At(d)] \cup s.commits
(* Two edits that did not know of each other may be a conflict.               *)
Concurrent(d, s) ==
    \E c \in s.commits, b \in held[At(d)] :
        c \notin parents[b] \cup {b} /\ b \notin parents[c]

(* apply_segment: commits that are there already are skipped.  What is new is *)
(* a change of this copy too, and the engine mirrors it in rows of its own.   *)
Apply(d, s) ==
    LET p == At(d)  new == s.commits \ held[p]  changes == new # {} \/ s.derived IN
    /\ run[d].pc = "receive" /\ IsNext(d, s) /\ ~ Missing(d, s)
    /\ held' = [held EXCEPT ![p] = @ \cup new]
    /\ derived' = [derived EXCEPT ![p] = @ \/ changes]
    /\ \E conflict \in IF new # {} /\ Concurrent(d, s) THEN BOOLEAN ELSE {FALSE} :
          Goes(d, [run[d] EXCEPT !.pc = "record", !.got = TRUE, !.segment = s,
                                 !.level = cursor[d].base = held[p] /\ ~ derived[p],
                                 !.conflict = @ \/ conflict])
    /\ UNCHANGED <<folder, blobs, config, cursor, exports, history, faults>>

StillBlocked(d, s) == [cursor[d].streams[StreamOf(s)] EXCEPT !.next = s.seq + 1]
Received(d, s) == [next |-> s.seq + 1, blocked |-> FALSE]

(* The attachments of what was applied are fetched, and only then the stream  *)
(* moves on.  An export base that stood at the end of the copy still does:    *)
(* what was applied is on the remote already.                                 *)
Record(d) ==
    LET c == cursor[d]  s == run[d].segment  p == At(d)  level == run[d].level IN
    /\ run[d].pc = "record" /\ Obtainable(d)
    /\ blobs' = [blobs EXCEPT ![p] = @ \cup Needs(d)]
    /\ derived' = IF level THEN Anchored(d, p) ELSE derived
    /\ cursor' = [cursor EXCEPT ![d] =
         [c EXCEPT !.streams = [c.streams EXCEPT ![StreamOf(s)] = Received(d, s)],
                   !.base = IF level THEN held[p] ELSE c.base,
                   !.resume = IF level THEN NoResume ELSE c.resume]]
    /\ Goes(d, [run[d] EXCEPT !.pc = "receive", !.segment = NoSegment, !.level = FALSE])
    /\ UNCHANGED <<folder, held, config, exports, history, faults>>

(* Another device's stream has to land first; the cursor says why it waits.   *)
Stall(d, s) ==
    LET c == cursor[d]  k == StreamOf(s)  m == c.streams[k] IN
    /\ run[d].pc = "receive" /\ IsNext(d, s) /\ Missing(d, s)
    /\ ~ (run[d].got /\ m.blocked)
    /\ cursor' = [cursor EXCEPT ![d] =
         [c EXCEPT !.streams = [c.streams EXCEPT ![k] = [m EXCEPT !.blocked = TRUE]]]]
    /\ Goes(d, [run[d] EXCEPT !.got = TRUE])
    /\ UNCHANGED <<folder, copies, config, exports, history, faults>>

(* gateway_inventory discloses every token, and each disclosure is on record  *)
(* in the copy.                                                               *)
Disclose(d) ==
    LET r == run[d] IN
    /\ derived' = [derived EXCEPT ![At(d)] = @ \/ r.got \/ r.conflict \/ r.boot]
    /\ Goes(d, [r EXCEPT !.pc = "closing", !.seen = {}, !.listed = {}])
    /\ UNCHANGED <<folder, held, blobs, config, cursor, exports, history>>

EndReceive(d) ==
    /\ run[d].pc = "receive"
    /\ \A s \in run[d].seen : IsNext(d, s) =>
          Missing(d, s) /\ cursor[d].streams[StreamOf(s)].blocked
    /\ Disclose(d) /\ UNCHANGED faults

(* The person asks it to stop between two segments.  A synchronisation ends   *)
(* like any other; an open is given up.                                       *)
Cancel(d) ==
    /\ run[d].pc = "receive" /\ ~ run[d].boot /\ MoreEvents
    /\ faults' = faults + 1
    /\ Disclose(d)

EvenUndrained(r) == ~ r.conflict
Jumps(r) == r.drained /\ ~ r.conflict

(* reanchor: after a run that left nothing unpublished, whatever is new was   *)
(* received or derived, and the export base jumps over it.  An opened copy    *)
(* becomes the configured one.                                                *)
Reanchor(d) ==
    LET r == run[d]  jumps == Jumps(r) IN
    /\ r.pc = "closing"
    /\ derived' = IF jumps THEN Anchored(d, At(d)) ELSE derived
    /\ cursor' = [cursor EXCEPT ![d] =
         IF jumps THEN [@ EXCEPT !.base = held[At(d)], !.resume = NoResume] ELSE @]
    /\ active' = [active EXCEPT ![d] = r.file]
    /\ known' = [known EXCEPT ![d] = @ \cup {r.file}]
    /\ Goes(d, Idle)
    /\ UNCHANGED <<folder, held, blobs, exports, history, faults>>

(* The run ends where it stands: an error, a kill, a cancelled request.       *)
Stop(d) ==
    /\ run[d].pc # "idle" /\ MoreEvents
    /\ faults' = faults + 1
    /\ Goes(d, Idle)
    /\ UNCHANGED <<folder, copies, config, cursor, exports, history>>

RunStep(d) ==
    \/ Settle(d)
    \/ Export(d) \/ Resend(d) \/ Put(d) \/ Confirm(d) \/ EndPublish(d)
    \/ \E e \in Device : List(d, e)
    \/ \E s \in run[d].seen : Apply(d, s) \/ Stall(d, s)
    \/ Record(d) \/ EndReceive(d) \/ Reanchor(d)

Next ==
    \E d \in Device :
        \/ Edit(d) \/ Sync(d) \/ Open(d) \/ LoseCursor(d)
        \/ \E f \in File : Switch(d, f)
        \/ RunStep(d) \/ Cancel(d) \/ Stop(d)

(* A person goes on calling for a synchronisation, and a device without the   *)
(* vault opens it; a run that is not stopped goes on.                         *)
Fairness ==
    \A d \in Device :
        /\ WF_vars(Sync(d))
        /\ WF_vars(active[d] = NoFile /\ Open(d))
        /\ WF_vars(RunStep(d))

Spec == Init /\ [][Next]_vars /\ Fairness
-----------------------------------------------------------------------------
(* What the streams promise.                                                  *)

(* The export base never jumps over work: a commit before it is in the        *)
(* bootstrap or in a segment on the remote, however the runs that moved the   *)
(* base ended (segment.rs:338 re-anchors after every run that drained).       *)
NothingJumped ==
    \A d \in Device : cursor[d].base \subseteq Published

(* What the cursor says was received is in the copy it is used with, and its  *)
(* attachments are beside it: a run that stopped between the two left the     *)
(* cursor behind, never ahead (segment.rs:869 writes it last).                *)
ReceivedIsHeld ==
    \A d \in Device \ reopened : run[d].pc = "idle" /\ active[d] # NoFile =>
        \A s \in remote : s.seq < cursor[d].streams[StreamOf(s)].next =>
            /\ s.commits \subseteq Holding(d)
            /\ s.commits \cap Heavy \subseteq blobs[<<d, active[d]>>]

(* The replay of an open brings the copy to what the streams hold: "the       *)
(* revisions that matter live in the .sync tree.  Replay them into the        *)
(* installed copy before the configuration starts using it" (sync.rs:399).    *)
HasReceivedAll(d) ==
    \A s \in remote : s.dev # d => s.seq < cursor[d].streams[StreamOf(s)].next
OpenedIsWhole ==
    \A d \in Device : run[d].pc = "closing" /\ run[d].boot /\ HasReceivedAll(d) =>
        Published \subseteq held[At(d)]

(* One sequence number of one generation never names two different segments,  *)
(* which would stop every device that lists it (segment.rs:970); a segment on *)
(* its way counts, for it may be there already.                               *)
OneSegmentPerName ==
    \A s, t \in remote \cup {cursor[d].pending : d \in Device} :
        StreamOf(s) = StreamOf(t) /\ s.seq = t.seq => s = t

(* Whatever was lost and interrupted on the way, in the end every device that *)
(* has the vault holds every commit, and none still claims to wait for one,   *)
(* as long as no device opens the vault a second time.                        *)
Agree ==
    \A d \in Device :
        /\ Holding(d) = 1..born
        /\ \A k \in Key : ~ cursor[d].streams[k].blocked
Converges == <>(reopened # {}) \/ <>[]Agree
=============================================================================
