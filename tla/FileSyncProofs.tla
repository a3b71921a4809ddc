--------------------------- MODULE FileSyncProofs ---------------------------
(* The safety of the exchange of whole vault files, proved for any number of  *)
(* devices, copies, edits and faults.                                         *)
EXTENDS FileSync, FiniteSetTheorems, TLAPS

(* The edits of what is called known have been on the server.                 *)
OnServer(bytes) == bytes.edits \subseteq remoteFile.edits

Types ==
    /\ remoteFile \in MaybeBytes
    /\ wire \subseteq Request
    /\ copy \in [Machine \X CopyId -> MaybeBytes]
    /\ settings \in [Machine -> Config]
    /\ saved \in [Machine -> SUBSET Config]
    /\ exchange \in [Machine -> Exchange]
    /\ lastEdit \in Nat /\ mishaps \in Nat /\ lastEdit + mishaps <= MaxMoves

(* Copies are made one after the other.                                       *)
CopiesInOrder == \A d \in Machine : \E n \in Nat : Used(d) = 1..n

(* A configuration, in use or kept: both sides of its binding hold the same   *)
(* edits, which the server and the copy still hold.                           *)
Sound(d, c) ==
    /\ c.file = NoCopy => c.binding = NoBinding
    /\ c.binding.remote.edits = c.binding.local.edits
    /\ OnServer(c.binding.remote)
    /\ c.file # NoCopy => /\ copy[<<d, c.file>>] # NoBytes
                          /\ c.binding.local.edits \subseteq copy[<<d, c.file>>].edits

ConfigsSound == \A d \in Machine : Sound(d, settings[d]) /\ \A c \in saved[d] : Sound(d, c)

(* A run works on the copy as it still is, and on remote bytes at least as    *)
(* new as the binding; it uploads only over bytes whose edits it holds.       *)
RunSound(d) ==
    LET r == exchange[d] IN
    /\ r.pc \in {"get", "decide", "put", "wait", "verify", "save"} =>
           settings[d].file # NoCopy /\ r.snapshot = Active(d)
    /\ r.pc = "decide" => /\ r.read \in Bytes /\ OnServer(r.read)
                          /\ settings[d].binding.remote.edits \subseteq r.read.edits
    /\ r.pc \in {"put", "wait"} => r.match.edits \subseteq r.snapshot.edits
    /\ r.pc = "save" => r.read = r.snapshot /\ OnServer(r.read)

RunsSound == \A d \in Machine : RunSound(d)

(* A request would not take an edit from what it replaces.                    *)
WireSound == \A q \in wire : q.match.edits \subseteq q.bytes.edits

IInv == Types /\ CopiesInOrder /\ ConfigsSound /\ RunsSound /\ WireSound

-----------------------------------------------------------------------------
(* What a run finds when it decides.                                          *)

LEMMA SameMeansSame ==
    ASSUME IInv, NEW d \in Machine, exchange[d].pc = "decide", Same(d)
    PROVE  Active(d).edits = exchange[d].read.edits
<1>1. exchange[d].snapshot = Active(d) BY DEF IInv, RunsSound, RunSound
<1>2. settings[d].binding.remote.edits = settings[d].binding.local.edits
  BY DEF IInv, ConfigsSound, Sound
<1>3. QED BY <1>1, <1>2 DEF Same, LocalChanged, RemoteChanged

LEMMA OnlyRemoteLeavesNothing ==
    ASSUME IInv, NEW d \in Machine, exchange[d].pc = "decide", OnlyRemote(d)
    PROVE  Active(d).edits \subseteq exchange[d].read.edits
<1>1. exchange[d].snapshot = Active(d) /\ settings[d].binding.remote.edits \subseteq exchange[d].read.edits
  BY DEF IInv, RunsSound, RunSound
<1>2. settings[d].binding.remote.edits = settings[d].binding.local.edits
  BY DEF IInv, ConfigsSound, Sound
<1>3. exchange[d].snapshot = settings[d].binding.local BY DEF OnlyRemote, LocalChanged
<1>4. QED BY <1>1, <1>2, <1>3

LEMMA OnlyLocalAdds ==
    ASSUME IInv, NEW d \in Machine, exchange[d].pc = "decide", OnlyLocal(d)
    PROVE  exchange[d].read.edits \subseteq exchange[d].snapshot.edits
<1>1. exchange[d].read = settings[d].binding.remote BY DEF OnlyLocal, RemoteChanged
<1>2. settings[d].binding.remote.edits = settings[d].binding.local.edits
      /\ (settings[d].file # NoCopy => settings[d].binding.local.edits \subseteq Active(d).edits)
  BY DEF IInv, ConfigsSound, Sound, Active
<1>3. settings[d].file # NoCopy /\ exchange[d].snapshot = Active(d) BY DEF IInv, RunsSound, RunSound
<1>4. QED BY <1>1, <1>2, <1>3

-----------------------------------------------------------------------------
(* Steps that only move a run, or the requests it has sent.                   *)

Copies == <<copy, settings, saved>>

LEMMA RunMoves ==
    ASSUME IInv, NEW d \in Machine, NEW r \in Exchange, Becomes(d, r),
           UNCHANGED <<remoteFile, Copies>>,
           wire' \subseteq Request, \A q \in wire' : q.match.edits \subseteq q.bytes.edits,
           lastEdit' \in Nat, mishaps' \in Nat, lastEdit' + mishaps' <= MaxMoves,
           RunSound(d)'
    PROVE  IInv'
<1>1. exchange' \in [Machine -> Exchange] /\ \A e \in Machine : e # d => exchange'[e] = exchange[e]
  BY DEF Becomes, IInv, Types
<1>2. Types' BY <1>1 DEF IInv, Types, Copies
<1>3. CopiesInOrder' BY DEF IInv, CopiesInOrder, Used, Copies
<1>4. ConfigsSound' BY DEF IInv, ConfigsSound, Sound, OnServer, Copies
<1>5. RunsSound'
  <2>1. \A e \in Machine : e # d => RunSound(e)'
    BY <1>1 DEF IInv, RunsSound, RunSound, Active, OnServer, Copies
  <2>2. QED BY <2>1 DEF RunsSound
<1>6. WireSound' BY DEF WireSound
<1>7. QED BY <1>2, <1>3, <1>4, <1>5, <1>6 DEF IInv

LEMMA IdleRun == AtRest \in Exchange /\ AtRest.pc = "idle"
BY DEF AtRest, Exchange, ExchangeStages, MaybeBytes

LEMMA RunEnds ==
    ASSUME IInv, NEW d \in Machine, Becomes(d, AtRest), UNCHANGED <<remoteFile, Copies>>,
           wire' \subseteq Request, \A q \in wire' : q.match.edits \subseteq q.bytes.edits,
           lastEdit' \in Nat, mishaps' \in Nat, lastEdit' + mishaps' <= MaxMoves
    PROVE  IInv'
<1>1. exchange'[d] = AtRest BY DEF Becomes, IInv, Types
<1>2. RunSound(d)' BY <1>1, IdleRun DEF RunSound
<1>3. QED BY <1>2, IdleRun, RunMoves

LEMMA CountersStay ==
    IInv => lastEdit \in Nat /\ mishaps \in Nat /\ lastEdit + mishaps <= MaxMoves
            /\ (MoreMoves => lastEdit + 1 + mishaps <= MaxMoves)
            /\ wire \subseteq Request /\ \A q \in wire : q.match.edits \subseteq q.bytes.edits
BY FileSyncAssumption DEF IInv, Types, WireSound, MoreMoves

(* Requests whose sender has gone are the same requests.                      *)
LEMMA AbandonKeeps ==
    ASSUME IInv, NEW d \in Machine, Abandon(d)
    PROVE  wire' \subseteq Request /\ \A q \in wire' : q.match.edits \subseteq q.bytes.edits
<1>1. ASSUME NEW p \in wire'
      PROVE  p \in Request /\ p.match.edits \subseteq p.bytes.edits
  <2>1. PICK q \in wire : p = [q EXCEPT !.late = q.late \/ q.from = d] BY DEF Abandon
  <2>2. q \in Request /\ q.match.edits \subseteq q.bytes.edits BY CountersStay
  <2>3. (q.late \/ q.from = d) \in BOOLEAN OBVIOUS
  <2>4. p \in Request /\ p.match = q.match /\ p.bytes = q.bytes
    BY <2>1, <2>2, <2>3 DEF Request
  <2>5. QED BY <2>2, <2>4
<1>2. QED BY <1>1

LEMMA StopStep == ASSUME IInv, NEW d \in Machine, BreakOff(d) PROVE IInv'
<1>1. Becomes(d, AtRest) /\ UNCHANGED <<remoteFile, Copies>> /\ lastEdit' = lastEdit /\ mishaps' = mishaps + 1 /\ MoreMoves
  BY DEF BreakOff, Ends, local, Copies
<1>2. wire' \subseteq Request /\ \A q \in wire' : q.match.edits \subseteq q.bytes.edits
  BY AbandonKeeps DEF BreakOff
<1>3. lastEdit' \in Nat /\ mishaps' \in Nat /\ lastEdit' + mishaps' <= MaxMoves
  BY <1>1, CountersStay, FileSyncAssumption
<1>4. QED BY <1>1, <1>2, <1>3, RunEnds

LEMMA StartStep ==
    ASSUME IInv, NEW d \in Machine, Synchronize(d) \/ Publish(d) \/ OpenRemote(d)
    PROVE  IInv'
<1>0. exchange[d].pc = "idle" /\ UNCHANGED <<remoteFile, Copies, wire>>
  BY DEF Synchronize, Publish, OpenRemote, server, local, Copies
<1>1. /\ settings[d] \in Config
      /\ settings[d].file # NoCopy => Active(d) \in MaybeBytes
  BY DEF IInv, Types, Config, Active
<1>2. lastEdit' \in Nat /\ mishaps' \in Nat /\ lastEdit' + mishaps' <= MaxMoves
  BY CountersStay, FileSyncAssumption DEF Synchronize, Publish, OpenRemote, past
<1>3. CASE Synchronize(d)
  <2> DEFINE a == Active(d)
             r == [AtRest EXCEPT !.pc = "get", !.snapshot = a]
  <2>1. settings[d].file # NoCopy BY <1>3 DEF Synchronize, IInv, ConfigsSound, Sound
  <2>2. a \in MaybeBytes BY <1>1, <2>1
  <2>3. Becomes(d, r) BY <1>3 DEF Synchronize
  <2> HIDE DEF a
  <2>4. r \in Exchange /\ r.pc = "get" /\ r.snapshot = a
    BY <2>2, IdleRun DEF Exchange, AtRest, ExchangeStages, MaybeBytes
  <2> HIDE DEF r
  <2>5. exchange'[d] = r BY <2>3 DEF Becomes, IInv, Types
  <2>6. RunSound(d)' BY <1>0, <2>1, <2>4, <2>5 DEF RunSound, a, Active, Copies
  <2>7. QED BY <1>0, <1>2, <2>3, <2>4, <2>6, RunMoves, CountersStay
<1>4. CASE Publish(d)
  <2> DEFINE a == Active(d)
             r == [AtRest EXCEPT !.pc = "put", !.snapshot = a, !.publishes = TRUE]
  <2>1. settings[d].file # NoCopy BY <1>4 DEF Publish
  <2>2. a \in MaybeBytes BY <1>1, <2>1
  <2>3. Becomes(d, r) BY <1>4 DEF Publish
  <2> HIDE DEF a
  <2>4. r \in Exchange /\ r.pc = "put" /\ r.snapshot = a /\ r.match.edits = {}
    BY <2>2, IdleRun DEF Exchange, AtRest, ExchangeStages, MaybeBytes, NoBytes
  <2> HIDE DEF r
  <2>5. exchange'[d] = r BY <2>3 DEF Becomes, IInv, Types
  <2>6. RunSound(d)' BY <1>0, <2>1, <2>4, <2>5 DEF RunSound, a, Active, Copies
  <2>7. QED BY <1>0, <1>2, <2>3, <2>4, <2>6, RunMoves, CountersStay
<1>5. CASE OpenRemote(d)
  <2> DEFINE r == [AtRest EXCEPT !.pc = "open"]
  <2>1. Becomes(d, r) BY <1>5 DEF OpenRemote
  <2>2. r \in Exchange /\ r.pc = "open" BY IdleRun DEF Exchange, AtRest, ExchangeStages
  <2> HIDE DEF r
  <2>3. exchange'[d] = r BY <2>1 DEF Becomes, IInv, Types
  <2>4. RunSound(d)' BY <2>2, <2>3 DEF RunSound
  <2>5. QED BY <1>0, <1>2, <2>1, <2>2, <2>4, RunMoves, CountersStay
<1>6. QED BY <1>3, <1>4, <1>5

-----------------------------------------------------------------------------
(* The steps of a run that neither install nor bind anything.                 *)

LEMMA DecideSteps ==
    ASSUME IInv, NEW d \in Machine,
           Get(d) \/ Absent(d) \/ Conflict(d) \/ Unversioned(d) \/ Prepare(d)
    PROVE  IInv'
<1>0. UNCHANGED <<remoteFile, Copies, wire>>
  BY DEF Get, Absent, Conflict, Unversioned, Prepare, server, local, Copies
<1>1. CASE Absent(d) \/ Conflict(d) \/ Unversioned(d)
  <2>1. Becomes(d, AtRest) /\ UNCHANGED <<lastEdit, mishaps>>
    BY <1>1 DEF Absent, Conflict, Unversioned, Ends, past
  <2>2. QED BY <1>0, <2>1, RunEnds, CountersStay
<1>2. CASE Get(d)
  <2>1. PICK strong \in BOOLEAN :
          /\ Becomes(d, [exchange[d] EXCEPT !.pc = "decide", !.read = remoteFile, !.etag = strong])
          /\ (strong = FALSE => MoreMoves)
          /\ mishaps' = IF strong THEN mishaps ELSE mishaps + 1
    BY <1>2 DEF Get
  <2> DEFINE r == [exchange[d] EXCEPT !.pc = "decide", !.read = remoteFile, !.etag = strong]
  <2>2. /\ exchange[d] \in Exchange /\ exchange[d].pc = "get" /\ remoteFile \in Bytes
        /\ settings[d].file # NoCopy /\ exchange[d].snapshot = Active(d)
    BY <1>2 DEF Get, IInv, Types, RunsSound, RunSound, MaybeBytes
  <2>3. r \in Exchange /\ r.pc = "decide" /\ r.read = remoteFile /\ r.snapshot = exchange[d].snapshot
    BY <2>2 DEF Exchange, ExchangeStages, MaybeBytes
  <2>4. Becomes(d, r) BY <2>1
  <2> HIDE DEF r
  <2>5. exchange'[d] = r BY <2>4 DEF Becomes, IInv, Types
  <2>6. settings[d].binding.remote.edits \subseteq remoteFile.edits
    BY DEF IInv, ConfigsSound, Sound, OnServer
  <2>7. RunSound(d)'
    BY <1>0, <2>2, <2>3, <2>5, <2>6 DEF RunSound, Active, OnServer, Copies
  <2>8. lastEdit' \in Nat /\ mishaps' \in Nat /\ lastEdit' + mishaps' <= MaxMoves
    <3>1. lastEdit' = lastEdit BY <1>2 DEF Get
    <3>2. CASE strong BY <2>1, <3>1, <3>2, CountersStay
    <3>3. CASE ~ strong BY <2>1, <3>1, <3>3, CountersStay, FileSyncAssumption
    <3>4. QED BY <3>2, <3>3
  <2>9. QED BY <1>0, <2>3, <2>4, <2>7, <2>8, RunMoves, CountersStay
<1>3. CASE Prepare(d)
  <2> DEFINE r == [exchange[d] EXCEPT !.pc = "put", !.match = exchange[d].read]
  <2>1. /\ exchange[d] \in Exchange /\ exchange[d].pc = "decide" /\ settings[d].file # NoCopy
        /\ exchange[d].snapshot = Active(d)
        /\ exchange[d].read \in Bytes
    BY <1>3 DEF Prepare, IInv, Types, RunsSound, RunSound
  <2>2. exchange[d].read.edits \subseteq exchange[d].snapshot.edits
    BY <1>3, OnlyLocalAdds DEF Prepare
  <2>3. r \in Exchange /\ r.pc = "put" /\ r.match = exchange[d].read /\ r.snapshot = exchange[d].snapshot
    BY <2>1 DEF Exchange, ExchangeStages, MaybeBytes
  <2>4. Becomes(d, r) /\ UNCHANGED past BY <1>3 DEF Prepare
  <2> HIDE DEF r
  <2>5. exchange'[d] = r BY <2>4 DEF Becomes, IInv, Types
  <2>6. RunSound(d)' BY <1>0, <2>1, <2>2, <2>3, <2>5 DEF RunSound, Active, Copies
  <2>7. QED BY <1>0, <2>3, <2>4, <2>6, RunMoves, CountersStay DEF past
<1>4. QED BY <1>1, <1>2, <1>3

LEMMA UploadSteps ==
    ASSUME IInv, NEW d \in Machine,
           PutFile(d) \/ Throttled(d) \/ Refused(d) \/ Stored(d) \/ Verify(d)
    PROVE  IInv'
<1>0. UNCHANGED <<remoteFile, Copies>> /\ exchange[d] \in Exchange
  BY DEF PutFile, Throttled, Refused, Stored, Verify, server, local, Copies, IInv, Types
<1>1. ASSUME NEW s \in ExchangeStages, NEW r, r = [exchange[d] EXCEPT !.pc = s]
      PROVE  r \in Exchange /\ r.pc = s /\ r.match = exchange[d].match /\ r.snapshot = exchange[d].snapshot
  BY <1>0, <1>1 DEF Exchange
<1>2. CASE PutFile(d)
  <2> DEFINE r == [exchange[d] EXCEPT !.pc = "wait"]
             q == [from |-> d, match |-> exchange[d].match, bytes |-> exchange[d].snapshot, late |-> FALSE]
  <2>1. r \in Exchange /\ r.pc = "wait" /\ r.match = exchange[d].match /\ r.snapshot = exchange[d].snapshot
    BY <1>1 DEF ExchangeStages
  <2>2. /\ exchange[d].pc = "put" /\ Becomes(d, r) /\ UNCHANGED past /\ wire' = wire \cup {q}
    BY <1>2 DEF PutFile
  <2> HIDE DEF r
  <2>3. /\ exchange[d].match.edits \subseteq exchange[d].snapshot.edits
        /\ settings[d].file # NoCopy /\ exchange[d].snapshot = Active(d)
    BY <2>2 DEF IInv, RunsSound, RunSound
  <2>4. q \in Request /\ q.match = exchange[d].match /\ q.bytes = exchange[d].snapshot
    BY <1>0 DEF Request, Exchange
  <2> HIDE DEF q
  <2>5. wire' \subseteq Request /\ \A p \in wire' : p.match.edits \subseteq p.bytes.edits
    BY <2>2, <2>3, <2>4, CountersStay
  <2>6. exchange'[d] = r BY <2>2 DEF Becomes, IInv, Types
  <2>7. RunSound(d)' BY <1>0, <2>1, <2>3, <2>6 DEF RunSound, Active, Copies
  <2>8. QED BY <1>0, <2>1, <2>2, <2>5, <2>7, RunMoves, CountersStay DEF past
<1>3. CASE Throttled(d)
  <2>1. /\ wire' \subseteq Request /\ \A q \in wire' : q.match.edits \subseteq q.bytes.edits
        /\ lastEdit' \in Nat /\ mishaps' \in Nat /\ lastEdit' + mishaps' <= MaxMoves
    BY <1>3, AbandonKeeps, CountersStay, FileSyncAssumption DEF Throttled
  <2>2. CASE Becomes(d, AtRest) BY <1>0, <2>1, <2>2, RunEnds
  <2>3. CASE Becomes(d, [exchange[d] EXCEPT !.pc = "put"])
    <3> DEFINE r == [exchange[d] EXCEPT !.pc = "put"]
    <3>1. r \in Exchange /\ r.pc = "put" /\ r.match = exchange[d].match /\ r.snapshot = exchange[d].snapshot
      BY <1>1 DEF ExchangeStages
    <3>2. Becomes(d, r) /\ exchange[d].pc = "wait" BY <1>3, <2>3 DEF Throttled
    <3> HIDE DEF r
    <3>3. exchange'[d] = r BY <3>2 DEF Becomes, IInv, Types
    <3>4. RunSound(d)'
      BY <1>0, <3>1, <3>2, <3>3 DEF RunSound, Active, Copies, IInv, RunsSound
    <3>5. QED BY <1>0, <2>1, <3>1, <3>2, <3>4, RunMoves
  <2>4. QED BY <1>3, <2>2, <2>3 DEF Throttled, Ends
<1>4. CASE Refused(d)
  BY <1>0, <1>4, RunEnds, CountersStay DEF Refused, Ends, past
<1>5. CASE Stored(d)
  <2> DEFINE r == [exchange[d] EXCEPT !.pc = "verify"]
  <2>1. r \in Exchange /\ r.pc = "verify" /\ r.match = exchange[d].match /\ r.snapshot = exchange[d].snapshot
    BY <1>1 DEF ExchangeStages
  <2>2. Becomes(d, r) /\ exchange[d].pc = "wait" /\ UNCHANGED <<wire, past>>
    BY <1>5 DEF Stored
  <2> HIDE DEF r
  <2>3. exchange'[d] = r BY <2>2 DEF Becomes, IInv, Types
  <2>4. RunSound(d)'
    BY <1>0, <2>1, <2>2, <2>3 DEF RunSound, Active, Copies, IInv, RunsSound
  <2>5. QED BY <1>0, <2>1, <2>2, <2>4, RunMoves, CountersStay DEF past
<1>6. CASE Verify(d)
  <2>1. exchange[d].pc = "verify" /\ UNCHANGED <<wire, past>> BY <1>6 DEF Verify, server
  <2>2. CASE Becomes(d, AtRest) BY <1>0, <2>1, <2>2, RunEnds, CountersStay DEF past
  <2>3. CASE /\ remoteFile = exchange[d].snapshot
             /\ Becomes(d, [exchange[d] EXCEPT !.pc = "save", !.read = remoteFile])
    <3> DEFINE r == [exchange[d] EXCEPT !.pc = "save", !.read = remoteFile]
    <3>1. r \in Exchange /\ r.pc = "save" /\ r.read = remoteFile /\ r.snapshot = exchange[d].snapshot
      BY <1>0 DEF Exchange, ExchangeStages, IInv, Types
    <3>2. Becomes(d, r) BY <2>3
    <3> HIDE DEF r
    <3>3. exchange'[d] = r BY <3>2 DEF Becomes, IInv, Types
    <3>4. RunSound(d)'
      BY <1>0, <2>1, <2>3, <3>1, <3>3 DEF RunSound, Active, Copies, OnServer, IInv, RunsSound
    <3>5. QED BY <1>0, <2>1, <3>1, <3>2, <3>4, RunMoves, CountersStay DEF past
  <2>4. QED BY <1>6, <2>2, <2>3 DEF Verify, Proves, Ends
<1>7. QED BY <1>2, <1>3, <1>4, <1>5, <1>6

-----------------------------------------------------------------------------
(* The binding is renewed.                                                    *)

LEMMA RebindStep ==
    ASSUME IInv, NEW d \in Machine, Confirmed(d) \/ Save(d) PROVE IInv'
<1> DEFINE read == exchange[d].read
           bound == [remote |-> read, local |-> exchange[d].snapshot]
<1>1. /\ settings' = [settings EXCEPT ![d].binding = bound] /\ Becomes(d, AtRest)
      /\ UNCHANGED <<server, copy, saved, past>>
  BY DEF Confirmed, Save, Ends
<1>2. /\ settings[d].file # NoCopy /\ exchange[d].snapshot = Active(d)
      /\ read.edits = Active(d).edits /\ OnServer(read)
  <2>1. CASE Confirmed(d)
    BY <2>1, SameMeansSame DEF Confirmed, IInv, RunsSound, RunSound
  <2>2. CASE Save(d) BY <2>2 DEF Save, IInv, RunsSound, RunSound
  <2>3. QED BY <2>1, <2>2
<1>3. /\ settings \in [Machine -> Config] /\ exchange \in [Machine -> Exchange]
      /\ copy \in [Machine \X CopyId -> MaybeBytes]
  BY DEF IInv, Types
<1>4. bound \in Binding BY <1>3 DEF Binding, Exchange
<1>5. bound.remote = read /\ bound.local = Active(d) BY <1>2
<1> HIDE DEF bound
<1>6. /\ settings' \in [Machine -> Config]
      /\ settings'[d].binding = bound /\ settings'[d].file = settings[d].file
      /\ \A e \in Machine : e # d => settings'[e] = settings[e]
  BY <1>1, <1>3, <1>4 DEF Config
<1>7. exchange' \in [Machine -> Exchange] /\ exchange'[d] = AtRest /\ \A e \in Machine : e # d => exchange'[e] = exchange[e]
  BY <1>1, <1>3, IdleRun DEF Becomes
<1>8. Types' BY <1>1, <1>6, <1>7 DEF IInv, Types, server, past
<1>9. CopiesInOrder' BY <1>1 DEF IInv, CopiesInOrder, Used
<1>10. ConfigsSound'
  <2>1. \A e \in Machine : \A c \in Config : Sound(e, c) => Sound(e, c)'
    BY <1>1 DEF Sound, OnServer, server
  <2>2. Sound(d, settings[d])'
    <3>1. settings[d].file # NoCopy /\ copy[<<d, settings[d].file>>] # NoBytes
      BY <1>2 DEF IInv, ConfigsSound, Sound
    <3>2. QED BY <1>1, <1>2, <1>5, <1>6, <3>1 DEF Sound, OnServer, Active, server
  <2>3. \A e \in Machine : e # d => Sound(e, settings[e])'
    BY <1>3, <1>6, <2>1 DEF IInv, ConfigsSound
  <2>4. \A e \in Machine : \A c \in saved'[e] : c \in Config /\ Sound(e, c)'
    BY <1>1, <2>1 DEF IInv, Types, ConfigsSound
  <2>5. QED BY <2>2, <2>3, <2>4 DEF ConfigsSound
<1>11. RunsSound'
  <2>1. RunSound(d)' BY <1>7, IdleRun DEF RunSound
  <2>2. \A e \in Machine : e # d => RunSound(e)'
    BY <1>1, <1>6, <1>7 DEF IInv, RunsSound, RunSound, Active, OnServer, server
  <2>3. QED BY <2>1, <2>2 DEF RunsSound
<1>12. WireSound' BY <1>1 DEF IInv, WireSound, server
<1>13. QED BY <1>8, <1>9, <1>10, <1>11, <1>12 DEF IInv

-----------------------------------------------------------------------------
(* A copy comes, or changes.                                                  *)

LEMMA CopiesUsed ==
    ASSUME IInv, NEW d \in Machine
    PROVE  \E n \in Nat : Used(d) = 1..n /\ Cardinality(Used(d)) = n
<1>1. PICK n \in Nat : Used(d) = 1..n BY DEF IInv, CopiesInOrder
<1>2. Cardinality(1..n) = n
  <2>1. 0 \in Int /\ 1 \in Int /\ n \in Int OBVIOUS
  <2>2. QED BY <1>1, FS_Interval
<1>3. QED BY <1>1, <1>2

LEMMA ConfigureStep ==
    ASSUME IInv, NEW d \in Machine, NEW bytes \in Bytes, OnServer(bytes),
           Configure(d, bytes), Becomes(d, AtRest), UNCHANGED <<server, past>>
    PROVE  IInv'
<1> DEFINE f == Cardinality(Used(d)) + 1
<1>1. PICK n \in Nat : Used(d) = 1..n /\ f = n + 1 BY CopiesUsed
<1>2. PICK installed \in Installed(bytes) :
        /\ copy' = [copy EXCEPT ![<<d, f>>] = installed]
        /\ settings' = [settings EXCEPT ![d] =
               [file |-> f, binding |-> [remote |-> bytes, local |-> installed]]]
  BY DEF Configure
<1>3. /\ f \in CopyId
      /\ saved' = [saved EXCEPT ![d] = IF settings[d] = NoConfig THEN saved[d]
                                       ELSE saved[d] \cup {settings[d]}]
  BY DEF Configure
<1>4. f \notin Used(d) /\ f # NoCopy BY <1>1, <1>3 DEF NoCopy
<1> HIDE DEF f
<1>5. installed \in Bytes /\ installed.edits = bytes.edits /\ installed # NoBytes
  BY DEF Installed, Bytes, NoBytes
<1>6. /\ settings \in [Machine -> Config] /\ exchange \in [Machine -> Exchange] /\ saved \in [Machine -> SUBSET Config]
      /\ copy \in [Machine \X CopyId -> MaybeBytes] /\ <<d, f>> \in Machine \X CopyId
  BY <1>3 DEF IInv, Types
<1>7. /\ copy' \in [Machine \X CopyId -> MaybeBytes] /\ copy'[<<d, f>>] = installed
      /\ \A p \in Machine \X CopyId : p # <<d, f>> => copy'[p] = copy[p]
  BY <1>2, <1>5, <1>6 DEF MaybeBytes
<1> DEFINE new == [file |-> f, binding |-> [remote |-> bytes, local |-> installed]]
<1>8. new \in Config /\ new.file = f /\ new.binding.remote = bytes /\ new.binding.local = installed
  BY <1>3, <1>5 DEF Config, Binding, MaybeBytes
<1>9. settings' = [settings EXCEPT ![d] = new] BY <1>2
<1> HIDE DEF new
<1>10. /\ settings' \in [Machine -> Config] /\ settings'[d] = new
       /\ \A e \in Machine : e # d => settings'[e] = settings[e]
  BY <1>6, <1>8, <1>9
<1>11. /\ saved' \in [Machine -> SUBSET Config]
       /\ \A e \in Machine : saved'[e] \subseteq saved[e] \cup {settings[e]}
  BY <1>3, <1>6
<1>12. exchange' \in [Machine -> Exchange] /\ exchange'[d] = AtRest /\ \A e \in Machine : e # d => exchange'[e] = exchange[e]
  BY <1>6, IdleRun DEF Becomes
<1>13. Types' BY <1>7, <1>10, <1>11, <1>12 DEF IInv, Types, server, past
<1>14. CopiesInOrder'
  <2> SUFFICES ASSUME NEW e \in Machine PROVE \E m \in Nat : Used(e)' = 1..m
    BY DEF CopiesInOrder
  <2>1. CASE e = d
    <3>1. Used(d)' = Used(d) \cup {f}
      BY <1>3, <1>5, <1>6, <1>7 DEF Used
    <3>2. Used(d)' = 1..(n + 1) BY <1>1, <3>1
    <3>3. QED BY <2>1, <3>2
  <2>2. CASE e # d
    <3>1. Used(e)' = Used(e) BY <1>6, <1>7, <2>2 DEF Used
    <3>2. QED BY <3>1 DEF IInv, CopiesInOrder
  <2>3. QED BY <2>1, <2>2
<1>15. \A e \in Machine : \A c \in Config : Sound(e, c) => Sound(e, c)'
  <2> SUFFICES ASSUME NEW e \in Machine, NEW c \in Config, Sound(e, c) PROVE Sound(e, c)'
    OBVIOUS
  <2>1. c.file # NoCopy => c.file \in CopyId BY DEF Config
  <2>2. c.file # NoCopy => <<e, c.file>> # <<d, f>> BY <1>4, <2>1 DEF Sound, Used
  <2>3. c.file # NoCopy => copy'[<<e, c.file>>] = copy[<<e, c.file>>]
    BY <1>7, <2>1, <2>2
  <2>4. QED BY <2>3 DEF Sound, OnServer, server
<1>16. ConfigsSound'
  <2>1. Sound(d, settings[d])'
    BY <1>4, <1>5, <1>7, <1>8, <1>10 DEF Sound, OnServer, server
  <2>2. \A e \in Machine : e # d => Sound(e, settings[e])'
    BY <1>6, <1>10, <1>15 DEF IInv, ConfigsSound
  <2>3. \A e \in Machine : \A c \in saved'[e] : Sound(e, c)'
    <3>1. \A e \in Machine : \A c \in saved'[e] : c \in Config /\ Sound(e, c)
      BY <1>6, <1>11 DEF IInv, ConfigsSound
    <3>2. QED BY <1>15, <3>1
  <2>4. QED BY <2>1, <2>2, <2>3 DEF ConfigsSound
<1>17. RunsSound'
  <2>1. RunSound(d)' BY <1>12, IdleRun DEF RunSound
  <2>2. ASSUME NEW e \in Machine, e # d PROVE RunSound(e)'
    <3>1. settings'[e] = settings[e] /\ exchange'[e] = exchange[e] BY <1>10, <1>12, <2>2
    <3>2. settings[e].file # NoCopy => Active(e)' = Active(e)
      BY <1>6, <1>7, <2>2, <3>1 DEF Active, Config
    <3>3. QED BY <3>1, <3>2 DEF IInv, RunsSound, RunSound, OnServer, server
  <2>3. QED BY <2>1, <2>2 DEF RunsSound
<1>18. WireSound' BY DEF IInv, WireSound, server
<1>19. QED BY <1>13, <1>14, <1>16, <1>17, <1>18 DEF IInv

LEMMA InstallSteps ==
    ASSUME IInv, NEW d \in Machine, Install(d) \/ Opened(d) PROVE IInv'
<1>1. CASE Install(d)
  <2>1. exchange[d].read \in Bytes /\ OnServer(exchange[d].read)
    BY <1>1 DEF Install, IInv, RunsSound, RunSound
  <2>2. QED BY <1>1, <2>1, ConfigureStep DEF Install, Ends
<1>2. CASE Opened(d)
  <2>1. remoteFile \in Bytes /\ OnServer(remoteFile)
    BY <1>2 DEF Opened, IInv, Types, MaybeBytes, OnServer
  <2>2. QED BY <1>2, <2>1, ConfigureStep DEF Opened, Ends
<1>3. QED BY <1>1, <1>2

LEMMA EditStep == ASSUME IInv, NEW d \in Machine, EditVault(d) PROVE IInv'
<1> DEFINE f == settings[d].file
           p == <<d, f>>
           edited == [edits |-> copy[p].edits \cup {lastEdit'}, form |-> "written"]
<1>1. /\ exchange[d].pc = "idle" /\ f # NoCopy /\ MoreMoves /\ lastEdit' = lastEdit + 1
      /\ copy' = [copy EXCEPT ![p] = edited]
      /\ UNCHANGED <<remoteFile, wire, settings, saved, exchange, mishaps>>
  BY DEF EditVault, server
<1>2. settings[d] \in Config /\ f \in CopyId /\ p \in Machine \X CopyId /\ copy \in [Machine \X CopyId -> MaybeBytes]
  BY <1>1 DEF IInv, Types, Config
<1>3. copy[p] # NoBytes BY <1>1 DEF IInv, ConfigsSound, Sound
<1>4. lastEdit' \in EditId
  BY <1>1, CountersStay, FileSyncAssumption DEF EditId
<1>5. edited \in Bytes /\ copy[p].edits \subseteq edited.edits /\ edited # NoBytes
  BY <1>2, <1>3, <1>4 DEF Bytes, MaybeBytes, NoBytes
<1> HIDE DEF edited, f, p
<1>6. /\ copy' \in [Machine \X CopyId -> MaybeBytes] /\ copy'[p] = edited
      /\ \A q \in Machine \X CopyId : q # p => copy'[q] = copy[q]
  BY <1>1, <1>2, <1>5 DEF MaybeBytes
<1>7. \A q \in Machine \X CopyId : (copy'[q] # NoBytes <=> copy[q] # NoBytes)
                                   /\ copy[q].edits \subseteq copy'[q].edits
  BY <1>3, <1>5, <1>6
<1>8. Types' BY <1>1, <1>6, CountersStay, FileSyncAssumption DEF IInv, Types
<1>9. CopiesInOrder'
  <2>1. \A e \in Machine : Used(e)' = Used(e) BY <1>7 DEF Used
  <2>2. QED BY <2>1 DEF IInv, CopiesInOrder
<1>10. ConfigsSound'
  <2>1. ASSUME NEW e \in Machine, NEW c \in Config, Sound(e, c) PROVE Sound(e, c)'
    <3>1. c.file # NoCopy => <<e, c.file>> \in Machine \X CopyId BY DEF Config
    <3>2. QED BY <1>1, <1>7, <2>1, <3>1 DEF Sound, OnServer
  <2>2. \A e \in Machine : settings[e] \in Config /\ saved[e] \subseteq Config BY DEF IInv, Types
  <2>3. QED BY <1>1, <2>1, <2>2 DEF IInv, ConfigsSound
<1>11. RunsSound'
  <2>1. RunSound(d)' BY <1>1 DEF RunSound
  <2>2. ASSUME NEW e \in Machine, e # d PROVE RunSound(e)'
    <3>1. settings[e] \in Config BY DEF IInv, Types
    <3>2. settings[e].file # NoCopy => Active(e)' = Active(e)
      BY <1>1, <1>6, <2>2, <3>1 DEF Active, Config, p
    <3>3. QED BY <1>1, <3>2 DEF IInv, RunsSound, RunSound, OnServer
  <2>3. QED BY <2>1, <2>2 DEF RunsSound
<1>12. WireSound' BY <1>1 DEF IInv, WireSound
<1>13. QED BY <1>8, <1>9, <1>10, <1>11, <1>12 DEF IInv

LEMMA SwitchStep == ASSUME IInv, NEW d \in Machine, NEW c \in saved[d], SwitchBack(d, c) PROVE IInv'
<1>1. /\ exchange[d].pc = "idle" /\ MoreMoves /\ mishaps' = mishaps + 1
      /\ settings' = [settings EXCEPT ![d] = c]
      /\ saved' = [saved EXCEPT ![d] = saved[d] \cup {settings[d]}]
      /\ UNCHANGED <<remoteFile, wire, copy, exchange, lastEdit>>
  BY DEF SwitchBack, server
<1>2. /\ settings \in [Machine -> Config] /\ saved \in [Machine -> SUBSET Config] /\ c \in Config
  BY DEF IInv, Types
<1>3. /\ settings' \in [Machine -> Config] /\ settings'[d] = c
      /\ \A e \in Machine : e # d => settings'[e] = settings[e]
  BY <1>1, <1>2
<1>4. /\ saved' \in [Machine -> SUBSET Config]
      /\ \A e \in Machine : saved'[e] \subseteq saved[e] \cup {settings[e]}
  BY <1>1, <1>2
<1>5. Types' BY <1>1, <1>3, <1>4, CountersStay, FileSyncAssumption DEF IInv, Types
<1>6. CopiesInOrder' BY <1>1 DEF IInv, CopiesInOrder, Used
<1>7. ConfigsSound'
  <2>1. \A e \in Machine, b \in Config : Sound(e, b) => Sound(e, b)'
    BY <1>1 DEF Sound, OnServer
  <2>2. Sound(d, settings[d])' BY <1>2, <1>3, <2>1 DEF IInv, ConfigsSound
  <2>3. \A e \in Machine : e # d => Sound(e, settings[e])'
    BY <1>2, <1>3, <2>1 DEF IInv, ConfigsSound
  <2>4. \A e \in Machine : \A b \in saved'[e] : Sound(e, b)'
    <3>1. \A e \in Machine : \A b \in saved'[e] : b \in Config /\ Sound(e, b)
      BY <1>2, <1>4 DEF IInv, ConfigsSound
    <3>2. QED BY <2>1, <3>1
  <2>5. QED BY <2>2, <2>3, <2>4 DEF ConfigsSound
<1>8. RunsSound'
  <2>1. RunSound(d)' BY <1>1 DEF RunSound
  <2>2. \A e \in Machine : e # d => RunSound(e)'
    BY <1>1, <1>3 DEF IInv, RunsSound, RunSound, Active, OnServer
  <2>3. QED BY <2>1, <2>2 DEF RunsSound
<1>9. WireSound' BY <1>1 DEF IInv, WireSound
<1>10. QED BY <1>5, <1>6, <1>7, <1>8, <1>9 DEF IInv

-----------------------------------------------------------------------------
(* The server.                                                                *)

LEMMA ServeStep ==
    ASSUME IInv, NEW q \in wire, Serve(q)
    PROVE  IInv' /\ remoteFile.edits \subseteq remoteFile'.edits
<1>1. /\ wire' \subseteq wire /\ UNCHANGED <<local, exchange, past>>
      /\ remoteFile' = remoteFile \/ (remoteFile = q.match /\ remoteFile' = q.bytes)
  BY DEF Serve, Holds
<1>2. q \in Request /\ q.match.edits \subseteq q.bytes.edits BY CountersStay
<1>3. remoteFile.edits \subseteq remoteFile'.edits /\ remoteFile' \in MaybeBytes
  BY <1>1, <1>2 DEF Request, IInv, Types
<1>4. Types' BY <1>1, <1>3 DEF IInv, Types, local, past
<1>5. CopiesInOrder' BY <1>1 DEF IInv, CopiesInOrder, Used, local
<1>6. ConfigsSound' BY <1>1, <1>3 DEF IInv, ConfigsSound, Sound, OnServer, local
<1>7. RunsSound' BY <1>1, <1>3 DEF IInv, RunsSound, RunSound, Active, OnServer, local
<1>8. WireSound' BY <1>1 DEF IInv, WireSound
<1>9. QED BY <1>3, <1>4, <1>5, <1>6, <1>7, <1>8 DEF IInv

-----------------------------------------------------------------------------
LEMMA InitIInv == ExchangeInit => IInv
<1> SUFFICES ASSUME ExchangeInit PROVE IInv
  OBVIOUS
<1> DEFINE first == [edits |-> {0}, form |-> "written"]
<1>1. first \in Bytes /\ NoBytes \in MaybeBytes /\ first # NoBytes
  BY FileSyncAssumption DEF Bytes, EditId, MaybeBytes, NoBytes
<1>2. NoConfig \in Config /\ [NoConfig EXCEPT !.file = 1] \in Config
      /\ [NoConfig EXCEPT !.file = 1] = [file |-> 1, binding |-> NoBinding]
  BY <1>1, FileSyncAssumption DEF NoConfig, Config, Binding, NoBinding, CopyId
<1>3. copy = [p \in Machine \X CopyId |-> IF p = <<Maker, 1>> THEN first ELSE NoBytes]
  BY DEF ExchangeInit
<1> HIDE DEF first
<1>4. /\ <<Maker, 1>> \in Machine \X CopyId /\ copy[<<Maker, 1>>] = first
       /\ \A p \in Machine \X CopyId : p # <<Maker, 1>> => copy[p] = NoBytes
  <2>1. <<Maker, 1>> \in Machine \X CopyId BY FileSyncAssumption DEF CopyId
  <2>2. QED BY <1>3, <2>1
<1>5. Types
  <2>1. copy \in [Machine \X CopyId -> MaybeBytes] BY <1>1, <1>3 DEF MaybeBytes
  <2>2. settings \in [Machine -> Config] BY <1>2 DEF ExchangeInit
  <2>3. exchange \in [Machine -> Exchange] BY IdleRun DEF ExchangeInit
  <2>4. remoteFile \in MaybeBytes /\ wire \subseteq Request BY <1>1 DEF ExchangeInit
  <2>5. saved \in [Machine -> SUBSET Config] BY DEF ExchangeInit
  <2>6. lastEdit \in Nat /\ mishaps \in Nat /\ lastEdit + mishaps <= MaxMoves BY FileSyncAssumption DEF ExchangeInit
  <2>7. QED BY <2>1, <2>2, <2>3, <2>4, <2>5, <2>6 DEF Types
<1>6. CopiesInOrder
  <2> SUFFICES ASSUME NEW d \in Machine PROVE \E n \in Nat : Used(d) = 1..n
    BY DEF CopiesInOrder
  <2>1. CASE d = Maker
    <3>1. \A f \in CopyId : copy[<<d, f>>] # NoBytes <=> f = 1 BY <1>1, <1>4, <2>1
    <3>2. 1 \in CopyId BY FileSyncAssumption DEF CopyId
    <3>3. Used(d) = {1} BY <3>1, <3>2 DEF Used
    <3>4. {1} = 1..1 OBVIOUS
    <3>5. QED BY <3>3, <3>4
  <2>2. CASE d # Maker
    <3>1. Used(d) = 1..0 BY <1>3, <2>2 DEF Used
    <3>2. QED BY <3>1
  <2>3. QED BY <2>1, <2>2
<1>7. ConfigsSound
  <2> SUFFICES ASSUME NEW d \in Machine PROVE Sound(d, settings[d])
    BY DEF ExchangeInit, ConfigsSound
  <2>1. CASE d = Maker
    <3>1. settings[d] = [file |-> 1, binding |-> NoBinding] BY <1>2, <2>1 DEF ExchangeInit
    <3>2. copy[<<d, 1>>] # NoBytes BY <1>1, <1>4, <2>1
    <3>3. settings[d].file # NoCopy BY <3>1 DEF NoCopy
    <3>4. QED BY <3>1, <3>2, <3>3 DEF Sound, OnServer, NoBinding, NoBytes
  <2>2. CASE d # Maker
    <3>1. settings[d] = NoConfig BY <2>2 DEF ExchangeInit
    <3>2. QED BY <3>1 DEF Sound, OnServer, NoConfig, NoBinding, NoBytes
  <2>3. QED BY <2>1, <2>2
<1>8. RunsSound
  <2>1. \A d \in Machine : exchange[d].pc = "idle" BY IdleRun DEF ExchangeInit
  <2>2. QED BY <2>1 DEF RunsSound, RunSound
<1>9. WireSound BY DEF ExchangeInit, WireSound
<1>10. QED BY <1>5, <1>6, <1>7, <1>8, <1>9 DEF IInv

LEMMA StepIInv ==
    ASSUME IInv, [ExchangeNext]_xvars PROVE IInv' /\ remoteFile.edits \subseteq remoteFile'.edits
<1>1. CASE \E q \in wire : Serve(q) BY <1>1, ServeStep
<1>2. CASE \E d \in Machine :
        \/ EditVault(d) \/ Synchronize(d) \/ Publish(d) \/ OpenRemote(d)
        \/ \E c \in saved[d] : SwitchBack(d, c)
        \/ ExchangeStep(d) \/ Throttled(d) \/ BreakOff(d)
  <2>1. PICK d \in Machine :
        \/ EditVault(d) \/ Synchronize(d) \/ Publish(d) \/ OpenRemote(d)
        \/ \E c \in saved[d] : SwitchBack(d, c)
        \/ ExchangeStep(d) \/ Throttled(d) \/ BreakOff(d)
    BY <1>2
  <2>2. CASE EditVault(d) BY <2>2, EditStep DEF EditVault, server
  <2>3. CASE Synchronize(d) \/ Publish(d) \/ OpenRemote(d)
    BY <2>3, StartStep DEF Synchronize, Publish, OpenRemote, server
  <2>4. CASE \E c \in saved[d] : SwitchBack(d, c) BY <2>4, SwitchStep DEF SwitchBack, server
  <2>5. CASE BreakOff(d) BY <2>5, StopStep DEF BreakOff
  <2>6. CASE Get(d) \/ Absent(d) \/ Conflict(d) \/ Unversioned(d) \/ Prepare(d)
    BY <2>6, DecideSteps DEF Get, Absent, Conflict, Unversioned, Prepare, server
  <2>7. CASE PutFile(d) \/ Throttled(d) \/ Refused(d) \/ Stored(d) \/ Verify(d)
    BY <2>7, UploadSteps DEF PutFile, Throttled, Refused, Stored, Verify, server
  <2>8. CASE Confirmed(d) \/ Save(d) BY <2>8, RebindStep DEF Confirmed, Save, server
  <2>9. CASE Install(d) \/ Opened(d) BY <2>9, InstallSteps DEF Install, Opened, server
  <2>10. QED BY <2>1, <2>2, <2>3, <2>4, <2>5, <2>6, <2>7, <2>8, <2>9 DEF ExchangeStep
<1>3. CASE UNCHANGED xvars
  <2> USE <1>3 DEF xvars, server, local, past
  <2>1. Types' BY DEF IInv, Types
  <2>2. CopiesInOrder' BY DEF IInv, CopiesInOrder, Used
  <2>3. ConfigsSound' BY DEF IInv, ConfigsSound, Sound, OnServer
  <2>4. RunsSound' BY DEF IInv, RunsSound, RunSound, Active, OnServer
  <2>5. WireSound' BY DEF IInv, WireSound
  <2>6. QED BY <2>1, <2>2, <2>3, <2>4, <2>5 DEF IInv
<1>4. QED BY <1>1, <1>2, <1>3 DEF ExchangeNext

LEMMA Inductive == ExchangeSpec => []IInv
<1>1. IInv /\ [ExchangeNext]_xvars => IInv' BY StepIInv
<1>2. QED BY InitIInv, <1>1, PTL DEF ExchangeSpec

(* Whatever replaces the file on the server holds every edit it held: for any *)
(* number of devices, however late a request is served and whatever was lost  *)
(* on the way (put and verify_upload of sync.rs and webdav.rs).               *)
THEOREM NothingIsOverwritten == ExchangeSpec => NothingOverwritten
<1>1. IInv /\ [ExchangeNext]_xvars => [remoteFile.edits \subseteq remoteFile'.edits]_xvars BY StepIInv
<1>2. QED BY Inductive, <1>1, PTL DEF ExchangeSpec, NothingOverwritten

(* A synchronisation replaces the copy in use only by one with all its edits  *)
(* (synchronize of sync.rs).                                                  *)
THEOREM NoEditIsLeftBehind == ExchangeSpec => []NoEditLeftBehind
<1>1. IInv => NoEditLeftBehind BY OnlyRemoteLeavesNothing DEF NoEditLeftBehind
<1>2. QED BY Inductive, <1>1, PTL

(* A run that reports "up to date" has compared two files with the same edits *)
(* (synchronize of sync.rs).                                                  *)
THEOREM UpToDateMeansSame == ExchangeSpec => []UpToDateIsSame
<1>1. IInv => UpToDateIsSame BY SameMeansSame DEF UpToDateIsSame
<1>2. QED BY Inductive, <1>1, PTL

=============================================================================
