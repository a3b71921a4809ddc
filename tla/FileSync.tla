------------------------------ MODULE FileSync ------------------------------
(* src/sync.rs with src/webdav.rs: devices that share one vault as one file   *)
(* on a WebDAV server, for a remote without a .sync tree.  The file is        *)
(* replaced as a whole.  A binding in the configuration says which remote     *)
(* bytes and which local bytes were the same at the last exchange; what moved *)
(* since then on which side decides what a synchronisation does, and an ETag  *)
(* keeps an upload from replacing bytes that nobody here has seen.            *)
EXTENDS Naturals, FiniteSets

CONSTANTS
    Machine,
    Maker,       \* the device that made the vault
    MaxCopies,   \* bound of the model: copies of the vault on a device
    MaxMoves     \* bound of the model: edits, faults, switches and repeated
                \* opens, taken together

EditId == 0..MaxMoves  \* edit 0 made the vault
CopyId == 1..MaxCopies
NoCopy == 0

ASSUME FileSyncAssumption ==
    /\ Maker \in Machine /\ IsFiniteSet(Machine)
    /\ MaxCopies \in Nat \ {0} /\ MaxMoves \in Nat

(* The bytes of a vault file: what was edited, and which of the forms of that *)
(* content they are, for an installed copy need not have the bytes that it    *)
(* was installed from.  A SHA-256 stands for the bytes, and so does an ETag.  *)
Bytes == [edits : SUBSET EditId, form : {"written", "installed"}]
NoBytes == [edits |-> {}, form |-> "none"]
MaybeBytes == Bytes \cup {NoBytes}

(* RemoteBinding: the digests of both sides at the last exchange.             *)
Binding == [remote : MaybeBytes, local : MaybeBytes]
NoBinding == [remote |-> NoBytes, local |-> NoBytes]

(* A configuration, as far as it matters here: the copy and its binding.      *)
Config == [file : CopyId \cup {NoCopy}, binding : Binding]
NoConfig == [file |-> NoCopy, binding |-> NoBinding]

(* A conditional PUT: the ETag it asks for, NoBytes for If-None-Match, and    *)
(* whether its sender has stopped waiting for it.                             *)
Request == [from : Machine, match : MaybeBytes, bytes : MaybeBytes, late : BOOLEAN]

ExchangeStages == {"idle", "get", "decide", "put", "wait", "verify", "save", "open"}
Results == {"none", "up_to_date", "uploaded", "downloaded", "published", "opened",
            "conflict", "unknown", "failed"}
Exchange == [pc : ExchangeStages, snapshot : MaybeBytes, read : MaybeBytes, etag : BOOLEAN,
        match : MaybeBytes, publishes : BOOLEAN]
AtRest == [pc |-> "idle", snapshot |-> NoBytes, read |-> NoBytes, etag |-> FALSE,
         match |-> NoBytes, publishes |-> FALSE]

VARIABLES
    remoteFile,    \* the file on the server
    wire,      \* requests the server has not served
    replies,   \* the answers on their way back: <<device, status>>
    copy,      \* the local copies, indexed [device, file]
    settings,  \* the configuration file of a device
    saved,     \* the configurations in its history folder
    exchange,  \* the synchronisation under its broker lock
    result,    \* how the last one ended
    lastEdit, mishaps \* history: edits made, and what else the bound counts

server == <<remoteFile, wire, replies>>
local == <<copy, settings, saved>>
past == <<lastEdit, mishaps>>
xvars == <<server, local, exchange, result, past>>

ExchangeTypeOK ==
    /\ remoteFile \in MaybeBytes
    /\ wire \subseteq Request
    /\ replies \subseteq Machine \X {"stored", "refused"}
    /\ copy \in [Machine \X CopyId -> MaybeBytes]
    /\ settings \in [Machine -> Config]
    /\ \A d \in Machine : settings[d].file # NoCopy => copy[<<d, settings[d].file>>] # NoBytes
    /\ saved \in [Machine -> SUBSET Config]
    /\ exchange \in [Machine -> Exchange]
    /\ result \in [Machine -> Results]
    /\ lastEdit \in EditId /\ mishaps \in 0..MaxMoves

MoreMoves == lastEdit + mishaps < MaxMoves
Active(d) == copy[<<d, settings[d].file>>]
Used(d) == {f \in CopyId : copy[<<d, f>>] # NoBytes}

ExchangeInit ==
    /\ remoteFile = NoBytes /\ wire = {} /\ replies = {}
    /\ copy = [p \in Machine \X CopyId |->
                 IF p = <<Maker, 1>> THEN [edits |-> {0}, form |-> "written"] ELSE NoBytes]
    /\ settings = [d \in Machine |-> IF d = Maker THEN [NoConfig EXCEPT !.file = 1] ELSE NoConfig]
    /\ saved = [d \in Machine |-> {}]
    /\ exchange = [d \in Machine |-> AtRest]
    /\ result = [d \in Machine |-> "none"]
    /\ lastEdit = 0 /\ mishaps = 0

Becomes(d, r) == exchange' = [exchange EXCEPT ![d] = r]
Ends(d, r) == Becomes(d, AtRest) /\ result' = [result EXCEPT ![d] = r]
-----------------------------------------------------------------------------
(* A person's work, under the broker lock and so not during a run.            *)
EditVault(d) ==
    /\ exchange[d].pc = "idle" /\ settings[d].file # NoCopy /\ MoreMoves
    /\ lastEdit' = lastEdit + 1
    /\ copy' = [copy EXCEPT ![<<d, settings[d].file>>] =
                  [edits |-> @.edits \cup {lastEdit'}, form |-> "written"]]
    /\ UNCHANGED <<server, settings, saved, exchange, result, mishaps>>

(* databases::switch: an earlier configuration, its binding with it.          *)
SwitchBack(d, c) ==
    /\ exchange[d].pc = "idle" /\ c \in saved[d] /\ MoreMoves
    /\ settings' = [settings EXCEPT ![d] = c]
    /\ saved' = [saved EXCEPT ![d] = @ \cup {settings[d]}]
    /\ mishaps' = mishaps + 1
    /\ UNCHANGED <<server, copy, exchange, result, lastEdit>>
-----------------------------------------------------------------------------
Unconditionally(q) == TRUE

(* The server takes a request when its condition holds, and answers.  The     *)
(* device may have stopped listening by then.                                 *)
Holds(q) == remoteFile = q.match
Serve(q) ==
    /\ wire' = wire \ {q}
    /\ remoteFile' = IF Holds(q) THEN q.bytes ELSE remoteFile
    /\ replies' = IF q.late THEN replies
                  ELSE replies \cup {<<q.from, IF Holds(q) THEN "stored" ELSE "refused">>}
    /\ UNCHANGED <<local, exchange, result, past>>

(* The device no longer waits: its request is late now, and an answer lost.   *)
Abandon(d) ==
    /\ wire' = {[q EXCEPT !.late = @ \/ q.from = d] : q \in wire}
    /\ replies' = {r \in replies : r[1] # d}

(* The connection breaks, the wait times out, the process dies: whatever was  *)
(* sent may still be served.                                                  *)
BreakOff(d) ==
    /\ exchange[d].pc # "idle" /\ MoreMoves
    /\ mishaps' = mishaps + 1
    /\ Abandon(d)
    /\ Ends(d, IF exchange[d].pc \in {"wait", "verify"} THEN "unknown" ELSE "failed")
    /\ UNCHANGED <<remoteFile, local, lastEdit>>
-----------------------------------------------------------------------------
(* synchronize: the lock, a snapshot of the copy, the binding.                *)
Synchronize(d) ==
    /\ exchange[d].pc = "idle" /\ settings[d].binding # NoBinding
    /\ Becomes(d, [AtRest EXCEPT !.pc = "get", !.snapshot = Active(d)])
    /\ UNCHANGED <<server, local, result, past>>

(* publish, to a name where there is no file yet.                             *)
Publish(d) ==
    /\ exchange[d].pc = "idle" /\ settings[d].file # NoCopy /\ settings[d].binding = NoBinding
    /\ Becomes(d, [AtRest EXCEPT !.pc = "put", !.snapshot = Active(d), !.publishes = TRUE])
    /\ UNCHANGED <<server, local, result, past>>

(* A download: the bytes with their ETag, which a server need not send.       *)
Get(d) ==
    /\ exchange[d].pc = "get" /\ remoteFile # NoBytes
    /\ \E strong \in IF MoreMoves THEN BOOLEAN ELSE {TRUE} :
          /\ Becomes(d, [exchange[d] EXCEPT !.pc = "decide", !.read = remoteFile, !.etag = strong])
          /\ mishaps' = IF strong THEN mishaps ELSE mishaps + 1
    /\ UNCHANGED <<server, local, result, lastEdit>>

LocalChanged(d) == exchange[d].snapshot # settings[d].binding.local
RemoteChanged(d) == exchange[d].read # settings[d].binding.remote
RemoteUnchanged(d) == exchange[d].read = exchange[d].snapshot \/ ~ RemoteChanged(d)

(* An upload whose answer or whose save was lost is found out here.           *)
Same(d) ==
    \/ exchange[d].read = exchange[d].snapshot
    \/ ~ LocalChanged(d) /\ ~ RemoteChanged(d)

Confirmed(d) ==
    /\ exchange[d].pc = "decide" /\ Same(d)
    /\ settings' = [settings EXCEPT ![d].binding =
                    [remote |-> exchange[d].read, local |-> exchange[d].snapshot]]
    /\ Ends(d, "up_to_date")
    /\ UNCHANGED <<server, copy, saved, past>>

BothChanged(d) == ~ Same(d) /\ LocalChanged(d) /\ RemoteChanged(d)
Conflict(d) ==
    /\ exchange[d].pc = "decide" /\ BothChanged(d)
    /\ Ends(d, "conflict")
    /\ UNCHANGED <<server, local, past>>

OnlyLocal(d) == ~ Same(d) /\ LocalChanged(d) /\ ~ RemoteChanged(d)
Unversioned(d) ==
    /\ exchange[d].pc = "decide" /\ OnlyLocal(d) /\ ~ exchange[d].etag
    /\ Ends(d, "failed")
    /\ UNCHANGED <<server, local, past>>
Prepare(d) ==
    /\ exchange[d].pc = "decide" /\ OnlyLocal(d) /\ exchange[d].etag
    /\ Becomes(d, [exchange[d] EXCEPT !.pc = "put", !.match = exchange[d].read])
    /\ UNCHANGED <<server, local, result, past>>

(* put: If-Match with the ETag of what was read, If-None-Match: * to publish. *)
PutFile(d) ==
    /\ exchange[d].pc = "put"
    /\ wire' = wire \cup {[from |-> d, match |-> exchange[d].match, bytes |-> exchange[d].snapshot,
                              late |-> FALSE]}
    /\ Becomes(d, [exchange[d] EXCEPT !.pc = "wait"])
    /\ UNCHANGED <<remoteFile, replies, local, result, past>>

(* 429 or 503: only If-None-Match is sent again, as nobody can be overwritten.*)
Throttled(d) ==
    /\ exchange[d].pc = "wait" /\ MoreMoves
    /\ mishaps' = mishaps + 1
    /\ IF exchange[d].publishes
       THEN Becomes(d, [exchange[d] EXCEPT !.pc = "put"]) /\ UNCHANGED result
       ELSE Ends(d, "unknown")
    /\ Abandon(d)
    /\ UNCHANGED <<remoteFile, local, lastEdit>>

Refused(d) ==
    /\ exchange[d].pc = "wait" /\ <<d, "refused">> \in replies
    /\ replies' = {r \in replies : r[1] # d}
    /\ Ends(d, "conflict")
    /\ UNCHANGED <<remoteFile, wire, local, past>>

Stored(d) ==
    /\ exchange[d].pc = "wait" /\ <<d, "stored">> \in replies
    /\ replies' = {r \in replies : r[1] # d}
    /\ Becomes(d, [exchange[d] EXCEPT !.pc = "verify"])
    /\ UNCHANGED <<remoteFile, wire, local, result, past>>

(* verify_upload: a reply is no proof; the file is read once more.            *)
Proves(d, bytes) == bytes = exchange[d].snapshot
Verify(d) ==
    /\ exchange[d].pc = "verify" /\ remoteFile # NoBytes
    /\ IF Proves(d, remoteFile)
       THEN Becomes(d, [exchange[d] EXCEPT !.pc = "save", !.read = remoteFile]) /\ UNCHANGED result
       ELSE Ends(d, "unknown")
    /\ UNCHANGED <<server, local, past>>

Save(d) ==
    /\ exchange[d].pc = "save"
    /\ settings' = [settings EXCEPT ![d].binding =
                    [remote |-> exchange[d].read, local |-> exchange[d].snapshot]]
    /\ Ends(d, IF exchange[d].publishes THEN "published" ELSE "uploaded")
    /\ UNCHANGED <<server, copy, saved, past>>
-----------------------------------------------------------------------------
(* install makes a copy of its own, whose bytes may take another form; the    *)
(* configuration that it replaces goes to the history.                        *)
Installed(bytes) == {bytes, [bytes EXCEPT !.form = "installed"]}
Configure(d, bytes) ==
    LET f == Cardinality(Used(d)) + 1 IN
    /\ f \in CopyId
    /\ \E installed \in Installed(bytes) :
          /\ copy' = [copy EXCEPT ![<<d, f>>] = installed]
          /\ settings' = [settings EXCEPT ![d] =
               [file |-> f, binding |-> [remote |-> bytes, local |-> installed]]]
    /\ saved' = [saved EXCEPT ![d] = IF settings[d] = NoConfig THEN @ ELSE @ \cup {settings[d]}]

AnythingNew(d) == ~ Same(d) /\ RemoteChanged(d)
OnlyRemote(d) == ~ Same(d) /\ ~ LocalChanged(d) /\ RemoteChanged(d)
Install(d) ==
    /\ exchange[d].pc = "decide" /\ OnlyRemote(d)
    /\ Configure(d, exchange[d].read)
    /\ Ends(d, "downloaded")
    /\ UNCHANGED <<server, past>>

(* open_remote: a person takes what is on the server, whatever is here.       *)
OpenRemote(d) ==
    /\ exchange[d].pc = "idle"
    /\ settings[d].file # NoCopy => MoreMoves
    /\ mishaps' = IF settings[d].file # NoCopy THEN mishaps + 1 ELSE mishaps
    /\ Becomes(d, [AtRest EXCEPT !.pc = "open"])
    /\ UNCHANGED <<server, local, result, lastEdit>>
Opened(d) ==
    /\ exchange[d].pc = "open" /\ remoteFile # NoBytes
    /\ Configure(d, remoteFile)
    /\ Ends(d, "opened")
    /\ UNCHANGED <<server, past>>

Absent(d) ==
    /\ exchange[d].pc \in {"get", "open"} /\ remoteFile = NoBytes
    /\ Ends(d, "failed")
    /\ UNCHANGED <<server, local, past>>

ExchangeStep(d) ==
    \/ Get(d) \/ Absent(d) \/ Confirmed(d) \/ Conflict(d) \/ Unversioned(d) \/ Prepare(d)
    \/ PutFile(d) \/ Refused(d) \/ Stored(d) \/ Verify(d) \/ Save(d)
    \/ Install(d) \/ Opened(d)

ExchangeNext ==
    \/ \E q \in wire : Serve(q)
    \/ \E d \in Machine :
        \/ EditVault(d) \/ Synchronize(d) \/ Publish(d) \/ OpenRemote(d)
        \/ \E c \in saved[d] : SwitchBack(d, c)
        \/ ExchangeStep(d) \/ Throttled(d) \/ BreakOff(d)

(* People go on synchronising, publishing and, without a copy, opening; a run *)
(* that is not stopped goes on; the server serves what reaches it.            *)
ExchangeFairness ==
    /\ WF_xvars(\E q \in wire : Serve(q))
    /\ \A d \in Machine :
        /\ WF_xvars(Synchronize(d) \/ Publish(d))
        /\ WF_xvars(settings[d].file = NoCopy /\ OpenRemote(d))
        /\ WF_xvars(ExchangeStep(d))

ExchangeSpec == ExchangeInit /\ [][ExchangeNext]_xvars /\ ExchangeFairness
-----------------------------------------------------------------------------
(* Nobody's work is overwritten unseen: whatever replaces the remote file     *)
(* holds every edit that it held, however late a request is served and        *)
(* whichever copy it was made from (sync.rs:662).                             *)
NothingOverwritten == [][remoteFile.edits \subseteq remoteFile'.edits]_xvars

(* A synchronisation replaces the copy in use only by one with all its edits. *)
NoEditLeftBehind ==
    \A d \in Machine : exchange[d].pc = "decide" /\ OnlyRemote(d) =>
        Active(d).edits \subseteq exchange[d].read.edits

(* "Up to date" means that the copy and the remote file that was read hold    *)
(* the same edits, also when an upload whose answer was lost is recovered.    *)
UpToDateIsSame ==
    \A d \in Machine : exchange[d].pc = "decide" /\ Same(d) =>
        Active(d).edits = exchange[d].read.edits

(* In the end, with no new edits, the devices hold the same vault, or one of  *)
(* them has told of a conflict: nobody waits, reports success, and differs.   *)
InConflict(d) == result[d] = "conflict"
FilesConverge ==
    <>[](\/ \E d \in Machine : InConflict(d)
         \/ \A d \in Machine : settings[d].file # NoCopy /\ Active(d).edits = remoteFile.edits)
=============================================================================
