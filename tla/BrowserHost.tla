---------------------------- MODULE BrowserHost ----------------------------
(* The native messaging hosts of the browsers (browser.rs) and the receipts   *)
(* they share (browser/receipts.rs).  Each browser starts a process of its    *)
(* own; a person unlocks it, it forgets the unlock when idle, and every       *)
(* mutation carries an operation id that must take effect at most once,       *)
(* however often the extension sends it and whatever dies in between.         *)
(* Every change is made under the broker lock, for which lock_broker waits    *)
(* 50 s at most: whoever may hold it, each wait here can also fail.  Beside   *)
(* the hosts other commands of the same account open another database.        *)
EXTENDS Naturals, Sequences, FiniteSets

CONSTANTS
    Hosts, NoHost,      \* native host processes, one per browser
    Ids,                \* operation ids the extensions make up
    OldId,              \* one of an earlier day, whose receipt may be kept
    Databases, NoDb,    \* database files the configuration knows
    VaultOf,            \* the vault id inside each file: two may be copies
    Limit               \* receipts kept (LIMIT = 4096)

VARIABLES
    active,     \* the database the configuration names
    rlock,      \* the host that holds the lock on the receipts
    disk,       \* the receipts file: a record per consumed id
    durable,    \* what of it survives a loss of power
    host,       \* per host: the session, and the request it executes
    effects     \* history: for each id the times it took effect

bvars == <<active, rlock, disk, durable, host, effects>>

NoSession == [path |-> NoDb, vault |-> NoDb]
Vaults == {VaultOf[d] : d \in Databases}
Blank == [session |-> NoSession, stale |-> FALSE, pc |-> "idle", op |-> "none",
          id |-> NoDb, target |-> NoDb, vault |-> NoDb, want |-> NoDb,
          outcome |-> "none", said |-> "nothing"]

HostTypeOK ==
    /\ active \in Databases /\ rlock \in Hosts \cup {NoHost}
    /\ \A f \in {disk, durable} :
        /\ DOMAIN f \subseteq Ids \cup {OldId}
        /\ Cardinality(DOMAIN f) <= Limit
        /\ \A i \in DOMAIN f : f[i].vault \in Vaults /\ f[i].op \in {"edit", "switch"}
    /\ \A h \in Hosts : (rlock = h) <=> (host[h].pc \in {"entering", "applying", "finishing"})

HostInit ==
    /\ active \in Databases
    /\ rlock = NoHost
    /\ disk \in {<<>>} \cup [{OldId} -> [vault : Vaults, op : {"edit"}, completed : {TRUE}]]
    /\ durable = disk
    /\ host = [h \in Hosts |-> Blank]
    /\ effects = [i \in Ids |-> <<>>]

----------------------------------------------------------------------------
(* Helpers.                                                                   *)

Sealed(s) == [s EXCEPT !.session = NoSession, !.stale = FALSE]
expire(s) == IF s.stale THEN Sealed(s) ELSE s

(* The reply to a request; after UnlockRequired and ObjectChanged ("lock")    *)
(* serve drops the session.                                                   *)
Reply(s, word) ==
    [(IF word = "lock" THEN Sealed(s) ELSE s) EXCEPT
        !.pc = "idle", !.op = "none", !.id = NoDb, !.target = NoDb, !.vault = NoDb,
        !.want = NoDb, !.outcome = "none", !.said = "nothing"]

(* A reply about the operation i in the vault v.  "unconfirmed" claims        *)
(* nothing and is not kept.                                                   *)
Told(s, word, i, v) ==
    IF word = "unconfirmed" THEN Reply(s, word)
    ELSE [Reply(s, word) EXCEPT !.id = i, !.vault = v, !.said = word]

(* Vault::open for a session: the file the configuration names now has to be  *)
(* the one that was unlocked, and to hold the same vault.                     *)
Expected(session) == active = session.path /\ VaultOf[active] = session.vault

(* Receipts::save.  A save that fails may have replaced the file already; it  *)
(* is then not known to survive a loss of power.                              *)
Wrote(f) == disk' = f /\ durable' = f
SaveFailed(f) == disk' \in {disk, f} /\ UNCHANGED durable

Become(h, s) == host' = [host EXCEPT ![h] = s]

----------------------------------------------------------------------------
(* The session.                                                               *)

(* Request::Unlock: the old session goes first, the broker is locked, the     *)
(* path is read ...                                                           *)
UnlockStarts(h) ==
    /\ host[h].pc = "idle"
    /\ Become(h, [Sealed(host[h]) EXCEPT !.pc = "unlocking", !.target = active, !.said = "nothing"])
    /\ UNCHANGED <<active, rlock, disk, durable, effects>>

(* ... and the vault is opened, under the lock and by a second look at the    *)
(* configuration; the snapshot that answers the request opens it once more    *)
(* with the new session and meets a database that changed in between.  When   *)
(* the snapshot fails in any other way the session stays; one that took its   *)
(* path and its vault from different databases fits none and is left out.     *)
UnlockEnds(h) ==
    LET s == host[h] IN
    /\ s.pc = "unlocking"
    /\ \/ /\ active = s.target
          /\ Become(h, [Reply(s, "unlocked") EXCEPT
                            !.session = [path |-> s.target, vault |-> VaultOf[active]]])
       \/ active # s.target /\ Become(h, Reply(s, "lock"))
       \/ Become(h, Reply(s, "error"))
       \/ /\ VaultOf[active] = VaultOf[s.target]
          /\ Become(h, [Reply(s, "error") EXCEPT
                            !.session = [path |-> s.target, vault |-> VaultOf[active]]])
    /\ UNCHANGED <<active, rlock, disk, durable, effects>>

(* Five idle minutes or a quarter of an hour in all are over.                 *)
TimePasses(h) ==
    /\ host[h].session # NoSession /\ ~host[h].stale
    /\ Become(h, [host[h] EXCEPT !.stale = TRUE, !.said = "nothing"])
    /\ UNCHANGED <<active, rlock, disk, durable, effects>>

(* The look at the clock that serve takes every second between frames, and    *)
(* Request::Lock.                                                             *)
Forget(h) ==
    /\ host[h].pc = "idle" /\ host[h].session # NoSession
    /\ Become(h, [Sealed(host[h]) EXCEPT !.said = "nothing"])
    /\ UNCHANGED <<active, rlock, disk, durable, effects>>

----------------------------------------------------------------------------
(* A mutation.                                                                *)

(* A frame with a mutation arrives: the first look at the clock.  "edit" is   *)
(* every change inside the unlocked database, "switch" opens another one.     *)
Ask(h, op, i, d) ==
    LET s == expire(host[h]) IN
    /\ s.pc = "idle"
    /\ IF op = "switch" THEN d \in Databases ELSE d = NoDb
    /\ Become(h, [s EXCEPT !.pc = "naming", !.op = op, !.id = i, !.target = d, !.said = "nothing",
                           !.want = IF op = "switch" THEN d ELSE s.session.path])
    /\ UNCHANGED <<active, rlock, disk, durable, effects>>

(* The vault the receipt will name: the one behind the session, or the saved  *)
(* database the factors of the request open.                                  *)
Name(h) ==
    LET s == host[h] IN
    /\ s.pc = "naming"
    /\ \/ /\ s.op = "switch" /\ s.target # active
          /\ Become(h, [s EXCEPT !.pc = "journal", !.vault = VaultOf[s.target]])
       \/ /\ s.op = "edit" /\ s.session # NoSession /\ Expected(s.session)
          /\ Become(h, [s EXCEPT !.pc = "journal", !.vault = s.session.vault])
       \/ /\ s.op = "switch" => s.target = active
          /\ s.op = "edit" => s.session = NoSession \/ ~Expected(s.session)
          /\ Become(h, Reply(s, IF s.op = "edit" THEN "lock" ELSE "error"))
       \/ Become(h, Reply(s, "error"))
    /\ UNCHANGED <<active, rlock, disk, durable, effects>>

Receipt(s) == [vault |-> s.vault, op |-> s.op, completed |-> FALSE]

(* A mutant of StatusOf: a receipt alone counts as success.                   *)
RecordedIsDone(r) == "succeeded"

StatusOf(r) == IF r.completed THEN "succeeded" ELSE "unconfirmed"

(* Receipts::open and begin.  The lock is held to the end of execute.         *)
BusyReceipts(h) ==
    /\ host[h].pc = "journal" /\ rlock # NoHost
    /\ Become(h, Reply(host[h], "error"))
    /\ UNCHANGED <<active, rlock, disk, durable, effects>>

(* The id has been used: its state is told and nothing is executed.           *)
Repeated(h) ==
    LET s == host[h] IN
    /\ s.pc = "journal" /\ rlock = NoHost /\ s.id \in DOMAIN disk
    /\ Become(h, IF disk[s.id].vault = s.vault /\ disk[s.id].op = s.op
                   THEN Told(s, StatusOf(disk[s.id]), s.id, s.vault)
                   ELSE Reply(s, "lock"))
    /\ UNCHANGED <<active, rlock, disk, durable, effects>>

Full(h) ==
    /\ host[h].pc = "journal" /\ rlock = NoHost
    /\ host[h].id \notin DOMAIN disk /\ Cardinality(DOMAIN disk) >= Limit
    /\ Become(h, Reply(host[h], "error"))
    /\ UNCHANGED <<active, rlock, disk, durable, effects>>

Extended(s) == [i \in DOMAIN disk \cup {s.id} |-> IF i = s.id THEN Receipt(s) ELSE disk[i]]

BeginRequest(h) ==
    LET s == host[h] IN
    /\ s.pc = "journal" /\ rlock = NoHost
    /\ s.id \notin DOMAIN disk /\ Cardinality(DOMAIN disk) < Limit
    /\ \/ Wrote(Extended(s)) /\ rlock' = h /\ Become(h, [s EXCEPT !.pc = "entering"])
       \/ SaveFailed(Extended(s)) /\ Become(h, Reply(s, "error")) /\ UNCHANGED rlock
    /\ UNCHANGED <<active, effects>>

(* dispatch: a second look at the clock, then lock_broker.  A switch drops    *)
(* the session first.                                                         *)
Enter(h) ==
    LET s == IF host[h].op = "switch" THEN Sealed(host[h]) ELSE expire(host[h]) IN
    /\ s.pc = "entering"
    /\ \/ /\ s.op = "edit" /\ s.session = NoSession
          /\ Become(h, [s EXCEPT !.pc = "finishing", !.outcome = "lock"])
       \/ /\ s.op = "switch" \/ s.session # NoSession
          /\ \/ Become(h, [s EXCEPT !.pc = "applying"])
             \/ Become(h, [s EXCEPT !.pc = "finishing", !.outcome = "error"])
    /\ UNCHANGED <<active, rlock, disk, durable, effects>>

Happened(s, d) == effects' = [effects EXCEPT ![s.id] = Append(@, [in |-> d, for |-> s.want])]

(* After a third look at the clock the management function takes the broker   *)
(* lock, opens the vault as the session expects it and changes it.  It may    *)
(* fail before or after its change; Sync drops the session when it succeeds.  *)
EditEntry(h) ==
    LET s == expire(host[h]) IN
    /\ s.pc = "applying" /\ s.op = "edit"
    /\ \/ /\ s.session = NoSession \/ ~Expected(s.session)
          /\ Become(h, [s EXCEPT !.pc = "finishing", !.outcome = "lock"])
          /\ UNCHANGED effects
       \/ /\ s.session # NoSession
          /\ Become(h, [s EXCEPT !.pc = "finishing", !.outcome = "error"])
          /\ UNCHANGED effects
       \/ /\ s.session # NoSession /\ Expected(s.session)
          /\ \E done \in {[s EXCEPT !.outcome = "ok"], [s EXCEPT !.outcome = "error"],
                          [Sealed(s) EXCEPT !.outcome = "ok"]} :
                Become(h, [done EXCEPT !.pc = "finishing"])
          /\ Happened(s, active)
    /\ UNCHANGED <<active, rlock, disk, durable>>

(* databases::switch replaces the configuration under the broker lock.        *)
Switch(h) ==
    LET s == host[h] IN
    /\ s.pc = "applying" /\ s.op = "switch"
    /\ \/ /\ Become(h, [s EXCEPT !.pc = "finishing", !.outcome = "error"])
          /\ UNCHANGED <<active, effects>>
       \/ /\ \E word \in {"ok", "error"} : Become(h, [s EXCEPT !.pc = "finishing", !.outcome = word])
          /\ active' = s.target
          /\ Happened(s, s.target)
    /\ UNCHANGED <<rlock, disk, durable>>

(* A mutant of Finish: a failed operation gives its id back.                  *)
FinishForgets(h) ==
    LET s == host[h]
        f == IF s.outcome = "ok" THEN [disk EXCEPT ![s.id].completed = TRUE]
             ELSE [i \in DOMAIN disk \ {s.id} |-> disk[i]] IN
    /\ s.pc = "finishing"
    /\ Wrote(f)
    /\ Become(h, Reply(s, s.outcome))
    /\ rlock' = NoHost
    /\ UNCHANGED <<active, effects>>

(* Receipts::finish, the reply, and the lock on the receipts let go.          *)
Finish(h) ==
    LET s == host[h]
        f == [disk EXCEPT ![s.id].completed = (s.outcome = "ok")] IN
    /\ s.pc = "finishing"
    /\ \/ /\ Wrote(f)
          /\ Become(h, IF s.outcome = "ok"
                         THEN Told(s, "succeeded", s.id, s.vault)
                         ELSE Reply(s, s.outcome))
       \/ SaveFailed(f) /\ Become(h, Reply(s, "error"))
    /\ rlock' = NoHost
    /\ UNCHANGED <<active, effects>>

(* Request::OperationStatus: under the same locks, in the vault of the        *)
(* session.                                                                   *)
OperationStatus(h, i) ==
    LET s == expire(host[h]) IN
    /\ s.pc = "idle" /\ rlock = NoHost
    /\ Become(h, IF s.session = NoSession \/ ~Expected(s.session) THEN Reply(s, "lock")
                 ELSE IF i \notin DOMAIN disk
                   THEN Told(s, "not_recorded", i, s.session.vault)
                 ELSE IF disk[i].vault # s.session.vault THEN Reply(s, "lock")
                 ELSE Told(s, StatusOf(disk[i]), i, s.session.vault))
    /\ UNCHANGED <<active, rlock, disk, durable, effects>>

----------------------------------------------------------------------------
(* Around the hosts.                                                          *)

(* A browser closes its port, sends a frame the host gives up on, or kills    *)
(* it: the process ends, with its session and its lock.                       *)
HostDies(h) ==
    /\ host[h] # Blank
    /\ Become(h, Blank)
    /\ rlock' = IF rlock = h THEN NoHost ELSE rlock
    /\ UNCHANGED <<active, disk, durable, effects>>

(* The machine loses power: what was not known to be on disk may be gone.     *)
PowerLoss ==
    /\ host' = [h \in Hosts |-> Blank]
    /\ rlock' = NoHost
    /\ disk' \in {disk, durable} /\ durable' = disk'
    /\ UNCHANGED <<active, effects>>

(* Another command opens another database, under the broker lock.             *)
OthersSwitch(d) ==
    /\ d # active
    /\ active' = d
    /\ UNCHANGED <<rlock, disk, durable, host, effects>>

Step(h) ==
    \/ UnlockStarts(h) \/ UnlockEnds(h) \/ TimePasses(h) \/ Forget(h)
    \/ \E op \in {"edit", "switch"}, i \in Ids, d \in Databases \cup {NoDb} : Ask(h, op, i, d)
    \/ Name(h) \/ BusyReceipts(h) \/ Repeated(h) \/ Full(h) \/ BeginRequest(h)
    \/ Enter(h) \/ EditEntry(h) \/ Switch(h) \/ Finish(h)
    \/ \E i \in Ids : OperationStatus(h, i)
    \/ HostDies(h)

HostNext ==
    \/ \E h \in Hosts : Step(h)
    \/ PowerLoss
    \/ \E d \in Databases : OthersSwitch(d)

HostSpec == HostInit /\ [][HostNext]_bvars

----------------------------------------------------------------------------
(* Properties.                                                                *)

(* Whatever is sent again, through whichever browser, and whatever dies in    *)
(* between, an operation id takes effect at most once, and only after its     *)
(* receipt is on the disk to stay: even a loss of power leaves it consumed.   *)
(* It lands in the database the person had unlocked when asking (or named,    *)
(* for a switch), although another browser or a command may open another at   *)
(* any moment, and the receipt names that vault.                              *)
OnceWhereMeant ==
    \A i \in Ids :
        /\ Len(effects[i]) <= 1
        /\ effects[i] # <<>> => i \in DOMAIN disk /\ i \in DOMAIN durable
        /\ \A n \in 1..Len(effects[i]) :
            LET e == effects[i][n] IN
            e.in = e.for /\ disk[i].vault = VaultOf[e.in]

(* What an extension is told of an operation is true in the vault it is told  *)
(* for: "succeeded" only of what took effect there, and "not_recorded" only   *)
(* of what has not, so that sending it anew is right.                         *)
TruthfulReplies ==
    [][\A h \in Hosts : \A i \in Ids :
        host'[h] # host[h] /\ host'[h].id = i =>
            /\ host'[h].said = "succeeded" =>
                   \E n \in DOMAIN effects'[i] : VaultOf[effects'[i][n].in] = host'[h].vault
            /\ host'[h].said = "not_recorded" => effects'[i] = <<>>]_bvars
=============================================================================
