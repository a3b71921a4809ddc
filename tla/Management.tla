----------------------------- MODULE Management -----------------------------
(* src/admin.rs and src/config.rs: what a person's processes do to the files  *)
(* of the gateway.  Each operation changes two or three of them in turn: the  *)
(* configuration with its connections and grants, the encrypted vault, the    *)
(* client file that carries a grant's capability, the lock marker.  Two OS    *)
(* locks order the processes: the broker lock, which a running broker and     *)
(* every operation on the vault holds, and the configuration lock of          *)
(* ConfigStore::update, which a revocation takes alone.  Any write can fail,  *)
(* or reach the disk and report failure, and any process can die.             *)
EXTENDS Naturals, FiniteSets

CONSTANTS
    Procs, NoProc,
    Names,          \* names of grants
    Conns, NoConn,  \* names of connections
    Tasks, NoTask,  \* what processes are asked to do: [kind, name, conn]
    MaxFresh,       \* bound of the model: tokens, credentials, capabilities
    MaxFaults       \* bound of the model: failed writes and deaths

Kinds == {"add", "quick", "issue", "refresh", "revoke", "token", "delete", "merge",
          "serve", "lock"}
Issuing == {"issue", "quick"}   \* these create a client file, once
ASSUME ManagementAssumption ==
    /\ Tasks \subseteq [kind : Kinds, name : Names, conn : Conns]
    /\ NoTask \notin Tasks
    /\ NoProc \notin Procs
    /\ NoConn \notin Conns
    /\ MaxFresh \in Nat
    /\ MaxFaults \in Nat

(* Tokens, credential ids and capabilities are random in the code; here each  *)
(* is the next number, and 0 is none of them.                                 *)
Fresh == 1..MaxFresh
Row == [conn : Conns \cup {NoConn}, token : 0..MaxFresh]
NoRow == [conn |-> NoConn, token |-> 0]
Grant == [name : Names, conn : Conns, cred : Fresh, cap : Fresh, token : 0..MaxFresh]
(* Config::validate: a grant's connection is there, names and capabilities    *)
(* are its own.                                                               *)
Valid(c) ==
    /\ \A g \in c.grants : c.conns[g.conn] # 0
    /\ \A g, h \in c.grants : g.name = h.name \/ g.cap = h.cap => g = h
Config == {c \in [conns : [Conns -> 0..MaxFresh], grants : SUBSET Grant] : Valid(c)}
Nothing == [conns |-> [c \in Conns |-> 0], grants |-> {}]

(* checked .. undoing hold or are about to take the broker lock; starting ..  *)
(* serving are those of a broker; polling is lock_broker's wait.              *)
Stages == {"idle", "checked", "editing", "waiting", "acting", "writing", "saving",
           "undoing", "replacing", "starting", "opening", "serving", "polling"}

VARIABLES
    \* files
    config,     \* the configuration: conns[c] is the credential, 0 for none
    vault,      \* the encrypted rows, by credential id
    client,     \* client[n]: the capability in the client file of grant n
    marker,     \* the lock marker
    \* locks of the operating system
    brokerLock, configLock,
    \* memory of the processes
    stage, task,
    draft,      \* the configuration that update is about to write
    seen,       \* the vault as the running broker opened it
    \* counters of the model
    next, faults,
    \* history, which the program does not keep; so is a grant's token
    dead,       \* capabilities that stopped authenticating
    promised,   \* promised[n]: the capability of the last grant n answered with Ok
    imported    \* tokens that came from another device

files == <<config, vault, client, marker>>
locks == <<brokerLock, configLock>>
memory == <<stage, task, draft, seen>>
history == <<dead, promised, imported>>
vars == <<files, locks, memory, next, faults, history>>

(* Every configuration, a draft in memory included, is one that update's call *)
(* of validate accepts.                                                       *)
TypeOK ==
    /\ config \in Config
    /\ vault \in [Fresh -> Row]
    /\ client \in [Names -> 0..MaxFresh]
    /\ marker \in BOOLEAN
    /\ brokerLock \in Procs \cup {NoProc}
    /\ configLock \in Procs \cup {NoProc}
    /\ stage \in [Procs -> Stages]
    /\ task \in [Procs -> Tasks \cup {NoTask}]
    /\ draft \in [Procs -> Config]
    /\ seen \in [Fresh -> Row]
    /\ next \in 1..(MaxFresh + 1)
    /\ faults \in 0..MaxFaults
    /\ dead \subseteq Fresh
    /\ promised \in [Names -> 0..MaxFresh]
    /\ imported \subseteq Fresh
-----------------------------------------------------------------------------
Capabilities(c) == {g.cap : g \in c.grants}
Present(i) == vault[i].token # 0
Connected(c, n) == c.conns[n] # 0
Usable(c, n) == Connected(c, n) /\ Present(c.conns[n])
GrantsNamed(c, n) == {g \in c.grants : g.name = n}
GrantsOf(c, n) == {g \in c.grants : g.conn = n}
WithGrants(c, grants) == [conns |-> c.conns, grants |-> grants]
WithConn(c, n, i) == [conns |-> [c.conns EXCEPT ![n] = i], grants |-> c.grants]
Granted(p) == (CHOOSE g \in draft[p].grants : g.name = task[p].name).cap

(* gateway_inventory: the connections that the vault's rows describe, unless  *)
(* two rows claim one handle.                                                 *)
RowsOf(c) == {i \in Fresh : Present(i) /\ vault[i].conn = c}
Ambiguous == \E c \in Conns : Cardinality(RowsOf(c)) > 1
Inventory == [c \in Conns |-> IF RowsOf(c) = {} THEN 0 ELSE CHOOSE i \in RowsOf(c) : TRUE]

(* write_json: the file is replaced; or it is not; or it is, and the failing  *)
(* sync of its directory makes the caller believe that it is not.             *)
Saves == {"written", "failed", "unsynced"}
Reached(save) == save \in {"written", "unsynced"}
Costs(save) ==
    /\ save # "written" => faults < MaxFaults
    /\ faults' = IF save = "written" THEN faults ELSE faults + 1

Released(lock, p) == IF lock = p THEN NoProc ELSE lock
Move(p, to) == stage' = [stage EXCEPT ![p] = to]

(* The function returns or the process dies: its locks go, and what it knew.  *)
Return(p) ==
    /\ Move(p, "idle")
    /\ task' = [task EXCEPT ![p] = NoTask]
    /\ draft' = [draft EXCEPT ![p] = Nothing]
    /\ brokerLock' = Released(brokerLock, p)
    /\ configLock' = Released(configLock, p)

Init ==
    /\ config = Nothing
    /\ vault = [i \in Fresh |-> NoRow]
    /\ client = [n \in Names |-> 0]
    /\ marker = FALSE
    /\ brokerLock = NoProc
    /\ configLock = NoProc
    /\ stage = [p \in Procs |-> "idle"]
    /\ task = [p \in Procs |-> NoTask]
    /\ draft = [p \in Procs |-> Nothing]
    /\ seen = vault
    /\ next = 1
    /\ faults = 0
    /\ dead = {}
    /\ promised = [n \in Names |-> 0]
    /\ imported = {}
-----------------------------------------------------------------------------
(* start_using with the removal of the marker moved before the broker lock.   *)
MarkerForgottenAtBegin(t) ==
    IF t.kind = "lock" THEN TRUE ELSE IF t.kind = "serve" THEN FALSE ELSE marker
MarkerAtBegin(t) == IF t.kind = "lock" THEN TRUE ELSE marker

(* A person starts an operation.  issue_grant and quick_add look for the      *)
(* client file before they have any lock; revoke never takes the broker lock; *)
(* lock_broker writes the marker and then waits.                              *)
Begin(p, t) ==
    /\ stage[p] = "idle"
    /\ t.kind \in Issuing => client[t.name] = 0
    /\ task' = [task EXCEPT ![p] = t]
    /\ Move(p, CASE t.kind = "revoke" -> "waiting"
                 [] t.kind = "lock" -> "polling"
                 [] OTHER -> "checked")
    /\ marker' = MarkerAtBegin(t)
    /\ UNCHANGED <<config, vault, client, locks, draft, seen, next, faults, history>>

(* acquire_broker_lock: try_lock, and BrokerAlreadyRunning when it is held.   *)
AfterBrokerLock(kind) ==
    CASE kind \in {"delete", "merge"} -> "editing"
      [] kind = "serve" -> "starting"
      [] OTHER -> "waiting"
(* update_token without its guard, beside a running broker.                   *)
CanOwnVaultForToken(p) == brokerLock = NoProc \/ task[p].kind = "token"
CanOwnVault(p) == brokerLock = NoProc
TakeBrokerLock(p) ==
    /\ stage[p] = "checked"
    /\ CanOwnVault(p)
    /\ brokerLock' = p
    /\ Move(p, AfterBrokerLock(task[p].kind))
    /\ UNCHANGED <<files, configLock, task, draft, seen, next, faults, history>>
BrokerAlreadyRunning(p) ==
    /\ stage[p] = "checked"
    /\ brokerLock # NoProc
    /\ Return(p)
    /\ UNCHANGED <<files, seen, next, faults, history>>

(* delete_connection removes the row before it touches the configuration; a   *)
(* row that is already gone is no reason to stop.                             *)
DeleteRow(p) ==
    LET c == task[p].conn IN
    /\ stage[p] = "editing"
    /\ task[p].kind = "delete"
    /\ \/ /\ Connected(config, c)
          /\ vault' = [vault EXCEPT ![config.conns[c]] = NoRow]
          /\ Move(p, "waiting")
          /\ UNCHANGED <<locks, task, draft, faults>>
       \/ /\ Connected(config, c) => /\ Usable(config, c)
                                     /\ faults < MaxFaults
          /\ faults' = IF Connected(config, c) THEN faults + 1 ELSE faults
          /\ Return(p)
          /\ UNCHANGED vault
    /\ UNCHANGED <<config, client, marker, seen, next, history>>

(* segment::synchronize: what another device did to a row is merged into the  *)
(* vault file; rows that claim one handle are refused afterwards.             *)
MergeRows(p) ==
    /\ stage[p] = "editing"
    /\ task[p].kind = "merge"
    /\ \/ UNCHANGED <<vault, next, imported>>
       \/ \E i \in Fresh :
            /\ Present(i)
            /\ vault' = [vault EXCEPT ![i] = NoRow]
            /\ UNCHANGED <<next, imported>>
       \/ \E i \in Fresh :
            /\ Present(i)
            /\ next \in Fresh
            /\ vault' = [vault EXCEPT ![i].token = next]
            /\ imported' = imported \cup {next}
            /\ next' = next + 1
    /\ IF Ambiguous'
       THEN Return(p)
       ELSE Move(p, "waiting") /\ UNCHANGED <<locks, task, draft>>
    /\ UNCHANGED <<config, client, marker, seen, faults, dead, promised>>
-----------------------------------------------------------------------------
(* ConfigStore::update: wait for the lock, load, let the operation change the *)
(* copy, write it, let the lock go.                                           *)
UpdateWithoutLock == TRUE
CanUpdate == configLock = NoProc
Load(p) ==
    /\ stage[p] = "waiting"
    /\ CanUpdate
    /\ configLock' = p
    /\ draft' = [draft EXCEPT ![p] = config]
    /\ Move(p, "acting")
    /\ UNCHANGED <<files, brokerLock, task, seen, next, faults, history>>

Edit(p, grants) ==
    /\ draft' = [draft EXCEPT ![p] = WithGrants(@, grants)]
    /\ Move(p, "saving")
    /\ UNCHANGED <<files, locks, task, seen, next, faults, history>>

(* An error inside update or in its write.  issue_grant and quick_add take    *)
(* back the client file that they wrote; everything else just returns.        *)
(* issue_grant without client_written.                                        *)
WroteOrFoundClient(p) == TRUE
WroteClient(p) == stage[p] = "saving"
TakesBack(p) == task[p].kind \in Issuing /\ WroteClient(p)
Fail(p) ==
    IF TakesBack(p)
    THEN /\ Move(p, "undoing")
         /\ configLock' = Released(configLock, p)
         /\ UNCHANGED <<brokerLock, task, draft>>
    ELSE Return(p)

Refuse(p) ==
    LET t == task[p]
        d == draft[p]
    IN
    /\ stage[p] = "acting"
    /\ CASE t.kind = "issue" -> GrantsNamed(d, t.name) # {} \/ ~Usable(d, t.conn)
         [] t.kind = "refresh" -> ~\E g \in GrantsNamed(d, t.name) :
                                       g.cred = d.conns[g.conn] /\ Present(g.cred)
         [] t.kind = "revoke" -> GrantsNamed(d, t.name) = {}
         [] t.kind \in {"token", "delete"} -> ~Connected(d, t.conn)
         [] t.kind = "add" -> Connected(d, t.conn)
         [] t.kind = "quick" -> Connected(d, t.conn) \/ GrantsNamed(d, t.name) # {}
         [] OTHER -> FALSE
    /\ Fail(p)
    /\ UNCHANGED <<files, seen, next, faults, history>>

(* confirm_scope reads the credential; prepare_grant binds a new capability.  *)
Issue(p) ==
    LET t == task[p]
        d == draft[p]
    IN
    /\ stage[p] = "acting"
    /\ t.kind = "issue"
    /\ GrantsNamed(d, t.name) = {}
    /\ Usable(d, t.conn)
    /\ next \in Fresh
    /\ next' = next + 1
    /\ draft' = [draft EXCEPT ![p] = WithGrants(d, d.grants \cup
         {[name |-> t.name, conn |-> t.conn, cred |-> d.conns[t.conn],
           cap |-> next, token |-> vault[d.conns[t.conn]].token]})]
    /\ Move(p, "writing")
    /\ UNCHANGED <<files, locks, task, seen, faults, history>>

Refresh(p) ==
    LET d == draft[p] IN
    /\ stage[p] = "acting"
    /\ task[p].kind = "refresh"
    /\ next \in Fresh
    /\ next' = next + 1
    /\ \E g \in GrantsNamed(d, task[p].name) :
         /\ g.cred = d.conns[g.conn]
         /\ Present(g.cred)
         /\ draft' = [draft EXCEPT ![p] = WithGrants(d, (d.grants \ {g}) \cup
              {[g EXCEPT !.cap = next, !.token = vault[g.cred].token]})]
    /\ Move(p, "writing")
    /\ UNCHANGED <<files, locks, task, seen, faults, history>>

Revoke(p) ==
    /\ stage[p] = "acting"
    /\ task[p].kind = "revoke"
    /\ GrantsNamed(draft[p], task[p].name) # {}
    /\ Edit(p, draft[p].grants \ GrantsNamed(draft[p], task[p].name))

(* update_token revokes first; the row is replaced after the write.           *)
RevokeForToken(p) ==
    /\ stage[p] = "acting"
    /\ task[p].kind = "token"
    /\ Connected(draft[p], task[p].conn)
    /\ Edit(p, draft[p].grants \ GrantsOf(draft[p], task[p].conn))

Unbound(d, c) == WithGrants(WithConn(d, c, 0), d.grants \ GrantsOf(d, c))
Disconnect(p) ==
    LET c == task[p].conn IN
    /\ stage[p] = "acting"
    /\ task[p].kind = "delete"
    /\ Connected(draft[p], c)
    /\ draft' = [draft EXCEPT ![p] = Unbound(@, c)]
    /\ Move(p, "saving")
    /\ UNCHANGED <<files, locks, task, seen, next, faults, history>>

(* add_connection stores the row inside update, before the configuration.     *)
Connect(p) ==
    LET c == task[p].conn IN
    /\ stage[p] = "acting"
    /\ task[p].kind = "add"
    /\ ~Connected(draft[p], c)
    /\ next \in Fresh
    /\ next' = next + 1
    /\ vault' = [vault EXCEPT ![next] = [conn |-> c, token |-> next]]
    /\ draft' = [draft EXCEPT ![p] = WithConn(@, c, next)]
    /\ Move(p, "saving")
    /\ UNCHANGED <<config, client, marker, locks, task, seen, faults, history>>

(* quick_add stores the row and binds a capability to it in one update.  Its  *)
(* settings file, written and taken back with the client file, is left out.   *)
QuickAdd(p) ==
    LET t == task[p]
        d == draft[p]
    IN
    /\ stage[p] = "acting"
    /\ t.kind = "quick"
    /\ ~Connected(d, t.conn)
    /\ GrantsNamed(d, t.name) = {}
    /\ next \in Fresh
    /\ next' = next + 1
    /\ vault' = [vault EXCEPT ![next] = [conn |-> t.conn, token |-> next]]
    /\ draft' = [draft EXCEPT ![p] = WithGrants(WithConn(d, t.conn, next), d.grants \cup
         {[name |-> t.name, conn |-> t.conn, cred |-> next, cap |-> next, token |-> next]})]
    /\ Move(p, "writing")
    /\ UNCHANGED <<config, client, marker, locks, task, seen, faults, history>>

(* apply_remote_vault: the connections are those of the merged vault, and a   *)
(* grant survives when its fingerprint, the credential id, is the same.       *)
Apply(p) ==
    /\ stage[p] = "acting"
    /\ task[p].kind = "merge"
    /\ draft' = [draft EXCEPT ![p] =
         [conns |-> Inventory,
          grants |-> {g \in @.grants : Inventory[g.conn] = g.cred}]]
    /\ Move(p, "saving")
    /\ UNCHANGED <<files, locks, task, seen, next, faults, history>>

(* The client file is written before the configuration.  A new grant never    *)
(* replaces a file, and forgets its own when the write only looks failed.     *)
WriteClient(p) ==
    LET n == task[p].name
        mayWrite == task[p].kind \in Issuing => client[n] = 0
    IN
    /\ stage[p] = "writing"
    /\ \E outcome \in Saves :
         /\ IF mayWrite THEN Costs(outcome) ELSE outcome = "failed" /\ UNCHANGED faults
         /\ client' = IF Reached(outcome) THEN [client EXCEPT ![n] = Granted(p)] ELSE client
         /\ promised' = IF Reached(outcome) THEN [promised EXCEPT ![n] = 0] ELSE promised
         /\ IF outcome = "written"
            THEN Move(p, "saving") /\ UNCHANGED <<locks, task, draft>>
            ELSE Fail(p)
    /\ UNCHANGED <<config, vault, marker, seen, next, dead, imported>>

SavedOrNot(outcome) == TRUE
Saved(outcome) == outcome = "written"
Answered(p) ==
    IF task[p].kind \in Issuing \cup {"refresh"}
    THEN [promised EXCEPT ![task[p].name] = Granted(p)] ELSE promised
Save(p) ==
    /\ stage[p] = "saving"
    /\ \E outcome \in Saves :
         /\ Costs(outcome)
         /\ config' = IF Reached(outcome) THEN draft[p] ELSE config
         /\ dead' = IF Reached(outcome)
                    THEN dead \cup (Capabilities(config) \ Capabilities(draft[p])) ELSE dead
         /\ promised' = IF Saved(outcome) THEN Answered(p) ELSE promised
         /\ CASE ~Saved(outcome) -> Fail(p)
              [] Saved(outcome) /\ task[p].kind = "token" ->
                   /\ Move(p, "replacing")
                   /\ configLock' = Released(configLock, p)
                   /\ UNCHANGED <<brokerLock, task, draft>>
              [] OTHER -> Return(p)
    /\ UNCHANGED <<vault, client, marker, seen, next, imported>>

(* The client file goes again; the broker lock is still held.                 *)
TakeBack(p) ==
    /\ stage[p] = "undoing"
    /\ \/ client' = [client EXCEPT ![task[p].name] = 0] /\ UNCHANGED faults
       \/ UNCHANGED client /\ faults < MaxFaults /\ faults' = faults + 1
    /\ Return(p)
    /\ UNCHANGED <<config, vault, marker, seen, next, history>>

(* Vault::edit_credential needs the row; a failure leaves the old token.      *)
ReplaceToken(p) ==
    LET i == config.conns[task[p].conn] IN
    /\ stage[p] = "replacing"
    /\ \/ /\ i # 0 /\ Present(i) /\ next \in Fresh
          /\ vault' = [vault EXCEPT ![i].token = next]
          /\ next' = next + 1
          /\ UNCHANGED faults
       \/ /\ i # 0 /\ Present(i) => faults < MaxFaults
          /\ faults' = IF i # 0 /\ Present(i) THEN faults + 1 ELSE faults
          /\ UNCHANGED <<vault, next>>
    /\ Return(p)
    /\ UNCHANGED <<config, client, marker, seen, history>>
-----------------------------------------------------------------------------
(* start_using: with the broker lock held it forgets the marker, then opens   *)
(* the vault and listens, or fails to.                                        *)
ForgetMarker(p) ==
    /\ stage[p] = "starting"
    /\ marker' = FALSE
    /\ Move(p, "opening")
    /\ UNCHANGED <<config, vault, client, locks, task, draft, seen, next, faults, history>>
Open(p) ==
    /\ stage[p] = "opening"
    /\ seen' = vault
    /\ Move(p, "serving")
    /\ UNCHANGED <<files, locks, task, draft, next, faults, history>>
ListenUnavailable(p) ==
    /\ stage[p] = "opening"
    /\ Return(p)
    /\ UNCHANGED <<files, seen, next, faults, history>>

(* serve_broker looks for the marker every 200 ms, drains and ends; a person  *)
(* or the lifetime of the session can end it at any time.                     *)
EndByMarker(p) ==
    /\ stage[p] = "serving"
    /\ marker
    /\ Return(p)
    /\ UNCHANGED <<files, seen, next, faults, history>>
Stop(p) ==
    /\ stage[p] = "serving"
    /\ Return(p)
    /\ UNCHANGED <<files, seen, next, faults, history>>

(* lock_broker tries the broker lock every 100 ms and gives up after 50 s.    *)
Locked(p) ==
    /\ stage[p] = "polling"
    /\ Return(p)
    /\ UNCHANGED <<files, seen, next, faults, history>>

Die(p) ==
    /\ stage[p] # "idle"
    /\ faults < MaxFaults
    /\ faults' = faults + 1
    /\ Return(p)
    /\ UNCHANGED <<files, seen, next, history>>

Next ==
    \E p \in Procs :
        \/ \E t \in Tasks : Begin(p, t)
        \/ TakeBrokerLock(p) \/ BrokerAlreadyRunning(p)
        \/ DeleteRow(p) \/ MergeRows(p)
        \/ Load(p) \/ Refuse(p)
        \/ Issue(p) \/ Refresh(p) \/ Revoke(p) \/ RevokeForToken(p)
        \/ Disconnect(p) \/ Connect(p) \/ QuickAdd(p) \/ Apply(p)
        \/ WriteClient(p) \/ Save(p) \/ TakeBack(p) \/ ReplaceToken(p)
        \/ ForgetMarker(p) \/ Open(p) \/ ListenUnavailable(p)
        \/ EndByMarker(p) \/ Stop(p) \/ Locked(p)
        \/ Die(p)

(* The marker is looked for on a timer of the runtime, and the drain that     *)
(* follows ends because every call does (module Gateway, CallEnds).           *)
Spec == Init /\ [][Next]_vars /\ \A p \in Procs : WF_vars(EndByMarker(p))
-----------------------------------------------------------------------------
(* A capability that a revocation, a refresh, a replaced token or a deleted   *)
(* connection took away is never in the configuration again, although every   *)
(* operation writes the whole file: ConfigStore::update is to serialize them  *)
(* "so grant creation cannot overwrite a concurrent revocation".              *)
RevokedStaysRevoked == dead \cap Capabilities(config) = {}

(* A grant is worth only the token that its person confirmed it for: no       *)
(* process on this machine puts another token behind a live grant, whichever  *)
(* of the two writes of update_token fails.                                   *)
GrantsKeepTheirToken ==
    \A g \in config.grants : vault[g.cred].token \in {0, g.token} \cup imported

(* When issue_grant or refresh_grant has answered Ok, the client file carries *)
(* the grant's capability as long as the grant lives, unless a later refresh  *)
(* of it has begun to write: no other issue replaces or removes that file.    *)
AnsweredGrantsKeepTheirFile ==
    \A n \in Names :
        promised[n] \in Capabilities(config) => client[n] = promised[n]

(* The vault a broker serves from is the one on the disk: nobody edits it     *)
(* behind the broker's open copy.                                             *)
BrokerServesTheVault ==
    \A p \in Procs : stage[p] = "serving" => seen = vault

(* A broker that serves when its lock is requested ends: nothing removes the  *)
(* marker under it.                                                           *)
LockIsHonoured ==
    \A p \in Procs : (stage[p] = "serving" /\ marker) ~> stage[p] # "serving"

(* The comment on delete_connection: "a config write that fails afterwards    *)
(* leaves an orphan row, never a live grant bound to a deleted token".        *)
NoGrantOfADeletedToken ==
    brokerLock = NoProc => \A g \in config.grants : Present(g.cred)
=============================================================================
