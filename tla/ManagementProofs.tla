-------------------------- MODULE ManagementProofs --------------------------
(* Theorems about Management for every number of processes, grants and        *)
(* connections, and for every bound on fresh values and faults.               *)
EXTENDS Management, TLAPS

(* The stages of a process inside ConfigStore::update.                        *)
Updating == {"acting", "writing", "saving"}

(* What a process does is known while it does it.                             *)
TaskKnown == \A p \in Procs : stage[p] # "idle" => task[p] \in Tasks

(* A capability comes from the counter.                                       *)
CapsAreOld ==
    /\ \A g \in config.grants : g.cap < next
    /\ \A p \in Procs : \A g \in draft[p].grants : g.cap < next
    /\ \A k \in dead : k < next

(* A process that writes a client file has the grant in its draft.            *)
Issues(p) ==
    \/ stage[p] = "writing"
    \/ stage[p] = "saving" /\ task[p].kind \in Issuing \cup {"refresh"}
GrantInDraft ==
    \A p \in Procs : Issues(p) => \E g \in draft[p].grants : g.name = task[p].name

(* One process at a time is inside update.                                    *)
OneUpdate == \A p \in Procs : stage[p] \in Updating => configLock = p

(* What it is about to write holds no capability that died meanwhile.         *)
DraftIsAlive ==
    \A p \in Procs : stage[p] \in Updating => dead \cap Capabilities(draft[p]) = {}

(* A process at stage s of task t holds the broker lock: whoever edits the    *)
(* vault or serves from it, and everything that reads it but a revocation.    *)
Owns(s, t) ==
    \/ s \in {"editing", "undoing", "replacing", "starting", "opening", "serving"}
    \/ s \in {"waiting", "acting", "writing", "saving"} /\ t.kind # "revoke"
OwnerHolds == \A p \in Procs : Owns(stage[p], task[p]) => brokerLock = p

TypeInv == TypeOK /\ TaskKnown /\ CapsAreOld /\ GrantInDraft
RevocationInv == OneUpdate /\ DraftIsAlive /\ RevokedStaysRevoked
VaultInv == OwnerHolds /\ BrokerServesTheVault
-----------------------------------------------------------------------------
LEMMA ConfigParts ==
    ASSUME NEW c \in Config
    PROVE  /\ c.conns \in [Conns -> 0..MaxFresh]
           /\ c.grants \subseteq Grant
           /\ Valid(c)
  BY DEF Config

(* A configuration made of connections and grants that agree.                 *)
LEMMA ConfigMade ==
    ASSUME NEW conns \in [Conns -> 0..MaxFresh], NEW grants \in SUBSET Grant,
           \A g \in grants : conns[g.conn] # 0,
           \A g, h \in grants : g.name = h.name \/ g.cap = h.cap => g = h
    PROVE  [conns |-> conns, grants |-> grants] \in Config
  BY DEF Config, Valid

LEMMA NothingIsValid == Nothing \in Config
  <1>1. [c \in Conns |-> 0] \in [Conns -> 0..MaxFresh]
    BY ManagementAssumption
  <1> QED
    BY <1>1, ConfigMade DEF Nothing

(* What the inventory of the vault holds.                                     *)
LEMMA InventoryType ==
    ASSUME vault \in [Fresh -> Row]
    PROVE  Inventory \in [Conns -> 0..MaxFresh]
  BY ManagementAssumption DEF Inventory, RowsOf, Fresh

(* Fewer grants are still valid.                                              *)
LEMMA FewerGrants ==
    ASSUME NEW c \in Config, NEW grants \in SUBSET c.grants
    PROVE  WithGrants(c, grants) \in Config
  <1>1. \A g \in grants : c.conns[g.conn] # 0
    BY ConfigParts DEF Valid
  <1>2. \A g, h \in grants : g.name = h.name \/ g.cap = h.cap => g = h
    BY ConfigParts DEF Valid
  <1>3. grants \in SUBSET Grant
    BY ConfigParts
  <1> QED
    BY <1>1, <1>2, <1>3, ConfigParts, ConfigMade DEF WithGrants

(* Another grant of a name and a capability that no grant has.                *)
LEMMA OneMoreGrant ==
    ASSUME NEW c \in Config, NEW g \in Grant, c.conns[g.conn] # 0,
           \A h \in c.grants : h.name # g.name /\ h.cap # g.cap
    PROVE  WithGrants(c, c.grants \cup {g}) \in Config
  <1>1. \A h \in c.grants \cup {g} : c.conns[h.conn] # 0
    BY ConfigParts DEF Valid
  <1>2. \A h, k \in c.grants \cup {g} : h.name = k.name \/ h.cap = k.cap => h = k
    BY ConfigParts DEF Valid
  <1>3. c.grants \cup {g} \in SUBSET Grant
    BY ConfigParts
  <1> QED
    BY <1>1, <1>2, <1>3, ConfigParts, ConfigMade DEF WithGrants

(* A connection is set, or cleared once it has no grants.                     *)
LEMMA OneConnection ==
    ASSUME NEW c \in Config, NEW n \in Conns, NEW i \in 0..MaxFresh,
           i # 0 \/ GrantsOf(c, n) = {}
    PROVE  WithConn(c, n, i) \in Config
  <1>1. [c.conns EXCEPT ![n] = i] \in [Conns -> 0..MaxFresh]
    BY ConfigParts
  <1>2. \A g \in c.grants : [c.conns EXCEPT ![n] = i][g.conn] # 0
    <2> SUFFICES ASSUME NEW g \in c.grants
                 PROVE  [c.conns EXCEPT ![n] = i][g.conn] # 0
      OBVIOUS
    <2>1. g.conn \in Conns /\ c.conns[g.conn] # 0
      BY ConfigParts DEF Valid, Grant
    <2>2. g.conn = n => i # 0
      BY DEF GrantsOf
    <2> QED
      BY <2>1, <2>2, ConfigParts
  <1>3. \A g, h \in c.grants : g.name = h.name \/ g.cap = h.cap => g = h
    BY ConfigParts DEF Valid
  <1> QED
    BY <1>1, <1>2, <1>3, ConfigParts, ConfigMade DEF WithConn

LEMMA UnboundType ==
    ASSUME NEW c \in Config, NEW n \in Conns
    PROVE  Unbound(c, n) \in Config
  <1> DEFINE d == WithGrants(c, c.grants \ GrantsOf(c, n))
  <1>1. d \in Config
    BY FewerGrants
  <1>2. GrantsOf(d, n) = {}
    BY DEF GrantsOf, WithGrants
  <1>z. 0 \in 0..MaxFresh
    BY ManagementAssumption
  <1> HIDE DEF d
  <1>3. WithConn(d, n, 0) \in Config
    BY <1>1, <1>2, <1>z, OneConnection
  <1> QED
    BY <1>3 DEF d, Unbound, WithConn, WithGrants
-----------------------------------------------------------------------------
(* A process moves on and changes nothing of the others.                      *)
LEMMA MoveStep ==
    ASSUME TypeInv, NEW p \in Procs, NEW to \in Stages, Move(p, to),
           draft' \in [Procs -> Config], task' \in [Procs -> Tasks \cup {NoTask}],
           \A q \in Procs \ {p} : task'[q] = task[q] /\ draft'[q] = draft[q],
           to # "idle" => task'[p] \in Tasks,
           Issues(p)' => \E g \in draft'[p].grants : g.name = task'[p].name
    PROVE  stage' \in [Procs -> Stages] /\ TaskKnown' /\ GrantInDraft'
  <1>1. stage' \in [Procs -> Stages] /\ stage'[p] = to
    BY DEF TypeInv, TypeOK, Move
  <1>2. \A q \in Procs \ {p} : stage'[q] = stage[q]
    BY DEF TypeInv, TypeOK, Move
  <1>3. TaskKnown'
    BY <1>1, <1>2 DEF TypeInv, TaskKnown
  <1>4. GrantInDraft'
    <2> SUFFICES ASSUME NEW q \in Procs, Issues(q)'
                 PROVE  \E g \in draft'[q].grants : g.name = task'[q].name
      BY DEF GrantInDraft
    <2>1. CASE q = p
      BY <2>1
    <2>2. CASE q # p
      <3>1. Issues(q)
        BY <1>2, <2>2 DEF Issues
      <3> QED
        BY <2>2, <3>1 DEF TypeInv, GrantInDraft
    <2> QED
      BY <2>1, <2>2
  <1> QED
    BY <1>1, <1>3, <1>4

(* A process returns or dies.                                                 *)
LEMMA ReturnStep ==
    ASSUME TypeInv, NEW p \in Procs, Return(p)
    PROVE  /\ stage' \in [Procs -> Stages] /\ TaskKnown' /\ GrantInDraft'
           /\ task' \in [Procs -> Tasks \cup {NoTask}]
           /\ draft' \in [Procs -> Config]
           /\ brokerLock' \in Procs \cup {NoProc}
           /\ configLock' \in Procs \cup {NoProc}
           /\ \A q \in Procs : draft'[q] \in {draft[q], Nothing}
  <1>1. Move(p, "idle") /\ "idle" \in Stages
    BY DEF Return, Stages
  <1>2. draft' \in [Procs -> Config] /\ \A q \in Procs : draft'[q] \in {draft[q], Nothing}
    BY NothingIsValid DEF Return, TypeInv, TypeOK
  <1>3. task' \in [Procs -> Tasks \cup {NoTask}]
    BY DEF Return, TypeInv, TypeOK
  <1>4. \A q \in Procs \ {p} : task'[q] = task[q] /\ draft'[q] = draft[q]
    BY DEF Return, TypeInv, TypeOK
  <1>5. ~Issues(p)'
    BY <1>1 DEF Issues, Move, TypeInv, TypeOK
  <1>6. stage' \in [Procs -> Stages] /\ TaskKnown' /\ GrantInDraft'
    BY <1>1, <1>2, <1>3, <1>4, <1>5, MoveStep
  <1>7. brokerLock' \in Procs \cup {NoProc} /\ configLock' \in Procs \cup {NoProc}
    BY DEF Return, Released, TypeInv, TypeOK
  <1> QED
    BY <1>2, <1>3, <1>6, <1>7

(* Steps that change neither a configuration nor a counter: p returns, dies,  *)
(* or moves on with its draft.                                                *)
LEMMA QuietStep ==
    ASSUME TypeInv, NEW p \in Procs,
           UNCHANGED <<config, next, dead, imported>>,
           vault' \in [Fresh -> Row], client' \in [Names -> 0..MaxFresh],
           seen' \in [Fresh -> Row], promised' \in [Names -> 0..MaxFresh],
           marker' \in BOOLEAN, faults' \in 0..MaxFaults,
           \/ Return(p)
           \/ /\ \E to \in Stages \ {"idle", "writing", "saving"} : Move(p, to)
              /\ draft' = draft
              /\ \/ task' = task /\ stage[p] # "idle"
                 \/ \E t \in Tasks : task' = [task EXCEPT ![p] = t]
              /\ brokerLock' \in Procs \cup {NoProc}
              /\ configLock' \in Procs \cup {NoProc}
    PROVE  TypeInv'
  <1>1. /\ stage' \in [Procs -> Stages] /\ TaskKnown' /\ GrantInDraft'
        /\ task' \in [Procs -> Tasks \cup {NoTask}]
        /\ draft' \in [Procs -> Config]
        /\ brokerLock' \in Procs \cup {NoProc}
        /\ configLock' \in Procs \cup {NoProc}
        /\ \A q \in Procs : draft'[q] \in {draft[q], Nothing}
    <2>1. CASE Return(p)
      BY <2>1, ReturnStep
    <2>2. CASE ~Return(p)
      <3> PICK to \in Stages \ {"idle", "writing", "saving"} : Move(p, to)
        BY <2>2
      <3>1. draft' = draft /\ draft \in [Procs -> Config]
        BY <2>2 DEF TypeInv, TypeOK
      <3>2. /\ task' \in [Procs -> Tasks \cup {NoTask}]
            /\ task'[p] \in Tasks
            /\ \A q \in Procs \ {p} : task'[q] = task[q]
        BY <2>2 DEF TypeInv, TypeOK, TaskKnown
      <3>3. ~Issues(p)'
        BY DEF Issues, Move, TypeInv, TypeOK
      <3>4. stage' \in [Procs -> Stages] /\ TaskKnown' /\ GrantInDraft'
        BY <3>1, <3>2, <3>3, MoveStep
      <3> QED
        BY <2>2, <3>1, <3>2, <3>4
    <2> QED
      BY <2>1, <2>2
  <1>2. TypeOK'
    BY <1>1 DEF TypeInv, TypeOK
  <1>3. CapsAreOld'
    BY <1>1 DEF TypeInv, CapsAreOld, Nothing
  <1> QED
    BY <1>1, <1>2, <1>3 DEF TypeInv

(* Steps of update: p moves on with a draft of its own.                       *)
LEMMA DraftStep ==
    ASSUME TypeInv, NEW p \in Procs, stage[p] # "idle",
           NEW to \in Stages, Move(p, to),
           NEW d \in Config, draft' = [draft EXCEPT ![p] = d],
           next' \in {next, next + 1}, next' \in 1..(MaxFresh + 1),
           \A g \in d.grants : g.cap < next',
           (to = "writing" \/ (to = "saving" /\ task[p].kind \in Issuing \cup {"refresh"})) =>
             \E g \in d.grants : g.name = task[p].name,
           UNCHANGED <<config, client, marker, brokerLock, task, seen, faults, history>>,
           vault' \in [Fresh -> Row], configLock' \in Procs \cup {NoProc}
    PROVE  TypeInv'
  <1>1. draft' \in [Procs -> Config] /\ draft'[p] = d
    BY DEF TypeInv, TypeOK
  <1>2. \A q \in Procs \ {p} : draft'[q] = draft[q]
    BY DEF TypeInv, TypeOK
  <1>3. task' = task /\ task \in [Procs -> Tasks \cup {NoTask}] /\ task[p] \in Tasks
    BY DEF TypeInv, TypeOK, TaskKnown
  <1>x. stage'[p] = to
    BY DEF Move, TypeInv, TypeOK
  <1>4. Issues(p)' => \E g \in draft'[p].grants : g.name = task'[p].name
    BY <1>1, <1>3, <1>x DEF Issues, Issuing
  <1>5. stage' \in [Procs -> Stages] /\ TaskKnown' /\ GrantInDraft'
    BY <1>1, <1>2, <1>3, <1>4, MoveStep
  <1>6. TypeOK'
    BY <1>1, <1>3, <1>5 DEF TypeInv, TypeOK, history
  <1>7. CapsAreOld'
    <2>1. \A k \in Nat : k < next => k < next'
      BY DEF TypeInv, TypeOK
    <2>2. \A q \in Procs : \A g \in draft[q].grants : g.cap \in Nat
      BY ConfigParts DEF TypeInv, TypeOK, Grant, Fresh
    <2>3. \A g \in config.grants : g.cap \in Nat
      BY ConfigParts DEF TypeInv, TypeOK, Grant, Fresh
    <2>4. \A k \in dead : k \in Nat
      BY DEF TypeInv, TypeOK, Fresh
    <2>5. \A g \in config'.grants : g.cap < next'
      BY <2>1, <2>3 DEF TypeInv, CapsAreOld
    <2>6. \A k \in dead' : k < next'
      BY <2>1, <2>4 DEF TypeInv, CapsAreOld, history
    <2>7. \A q \in Procs : \A g \in draft'[q].grants : g.cap < next'
      BY <1>1, <1>2, <2>1, <2>2 DEF TypeInv, CapsAreOld
    <2> QED
      BY <2>5, <2>6, <2>7 DEF CapsAreOld
  <1> QED
    BY <1>5, <1>6, <1>7 DEF TypeInv

LEMMA TypeInit == Init => TypeInv
  <1> SUFFICES ASSUME Init PROVE TypeInv
    OBVIOUS
  <1>1. /\ 0 \in 0..MaxFresh /\ 0 \in 0..MaxFaults /\ 1 \in 1..(MaxFresh + 1)
        /\ NoRow \in Row
    BY ManagementAssumption DEF NoRow, Row
  <1>2. TypeOK
    BY <1>1, NothingIsValid DEF Init, TypeOK, Stages
  <1>3. TaskKnown /\ CapsAreOld /\ GrantInDraft
    BY DEF Init, TaskKnown, CapsAreOld, GrantInDraft, Issues, Nothing
  <1> QED
    BY <1>2, <1>3 DEF TypeInv

(* The steps of one process.                                                  *)
Step(p) ==
    \/ \E t \in Tasks : Begin(p, t)
    \/ TakeBrokerLock(p) \/ BrokerAlreadyRunning(p)
    \/ DeleteRow(p) \/ MergeRows(p)
    \/ Load(p) \/ Refuse(p)
    \/ Issue(p) \/ Refresh(p) \/ Revoke(p) \/ RevokeForToken(p)
    \/ Disconnect(p) \/ Connect(p) \/ QuickAdd(p) \/ Apply(p)
    \/ WriteClient(p) \/ Save(p) \/ TakeBack(p) \/ ReplaceToken(p)
    \/ ForgetMarker(p) \/ Open(p) \/ ListenUnavailable(p)
    \/ EndByMarker(p) \/ Stop(p) \/ Locked(p)
    \/ Die(p)

LEMMA TypeStepQuiet ==
    ASSUME TypeInv, NEW p \in Procs,
           \/ \E t \in Tasks : Begin(p, t)
           \/ TakeBrokerLock(p) \/ BrokerAlreadyRunning(p) \/ Refuse(p)
           \/ DeleteRow(p) \/ TakeBack(p)
           \/ ForgetMarker(p) \/ Open(p) \/ ListenUnavailable(p)
           \/ EndByMarker(p) \/ Stop(p) \/ Locked(p) \/ Die(p)
    PROVE  TypeInv'
  <1>kept. /\ vault \in [Fresh -> Row] /\ client \in [Names -> 0..MaxFresh]
           /\ seen \in [Fresh -> Row] /\ promised \in [Names -> 0..MaxFresh]
           /\ marker \in BOOLEAN /\ faults \in 0..MaxFaults
           /\ brokerLock \in Procs \cup {NoProc} /\ configLock \in Procs \cup {NoProc}
           /\ task[p] \in Tasks \cup {NoTask}
           /\ 0 \in 0..MaxFresh /\ NoRow \in Row
           /\ \A n \in 0..MaxFaults : n < MaxFaults => n + 1 \in 0..MaxFaults
    BY ManagementAssumption DEF TypeInv, TypeOK, NoRow, Row
  <1>1. CASE \E t \in Tasks : Begin(p, t)
    <2> PICK t \in Tasks : Begin(p, t)
      BY <1>1
    <2>1. \E to \in Stages \ {"idle", "writing", "saving"} : Move(p, to)
      BY DEF Begin, Stages
    <2>2. marker' \in BOOLEAN
      BY <1>kept DEF Begin, MarkerAtBegin
    <2> QED
      BY <1>kept, <2>1, <2>2, QuietStep DEF Begin, locks, history
  <1>2. CASE TakeBrokerLock(p)
    <2>1. \E to \in Stages \ {"idle", "writing", "saving"} : Move(p, to)
      BY <1>2 DEF TakeBrokerLock, AfterBrokerLock, Stages
    <2> QED
      BY <1>2, <1>kept, <2>1, QuietStep DEF TakeBrokerLock, files, history
  <1>3. CASE BrokerAlreadyRunning(p)
    BY <1>3, <1>kept, QuietStep DEF BrokerAlreadyRunning, files, history
  <1>4. CASE Refuse(p)
    <2>1. Return(p) \/ (Move(p, "undoing") /\ task' = task /\ draft' = draft
                        /\ brokerLock' = brokerLock /\ configLock' \in Procs \cup {NoProc})
      BY <1>4, <1>kept DEF Refuse, Fail, Released
    <2>2. stage[p] # "idle" /\ "undoing" \in Stages \ {"idle", "writing", "saving"}
      BY <1>4 DEF Refuse, Stages
    <2> QED
      BY <1>4, <1>kept, <2>1, <2>2, QuietStep DEF Refuse, files, history
  <1>5. CASE DeleteRow(p)
    <2>1. vault' \in [Fresh -> Row] /\ faults' \in 0..MaxFaults
      BY <1>5, <1>kept DEF DeleteRow
    <2>2. Return(p) \/ (Move(p, "waiting") /\ UNCHANGED <<locks, task, draft>>)
      BY <1>5 DEF DeleteRow
    <2>3. stage[p] # "idle" /\ "waiting" \in Stages \ {"idle", "writing", "saving"}
      BY <1>5 DEF DeleteRow, Stages
    <2> QED
      BY <1>5, <1>kept, <2>1, <2>2, <2>3, QuietStep DEF DeleteRow, locks, history
  <1>6. CASE TakeBack(p)
    <2>1. client' \in [Names -> 0..MaxFresh] /\ faults' \in 0..MaxFaults
      BY <1>6, <1>kept DEF TakeBack
    <2> QED
      BY <1>6, <1>kept, <2>1, QuietStep DEF TakeBack, history
  <1>7. CASE ForgetMarker(p)
    <2>1. stage[p] # "idle" /\ "opening" \in Stages \ {"idle", "writing", "saving"}
      BY <1>7 DEF ForgetMarker, Stages
    <2> QED
      BY <1>7, <1>kept, <2>1, QuietStep DEF ForgetMarker, locks, history
  <1>8. CASE Open(p)
    <2>1. stage[p] # "idle" /\ "serving" \in Stages \ {"idle", "writing", "saving"}
      BY <1>8 DEF Open, Stages
    <2> QED
      BY <1>8, <1>kept, <2>1, QuietStep DEF Open, files, locks, history
  <1>9. CASE ListenUnavailable(p) \/ EndByMarker(p) \/ Stop(p) \/ Locked(p)
    BY <1>9, <1>kept, QuietStep
       DEF ListenUnavailable, EndByMarker, Stop, Locked, files, history
  <1>10. CASE Die(p)
    BY <1>10, <1>kept, QuietStep DEF Die, files, history
  <1> QED
    BY <1>1, <1>2, <1>3, <1>4, <1>5, <1>6, <1>7, <1>8, <1>9, <1>10

LEMMA TypeStepDraft ==
    ASSUME TypeInv, NEW p \in Procs,
           \/ Load(p) \/ Issue(p) \/ Refresh(p) \/ Revoke(p) \/ RevokeForToken(p)
           \/ Disconnect(p) \/ Connect(p) \/ QuickAdd(p) \/ Apply(p)
    PROVE  TypeInv'
  <1> DEFINE d == draft[p]
             t == task[p]
  <1>kept. /\ vault \in [Fresh -> Row] /\ config \in Config /\ d \in Config
           /\ configLock \in Procs \cup {NoProc}
           /\ next \in 1..(MaxFresh + 1) /\ MaxFresh \in Nat
           /\ \A g \in d.grants : g.cap < next
           /\ \A g \in config.grants : g.cap < next
    BY ManagementAssumption DEF TypeInv, TypeOK, CapsAreOld
  <1>busy. stage[p] # "idle" /\ t \in Tasks /\ t.name \in Names /\ t.conn \in Conns
    <2>1. stage[p] # "idle"
      BY DEF Load, Issue, Refresh, Revoke, RevokeForToken, Disconnect, Connect,
             QuickAdd, Apply
    <2> QED
      BY <2>1, ManagementAssumption DEF TypeInv, TaskKnown
  <1>to. {"acting", "writing", "saving"} \subseteq Stages
    BY DEF Stages
  <1>new. next \in Fresh => /\ next + 1 \in 1..(MaxFresh + 1)
                            /\ \A g \in d.grants : g.cap < next + 1
                            /\ next < next + 1 /\ next \in 0..MaxFresh /\ next # 0
    <2>1. \A g \in d.grants : g.cap \in Nat
      BY <1>kept, ConfigParts DEF Grant, Fresh
    <2> QED
      BY <1>kept, <2>1 DEF Fresh
  <1> HIDE DEF d, t
  <1>1. CASE Load(p)
    BY <1>1, <1>kept, <1>busy, <1>to, DraftStep DEF Load, files, history
  <1>2. CASE Issue(p)
    <2> DEFINE g == [name |-> t.name, conn |-> t.conn, cred |-> d.conns[t.conn],
                     cap |-> next, token |-> vault[d.conns[t.conn]].token]
               new == WithGrants(d, d.grants \cup {g})
    <2>1. next \in Fresh /\ Usable(d, t.conn) /\ GrantsNamed(d, t.name) = {}
      BY <1>2 DEF Issue, d, t
    <2>2. d.conns[t.conn] \in Fresh
      BY <2>1, <1>kept, <1>busy, ConfigParts DEF Usable, Connected, Fresh
    <2>3. g \in Grant /\ d.conns[g.conn] # 0
      BY <2>1, <2>2, <1>kept, <1>busy DEF Grant, Row, Fresh
    <2>4. \A h \in d.grants : h.name # g.name /\ h.cap # g.cap
      BY <2>1, <1>kept DEF GrantsNamed
    <2>5. new \in Config
      BY <2>3, <2>4, <1>kept, OneMoreGrant
    <2>6. \A h \in new.grants : h.cap < next + 1
      BY <2>1, <1>new DEF WithGrants
    <2>7. g \in new.grants /\ g.name = t.name
      BY DEF WithGrants
    <2>8. draft' = [draft EXCEPT ![p] = new] /\ Move(p, "writing") /\ next' = next + 1
      BY <1>2 DEF Issue, d, t
    <2>9. UNCHANGED <<files, locks, task, seen, faults, history>>
      BY <1>2 DEF Issue
    <2> HIDE DEF new, g
    <2> QED
      BY <2>1, <2>5, <2>6, <2>7, <2>8, <2>9, <1>kept, <1>busy, <1>to, <1>new, DraftStep
         DEF files, locks, history, t
  <1>3. CASE Refresh(p)
    <2>p. PICK old \in GrantsNamed(d, t.name) :
          /\ old.cred = d.conns[old.conn]
          /\ draft' = [draft EXCEPT ![p] = WithGrants(d, (d.grants \ {old}) \cup
                 {[old EXCEPT !.cap = next, !.token = vault[old.cred].token]})]
      BY <1>3 DEF Refresh, d, t
    <2> DEFINE g == [old EXCEPT !.cap = next, !.token = vault[old.cred].token]
               rest == WithGrants(d, d.grants \ {old})
               new == WithGrants(rest, rest.grants \cup {g})
    <2>1. next \in Fresh /\ old \in d.grants /\ old.name = t.name /\ old \in Grant
      BY <1>3, <1>kept, ConfigParts DEF Refresh, GrantsNamed
    <2>2. g \in Grant /\ g.name = old.name /\ g.conn = old.conn /\ g.cap = next
      BY <2>1, <1>kept DEF Grant, Row
    <2>3. rest \in Config /\ rest.conns = d.conns /\ rest.grants = d.grants \ {old}
      BY <1>kept, FewerGrants DEF WithGrants
    <2> HIDE DEF g, rest
    <2>4. \A h \in rest.grants : h.name # g.name /\ h.cap # g.cap
      <3>1. \A h \in d.grants : h.name = old.name => h = old
        BY <2>1, <1>kept, ConfigParts DEF Valid
      <3>2. \A h \in d.grants : h.cap # next
        BY <1>kept
      <3> QED
        BY <2>2, <2>3, <3>1, <3>2
    <2>5. rest.conns[g.conn] # 0
      BY <2>1, <2>2, <2>3, <1>kept, ConfigParts DEF Valid
    <2>6. new \in Config
      BY <2>2, <2>3, <2>4, <2>5, OneMoreGrant
    <2>7. new = WithGrants(d, (d.grants \ {old}) \cup {g})
      BY <2>3 DEF WithGrants
    <2>8. \A h \in new.grants : h.cap < next + 1
      BY <2>1, <2>2, <2>7, <1>new DEF WithGrants
    <2>9. g \in new.grants /\ g.name = t.name
      BY <2>1, <2>2, <2>7 DEF WithGrants
    <2>10. draft' = [draft EXCEPT ![p] = new]
      BY <2>p, <2>7 DEF g
    <2>11. /\ Move(p, "writing") /\ next' = next + 1
           /\ UNCHANGED <<files, locks, task, seen, faults, history>>
      BY <1>3 DEF Refresh
    <2> HIDE DEF new
    <2> QED
      BY <2>1, <2>6, <2>8, <2>9, <2>10, <2>11, <1>kept, <1>busy, <1>to, <1>new, DraftStep
         DEF files, locks, history, t
  <1>4. CASE Revoke(p) \/ RevokeForToken(p)
    <2>1. PICK grants \in SUBSET d.grants : Edit(p, grants)
      BY <1>4 DEF Revoke, RevokeForToken, d
    <2>2. WithGrants(d, grants) \in Config
      BY <1>kept, FewerGrants
    <2>3. \A g \in WithGrants(d, grants).grants : g.cap < next
      BY <1>kept DEF WithGrants
    <2>4. t.kind \notin Issuing \cup {"refresh"}
      BY <1>4 DEF Revoke, RevokeForToken, Issuing, t
    <2>5. draft' = [draft EXCEPT ![p] = WithGrants(d, grants)]
      BY <2>1 DEF Edit, d, TypeInv, TypeOK
    <2>6. Move(p, "saving") /\ UNCHANGED <<files, locks, task, seen, next, faults, history>>
      BY <2>1 DEF Edit
    <2> QED
      BY <2>2, <2>3, <2>4, <2>5, <2>6, <1>kept, <1>busy, <1>to, DraftStep
         DEF files, locks, history, t
  <1>5. CASE Disconnect(p)
    <2>1. Unbound(d, t.conn) \in Config
      BY <1>kept, <1>busy, UnboundType
    <2>2. \A g \in Unbound(d, t.conn).grants : g.cap < next
      BY <1>kept DEF Unbound, WithGrants
    <2>3. t.kind \notin Issuing \cup {"refresh"}
      BY <1>5 DEF Disconnect, Issuing, t
    <2>4. draft' = [draft EXCEPT ![p] = Unbound(d, t.conn)]
      BY <1>5 DEF Disconnect, d, t, TypeInv, TypeOK
    <2>5. Move(p, "saving") /\ UNCHANGED <<files, locks, task, seen, next, faults, history>>
      BY <1>5 DEF Disconnect
    <2> QED
      BY <2>1, <2>2, <2>3, <2>4, <2>5, <1>kept, <1>busy, <1>to, DraftStep
         DEF files, locks, history, t
  <1>6. CASE Connect(p)
    <2>1. next \in Fresh /\ ~Connected(d, t.conn) /\ t.kind \notin Issuing \cup {"refresh"}
      BY <1>6 DEF Connect, Issuing, d, t
    <2>2. WithConn(d, t.conn, next) \in Config
      BY <2>1, <1>kept, <1>busy, <1>new, OneConnection
    <2>3. \A g \in WithConn(d, t.conn, next).grants : g.cap < next + 1
      BY <2>1, <1>new DEF WithConn
    <2>4. draft' = [draft EXCEPT ![p] = WithConn(d, t.conn, next)]
      BY <1>6 DEF Connect, d, t, TypeInv, TypeOK
    <2>5. vault' \in [Fresh -> Row]
      BY <1>6, <1>kept, <1>busy, <1>new DEF Connect, Row, t
    <2>6. /\ Move(p, "saving") /\ next' = next + 1
          /\ UNCHANGED <<config, client, marker, locks, task, seen, faults, history>>
      BY <1>6 DEF Connect
    <2> QED
      BY <2>1, <2>2, <2>3, <2>4, <2>5, <2>6, <1>kept, <1>busy, <1>to, <1>new, DraftStep
         DEF locks, history, t
  <1>7. CASE QuickAdd(p)
    <2> DEFINE g == [name |-> t.name, conn |-> t.conn, cred |-> next, cap |-> next,
                     token |-> next]
               base == WithConn(d, t.conn, next)
               new == WithGrants(base, base.grants \cup {g})
    <2>1. next \in Fresh /\ ~Connected(d, t.conn) /\ GrantsNamed(d, t.name) = {}
      BY <1>7 DEF QuickAdd, d, t
    <2>2. base \in Config /\ base.grants = d.grants /\ base.conns[t.conn] # 0
      BY <2>1, <1>kept, <1>busy, <1>new, OneConnection, ConfigParts DEF WithConn
    <2>3. g \in Grant /\ g.conn = t.conn /\ g.name = t.name /\ g.cap = next
      BY <2>1, <1>new, <1>busy DEF Grant
    <2>4. \A h \in base.grants : h.name # g.name /\ h.cap # g.cap
      BY <2>1, <2>2, <2>3, <1>kept DEF GrantsNamed
    <2> HIDE DEF base, g
    <2>5. new \in Config
      BY <2>2, <2>3, <2>4, OneMoreGrant
    <2>6. \A h \in new.grants : h.cap < next + 1
      BY <2>1, <2>2, <2>3, <1>new DEF WithGrants
    <2>7. g \in new.grants
      BY DEF WithGrants
    <2>8. draft' = [draft EXCEPT ![p] = new]
      <3>1. draft' = [draft EXCEPT ![p] = WithGrants(base, d.grants \cup {g})]
        BY <1>7 DEF QuickAdd, d, t, base, g
      <3> QED
        BY <2>2, <3>1
    <2>9. vault' \in [Fresh -> Row]
      BY <1>7, <1>kept, <1>busy, <1>new DEF QuickAdd, Row, t
    <2>10. /\ Move(p, "writing") /\ next' = next + 1
           /\ UNCHANGED <<config, client, marker, locks, task, seen, faults, history>>
      BY <1>7 DEF QuickAdd
    <2> HIDE DEF new
    <2> QED
      BY <2>1, <2>3, <2>5, <2>6, <2>7, <2>8, <2>9, <2>10, <1>kept, <1>busy, <1>to, <1>new,
         DraftStep DEF locks, history, t
  <1>8. CASE Apply(p)
    <2> DEFINE grants == {g \in d.grants : Inventory[g.conn] = g.cred}
               new == [conns |-> Inventory, grants |-> grants]
    <2>1. Inventory \in [Conns -> 0..MaxFresh]
      BY <1>kept, InventoryType
    <2>2. \A g \in grants : Inventory[g.conn] # 0
      BY <1>kept, ConfigParts DEF Grant, Fresh
    <2>3. \A g, h \in grants : g.name = h.name \/ g.cap = h.cap => g = h
      BY <1>kept, ConfigParts DEF Valid
    <2>4. new \in Config
      BY <2>1, <2>2, <2>3, <1>kept, ConfigParts, ConfigMade
    <2>5. \A g \in new.grants : g.cap < next
      BY <1>kept
    <2>6. t.kind \notin Issuing \cup {"refresh"}
      BY <1>8 DEF Apply, Issuing, t
    <2>7. draft' = [draft EXCEPT ![p] = new]
      BY <1>8 DEF Apply, d, TypeInv, TypeOK
    <2>8. Move(p, "saving") /\ UNCHANGED <<files, locks, task, seen, next, faults, history>>
      BY <1>8 DEF Apply
    <2> HIDE DEF new
    <2> QED
      BY <2>4, <2>5, <2>6, <2>7, <2>8, <1>kept, <1>busy, <1>to, DraftStep
         DEF files, locks, history, t
  <1> QED
    BY <1>1, <1>2, <1>3, <1>4, <1>5, <1>6, <1>7, <1>8

(* A step that makes no capability leaves all of them below the counter.      *)
LEMMA NoNewCapability ==
    ASSUME TypeInv,
           next' \in {next, next + 1},
           config' = config \/ \E p \in Procs : config' = draft[p],
           \A q \in Procs : draft'[q] \in {draft[q], Nothing},
           dead' \subseteq dead \cup Capabilities(config)
    PROVE  CapsAreOld'
  <1>1. \A k \in Nat : k < next => k < next'
    BY DEF TypeInv, TypeOK
  <1>2. \A g \in config.grants : g.cap < next'
    BY <1>1, ConfigParts DEF TypeInv, TypeOK, CapsAreOld, Grant, Fresh
  <1>3. \A q \in Procs : \A g \in draft[q].grants : g.cap < next'
    <2>1. \A q \in Procs : \A g \in draft[q].grants : g.cap \in Nat
      BY ConfigParts DEF TypeInv, TypeOK, Grant, Fresh
    <2> QED
      BY <1>1, <2>1 DEF TypeInv, CapsAreOld
  <1>4. \A k \in dead : k < next'
    <2>1. \A k \in dead : k \in Nat
      BY DEF TypeInv, TypeOK, Fresh
    <2> QED
      BY <1>1, <2>1 DEF TypeInv, CapsAreOld
  <1>5. \A g \in config'.grants : g.cap < next'
    <2>1. CASE config' = config
      BY <1>2, <2>1
    <2>2. CASE \E p \in Procs : config' = draft[p]
      <3>p. PICK p \in Procs : config' = draft[p]
        BY <2>2
      <3>1. \A g \in draft[p].grants : g.cap < next'
        BY <1>3
      <3> QED
        BY <3>p, <3>1
    <2> QED
      BY <2>1, <2>2
  <1>6. \A q \in Procs : \A g \in draft'[q].grants : g.cap < next'
    BY <1>3 DEF Nothing
  <1>7. \A k \in dead' : k < next'
    BY <1>2, <1>4 DEF Capabilities
  <1> QED
    BY <1>5, <1>6, <1>7 DEF CapsAreOld

(* p returns, or moves on with the draft it has.                              *)
Onward(p, to) ==
    /\ Move(p, to)
    /\ to \in Stages \ {"idle", "writing"}
    /\ to = "saving" => stage[p] = "writing"
    /\ UNCHANGED <<brokerLock, task, draft>>
    /\ configLock' \in {configLock, Released(configLock, p)}

LEMMA KeptDraft ==
    ASSUME TypeInv, NEW p \in Procs, stage[p] # "idle",
           Return(p) \/ \E to \in Stages : Onward(p, to)
    PROVE  /\ stage' \in [Procs -> Stages] /\ TaskKnown' /\ GrantInDraft'
           /\ task' \in [Procs -> Tasks \cup {NoTask}]
           /\ draft' \in [Procs -> Config]
           /\ brokerLock' \in Procs \cup {NoProc}
           /\ configLock' \in Procs \cup {NoProc}
           /\ \A q \in Procs : draft'[q] \in {draft[q], Nothing}
  <1>1. CASE Return(p)
    BY <1>1, ReturnStep
  <1>2. CASE \E to \in Stages : Onward(p, to)
    <2>p. PICK to \in Stages : Onward(p, to)
      BY <1>2
    <2>1. /\ draft' = draft /\ draft \in [Procs -> Config]
          /\ task' = task /\ task \in [Procs -> Tasks \cup {NoTask}] /\ task[p] \in Tasks
      BY <2>p DEF Onward, TypeInv, TypeOK, TaskKnown
    <2>2. Move(p, to) /\ stage'[p] = to
      BY <2>p DEF Onward, Move, TypeInv, TypeOK
    <2>3. Issues(p)' => Issues(p)
      BY <2>p, <2>2 DEF Onward, Issues
    <2>4. Issues(p)' => \E g \in draft'[p].grants : g.name = task'[p].name
      BY <2>1, <2>3 DEF TypeInv, GrantInDraft
    <2>5. stage' \in [Procs -> Stages] /\ TaskKnown' /\ GrantInDraft'
      BY <2>1, <2>2, <2>4, MoveStep
    <2>6. brokerLock' \in Procs \cup {NoProc} /\ configLock' \in Procs \cup {NoProc}
      BY <2>p DEF Onward, Released, TypeInv, TypeOK
    <2> QED
      BY <2>1, <2>5, <2>6
  <1> QED
    BY <1>1, <1>2

(* An error inside update: p returns or goes on to take its file back.        *)
LEMMA FailMoves ==
    ASSUME NEW p \in Procs, Fail(p)
    PROVE  Return(p) \/ \E to \in Stages : Onward(p, to)
  <1>1. "undoing" \in Stages \ {"idle", "writing"}
    BY DEF Stages
  <1> QED
    BY <1>1 DEF Fail, Onward

(* The capability that a process writes into a client file is one.            *)
LEMMA GrantedType ==
    ASSUME TypeInv, NEW p \in Procs, Issues(p)
    PROVE  Granted(p) \in 0..MaxFresh
  <1>1. \E g \in draft[p].grants : g.name = task[p].name
    BY DEF TypeInv, GrantInDraft
  <1>2. (CHOOSE g \in draft[p].grants : g.name = task[p].name) \in Grant
    BY <1>1, ConfigParts DEF TypeInv, TypeOK
  <1> QED
    BY <1>2, ManagementAssumption DEF Granted, Grant, Fresh

(* A fault is counted up to the bound.                                        *)
LEMMA CostsType ==
    ASSUME TypeInv, NEW outcome \in Saves, Costs(outcome)
    PROVE  faults' \in 0..MaxFaults
  BY ManagementAssumption DEF Costs, TypeInv, TypeOK

LEMMA TypeStepRest ==
    ASSUME TypeInv, NEW p \in Procs,
           MergeRows(p) \/ WriteClient(p) \/ Save(p) \/ ReplaceToken(p)
    PROVE  TypeInv'
  <1>kept. /\ vault \in [Fresh -> Row] /\ client \in [Names -> 0..MaxFresh]
           /\ promised \in [Names -> 0..MaxFresh] /\ faults \in 0..MaxFaults
           /\ next \in 1..(MaxFresh + 1) /\ imported \subseteq Fresh
           /\ 0 \in 0..MaxFresh /\ NoRow \in Row
           /\ \A n \in 0..MaxFaults : n < MaxFaults => n + 1 \in 0..MaxFaults
    BY ManagementAssumption DEF TypeInv, TypeOK, NoRow, Row
  <1>fresh. next \in Fresh => next \in 0..MaxFresh /\ next + 1 \in 1..(MaxFresh + 1)
    BY ManagementAssumption DEF Fresh
  <1>busy. stage[p] # "idle" /\ task[p] \in Tasks /\ task[p].name \in Names
    <2>1. stage[p] # "idle"
      BY DEF MergeRows, WriteClient, Save, ReplaceToken
    <2> QED
      BY <2>1, ManagementAssumption DEF TypeInv, TaskKnown
  <1>row. \A i \in Fresh : next \in Fresh => [vault EXCEPT ![i].token = next] \in [Fresh -> Row]
    BY <1>kept, <1>fresh DEF Row
  <1>1. CASE MergeRows(p)
    <2>1. Return(p) \/ \E to \in Stages : Onward(p, to)
      <3>1. "waiting" \in Stages \ {"idle", "writing"}
        BY DEF Stages
      <3> QED
        BY <1>1, <3>1 DEF MergeRows, Onward, locks
    <2>2. /\ vault' \in [Fresh -> Row] /\ imported' \subseteq Fresh
          /\ next' \in {next, next + 1} /\ next' \in 1..(MaxFresh + 1)
      BY <1>1, <1>kept, <1>fresh, <1>row DEF MergeRows
    <2>3. UNCHANGED <<config, client, marker, seen, faults, dead, promised>>
      BY <1>1 DEF MergeRows
    <2>4. CapsAreOld'
      BY <1>busy, <2>1, <2>2, <2>3, KeptDraft, NoNewCapability
    <2> QED
      BY <1>busy, <2>1, <2>2, <2>3, <2>4, KeptDraft DEF TypeInv, TypeOK
  <1>2. CASE WriteClient(p)
    <2>p. PICK outcome \in Saves :
          /\ IF task[p].kind \in Issuing => client[task[p].name] = 0
             THEN Costs(outcome) ELSE outcome = "failed" /\ UNCHANGED faults
          /\ client' = IF Reached(outcome)
                       THEN [client EXCEPT ![task[p].name] = Granted(p)] ELSE client
          /\ promised' = IF Reached(outcome)
                         THEN [promised EXCEPT ![task[p].name] = 0] ELSE promised
          /\ IF outcome = "written"
             THEN Move(p, "saving") /\ UNCHANGED <<locks, task, draft>>
             ELSE Fail(p)
      BY <1>2 DEF WriteClient
    <2>0. stage[p] = "writing" /\ UNCHANGED <<config, vault, marker, seen, next, dead, imported>>
      BY <1>2 DEF WriteClient
    <2>1. Return(p) \/ \E to \in Stages : Onward(p, to)
      <3>1. "saving" \in Stages \ {"idle", "writing"}
        BY DEF Stages
      <3>2. outcome = "written" => Onward(p, "saving")
        BY <2>p, <2>0, <3>1 DEF Onward, locks
      <3> QED
        BY <2>p, <3>1, <3>2, FailMoves
    <2>2. faults' \in 0..MaxFaults
      BY <2>p, <1>kept, CostsType
    <2>3. Granted(p) \in 0..MaxFresh
      BY <2>0, GrantedType DEF Issues
    <2>4. client' \in [Names -> 0..MaxFresh] /\ promised' \in [Names -> 0..MaxFresh]
      BY <2>p, <2>3, <1>kept, <1>busy
    <2>5. CapsAreOld'
      BY <1>busy, <2>0, <2>1, KeptDraft, NoNewCapability
    <2> QED
      BY <1>busy, <2>0, <2>1, <2>2, <2>4, <2>5, KeptDraft DEF TypeInv, TypeOK
  <1>3. CASE Save(p)
    <2>p. PICK outcome \in Saves :
          /\ Costs(outcome)
          /\ config' = IF Reached(outcome) THEN draft[p] ELSE config
          /\ dead' = IF Reached(outcome)
                     THEN dead \cup (Capabilities(config) \ Capabilities(draft[p])) ELSE dead
          /\ promised' = IF Saved(outcome) THEN Answered(p) ELSE promised
          /\ CASE ~Saved(outcome) -> Fail(p)
               [] Saved(outcome) /\ task[p].kind = "token" ->
                    /\ Move(p, "replacing")
                    /\ configLock' = Released(configLock, p)
                    /\ UNCHANGED <<brokerLock, task, draft>>
               [] OTHER -> Return(p)
      BY <1>3 DEF Save
    <2>0. stage[p] = "saving" /\ UNCHANGED <<vault, client, marker, seen, next, imported>>
      BY <1>3 DEF Save
    <2>1. Return(p) \/ \E to \in Stages : Onward(p, to)
      <3>1. "replacing" \in Stages \ {"idle", "writing"}
        BY DEF Stages
      <3>2. Fail(p) \/ Return(p) \/ Onward(p, "replacing")
        BY <2>p, <3>1 DEF Onward
      <3> QED
        BY <3>1, <3>2, FailMoves
    <2>2. config' \in Config /\ faults' \in 0..MaxFaults
      BY <2>p, CostsType DEF TypeInv, TypeOK
    <2>3. promised' \in [Names -> 0..MaxFresh]
      <3>1. Answered(p) \in [Names -> 0..MaxFresh]
        <4>1. CASE task[p].kind \in Issuing \cup {"refresh"}
          <5>1. Granted(p) \in 0..MaxFresh
            BY <2>0, <4>1, GrantedType DEF Issues
          <5> QED
            BY <4>1, <5>1, <1>kept, <1>busy DEF Answered
        <4>2. CASE task[p].kind \notin Issuing \cup {"refresh"}
          BY <4>2, <1>kept DEF Answered
        <4> QED
          BY <4>1, <4>2
      <3> QED
        BY <2>p, <3>1, <1>kept
    <2>4. dead' \subseteq Fresh
      BY <2>p, ConfigParts DEF TypeInv, TypeOK, Capabilities, Grant
    <2>5. CapsAreOld'
      <3>1. dead' \subseteq dead \cup Capabilities(config)
        BY <2>p
      <3>2. config' = config \/ \E q \in Procs : config' = draft[q]
        BY <2>p
      <3> QED
        BY <1>busy, <2>0, <2>1, <3>1, <3>2, KeptDraft, NoNewCapability
    <2> QED
      BY <1>busy, <2>0, <2>1, <2>2, <2>3, <2>4, <2>5, KeptDraft DEF TypeInv, TypeOK
  <1>4. CASE ReplaceToken(p)
    <2>1. Return(p) /\ UNCHANGED <<config, client, marker, seen, history>>
      BY <1>4 DEF ReplaceToken
    <2>2. /\ vault' \in [Fresh -> Row] /\ faults' \in 0..MaxFaults
          /\ next' \in {next, next + 1} /\ next' \in 1..(MaxFresh + 1)
      <3>1. config.conns[task[p].conn] # 0 => config.conns[task[p].conn] \in Fresh
        BY <1>busy, ConfigParts, ManagementAssumption DEF TypeInv, TypeOK, Fresh
      <3>2. CASE UNCHANGED <<vault, next>> /\ faults' \in 0..MaxFaults
        BY <3>2, <1>kept
      <3>3. CASE \E i \in Fresh : /\ next \in Fresh /\ next' = next + 1 /\ UNCHANGED faults
                                 /\ vault' = [vault EXCEPT ![i].token = next]
        BY <3>3, <1>kept, <1>fresh, <1>row
      <3> QED
        BY <1>4, <3>1, <3>2, <3>3, <1>kept DEF ReplaceToken
    <2>3. CapsAreOld'
      BY <1>busy, <2>1, <2>2, KeptDraft, NoNewCapability DEF history
    <2> QED
      BY <1>busy, <2>1, <2>2, <2>3, KeptDraft DEF TypeInv, TypeOK, history
  <1> QED
    BY <1>1, <1>2, <1>3, <1>4

LEMMA TypeStep == TypeInv /\ [Next]_vars => TypeInv'
  <1> SUFFICES ASSUME TypeInv, [Next]_vars PROVE TypeInv'
    OBVIOUS
  <1>1. CASE UNCHANGED vars
    <2>1. UNCHANGED <<config, vault, client, marker, brokerLock, configLock, stage, task,
                      draft, seen, next, faults, dead, promised, imported>>
      BY <1>1 DEF vars, files, locks, memory, history
    <2>2. TypeOK' /\ TaskKnown' /\ CapsAreOld'
      BY <2>1 DEF TypeInv, TypeOK, TaskKnown, CapsAreOld
    <2>3. GrantInDraft'
      BY <2>1 DEF TypeInv, GrantInDraft, Issues
    <2> QED
      BY <2>2, <2>3 DEF TypeInv
  <1>2. CASE Next
    <2>1. PICK p \in Procs : Step(p)
      BY <1>2 DEF Next, Step
    <2> QED
      BY <2>1, TypeStepQuiet, TypeStepDraft, TypeStepRest DEF Step
  <1> QED
    BY <1>1, <1>2

(* Every variable keeps its type.  For the configuration and every draft of   *)
(* it that includes Config::validate: a grant's connection is there, no two   *)
(* grants share a name or a capability, whatever operations overlap and fail. *)
THEOREM TypeCorrect == Spec => []TypeOK
  <1>1. Init => TypeInv
    BY TypeInit
  <1>2. TypeInv /\ [Next]_vars => TypeInv'
    BY TypeStep
  <1>3. TypeInv => TypeOK
    BY DEF TypeInv
  <1> QED
    BY <1>1, <1>2, <1>3, PTL DEF Spec
-----------------------------------------------------------------------------
(* p takes a step that leaves the configuration and the dead alone.  If it is *)
(* inside update afterwards, it has the lock and a draft that is alive.       *)
LEMMA RevocationQuiet ==
    ASSUME RevocationInv, NEW p \in Procs,
           UNCHANGED <<config, dead>>,
           \A q \in Procs \ {p} : stage'[q] = stage[q] /\ draft'[q] = draft[q],
           \A q \in Procs \ {p} : configLock = q => configLock' = q,
           stage'[p] \in Updating =>
             configLock' = p /\ dead \cap Capabilities(draft'[p]) = {}
    PROVE  RevocationInv'
  <1>1. OneUpdate'
    BY DEF RevocationInv, OneUpdate
  <1>2. DraftIsAlive'
    BY DEF RevocationInv, DraftIsAlive, Capabilities
  <1>3. RevokedStaysRevoked'
    BY DEF RevocationInv, RevokedStaysRevoked, Capabilities
  <1> QED
    BY <1>1, <1>2, <1>3 DEF RevocationInv

(* p leaves update, or was never in it.                                       *)
LEMMA RevocationLeave ==
    ASSUME TypeInv, RevocationInv, NEW p \in Procs,
           UNCHANGED <<config, dead>>,
           \/ Return(p)
           \/ /\ \E to \in Stages \ Updating : Move(p, to)
              /\ draft' = draft
              /\ configLock' \in {configLock, Released(configLock, p)}
    PROVE  RevocationInv'
  <1>1. stage'[p] \notin Updating
    BY DEF Return, Move, Updating, TypeInv, TypeOK
  <1>2. \A q \in Procs \ {p} : stage'[q] = stage[q] /\ draft'[q] = draft[q]
    BY DEF Return, Move, TypeInv, TypeOK
  <1>3. \A q \in Procs \ {p} : configLock = q => configLock' = q
    BY DEF Return, Released
  <1> QED
    BY <1>1, <1>2, <1>3, RevocationQuiet

(* p stays in update with a draft that has no new capability but the counter. *)
LEMMA RevocationDraft ==
    ASSUME TypeInv, RevocationInv, NEW p \in Procs, stage[p] \in Updating,
           UNCHANGED <<config, dead, configLock>>,
           NEW to, Move(p, to),
           NEW d, draft' = [draft EXCEPT ![p] = d],
           Capabilities(d) \subseteq Capabilities(draft[p]) \cup {next}
    PROVE  RevocationInv'
  <1>1. next \notin dead
    <2>1. \A k \in dead : k \in Nat /\ k < next
      BY DEF TypeInv, TypeOK, CapsAreOld, Fresh
    <2>2. next \in Nat
      BY ManagementAssumption DEF TypeInv, TypeOK
    <2> QED
      BY <2>1, <2>2
  <1>2. draft'[p] = d /\ \A q \in Procs \ {p} : draft'[q] = draft[q]
    BY DEF TypeInv, TypeOK
  <1>3. dead \cap Capabilities(draft[p]) = {} /\ configLock' = p
    BY DEF RevocationInv, OneUpdate, DraftIsAlive
  <1>4. dead \cap Capabilities(draft'[p]) = {}
    BY <1>1, <1>2, <1>3
  <1>5. \A q \in Procs \ {p} : stage'[q] = stage[q]
    BY DEF Move, TypeInv, TypeOK
  <1>6. \A q \in Procs \ {p} : configLock = q => configLock' = q
    OBVIOUS
  <1> QED
    BY <1>2, <1>3, <1>4, <1>5, <1>6, RevocationQuiet

LEMMA RevocationInit == Init => RevocationInv
  <1> SUFFICES ASSUME Init PROVE RevocationInv
    OBVIOUS
  <1>1. OneUpdate /\ DraftIsAlive
    BY DEF Init, OneUpdate, DraftIsAlive, Updating
  <1>2. RevokedStaysRevoked
    BY DEF Init, RevokedStaysRevoked
  <1> QED
    BY <1>1, <1>2 DEF RevocationInv

LEMMA RevocationStep == TypeInv /\ RevocationInv /\ [Next]_vars => RevocationInv'
  <1> SUFFICES ASSUME TypeInv, RevocationInv, [Next]_vars PROVE RevocationInv'
    OBVIOUS
  <1>0. CASE UNCHANGED vars
    <2>1. UNCHANGED <<config, configLock, stage, draft, dead>>
      BY <1>0 DEF vars, files, locks, memory, history
    <2> QED
      BY <2>1 DEF RevocationInv, OneUpdate, DraftIsAlive, RevokedStaysRevoked, Capabilities
  <1>n. CASE Next
    <2>p. PICK p \in Procs : Step(p)
      BY <1>n DEF Next, Step
    <2>away. {"checked", "waiting", "polling", "editing", "starting", "opening", "serving",
              "undoing", "replacing"} \subseteq Stages \ Updating
      BY DEF Stages, Updating
    <2>1. CASE \E t \in Tasks : Begin(p, t)
      <3>t. PICK t \in Tasks : Begin(p, t)
        BY <2>1
      <3>1. \E to \in Stages \ Updating : Move(p, to)
        BY <3>t, <2>away DEF Begin
      <3> QED
        BY <3>t, <3>1, RevocationLeave DEF Begin, locks, history
    <2>2. CASE TakeBrokerLock(p) \/ ForgetMarker(p) \/ Open(p)
      <3>1. \E to \in Stages \ Updating : Move(p, to)
        BY <2>2, <2>away DEF TakeBrokerLock, ForgetMarker, Open, AfterBrokerLock
      <3>2. UNCHANGED <<config, dead, draft, configLock>>
        BY <2>2 DEF TakeBrokerLock, ForgetMarker, Open, files, locks, history
      <3> QED
        BY <3>1, <3>2, RevocationLeave
    <2>3. CASE \/ BrokerAlreadyRunning(p) \/ TakeBack(p) \/ ReplaceToken(p)
               \/ ListenUnavailable(p) \/ EndByMarker(p) \/ Stop(p) \/ Locked(p) \/ Die(p)
      BY <2>3, RevocationLeave
         DEF BrokerAlreadyRunning, TakeBack, ReplaceToken, ListenUnavailable, EndByMarker,
             Stop, Locked, Die, files, history
    <2>4. CASE DeleteRow(p) \/ MergeRows(p)
      <3>1. Return(p) \/ (Move(p, "waiting") /\ draft' = draft /\ configLock' = configLock)
        BY <2>4 DEF DeleteRow, MergeRows, locks
      <3>2. UNCHANGED <<config, dead>>
        BY <2>4 DEF DeleteRow, MergeRows, history
      <3> QED
        BY <3>1, <3>2, <2>away, RevocationLeave
    <2>5. CASE Refuse(p)
      <3>1. Return(p) \/ \E to \in Stages : to = "undoing" /\ Onward(p, to)
        BY <2>5, <2>away DEF Refuse, Fail, Onward
      <3> QED
        BY <2>5, <2>away, <3>1, RevocationLeave DEF Refuse, Onward, files, history
    <2>6. CASE Load(p)
      <3>1. /\ stage' = [stage EXCEPT ![p] = "acting"] /\ configLock = NoProc
            /\ configLock' = p /\ draft' = [draft EXCEPT ![p] = config]
            /\ UNCHANGED <<config, dead>>
        BY <2>6 DEF Load, CanUpdate, Move, files, history
      <3>2. /\ \A q \in Procs \ {p} : stage'[q] = stage[q] /\ draft'[q] = draft[q]
            /\ draft'[p] = config
        BY <3>1 DEF TypeInv, TypeOK
      <3>3. dead \cap Capabilities(draft'[p]) = {}
        BY <3>2 DEF RevocationInv, RevokedStaysRevoked
      <3>4. \A q \in Procs \ {p} : configLock # q
        BY <3>1, ManagementAssumption
      <3> QED
        BY <3>1, <3>2, <3>3, <3>4, RevocationQuiet
    <2>7. CASE Issue(p)
      <3> DEFINE t == task[p]
                 g == [name |-> t.name, conn |-> t.conn, cred |-> draft[p].conns[t.conn],
                       cap |-> next, token |-> vault[draft[p].conns[t.conn]].token]
                 d == WithGrants(draft[p], draft[p].grants \cup {g})
      <3>1. Capabilities(d) \subseteq Capabilities(draft[p]) \cup {next}
        BY DEF Capabilities, WithGrants
      <3>2. /\ stage[p] \in Updating /\ Move(p, "writing")
            /\ draft' = [draft EXCEPT ![p] = d] /\ UNCHANGED <<config, dead, configLock>>
        BY <2>7 DEF Issue, Updating, files, locks, history
      <3> HIDE DEF d
      <3> QED
        BY <3>1, <3>2, RevocationDraft
    <2>8. CASE Refresh(p)
      <3>g. PICK old \in GrantsNamed(draft[p], task[p].name) :
              draft' = [draft EXCEPT ![p] = WithGrants(draft[p], (draft[p].grants \ {old})
                \cup {[old EXCEPT !.cap = next, !.token = vault[old.cred].token]})]
        BY <2>8 DEF Refresh
      <3> DEFINE g == [old EXCEPT !.cap = next, !.token = vault[old.cred].token]
                 d == WithGrants(draft[p], (draft[p].grants \ {old}) \cup {g})
      <3>1. g.cap = next
        <4>1. old \in Grant
          BY ConfigParts DEF GrantsNamed, TypeInv, TypeOK
        <4> QED
          BY <4>1 DEF Grant
      <3>2. draft' = [draft EXCEPT ![p] = d]
        BY <3>g
      <3> HIDE DEF g
      <3>3. Capabilities(d) \subseteq Capabilities(draft[p]) \cup {next}
        BY <3>1 DEF Capabilities, WithGrants
      <3>4. /\ stage[p] \in Updating /\ Move(p, "writing")
            /\ UNCHANGED <<config, dead, configLock>>
        BY <2>8 DEF Refresh, Updating, files, locks, history
      <3> HIDE DEF d
      <3> QED
        BY <3>2, <3>3, <3>4, RevocationDraft
    <2>9. CASE Revoke(p) \/ RevokeForToken(p)
      <3>g. PICK grants \in SUBSET draft[p].grants : Edit(p, grants)
        BY <2>9 DEF Revoke, RevokeForToken
      <3>1. /\ stage[p] \in Updating /\ Move(p, "saving")
            /\ draft' = [draft EXCEPT ![p] = WithGrants(draft[p], grants)]
            /\ UNCHANGED <<config, dead, configLock>>
        BY <2>9, <3>g
           DEF Revoke, RevokeForToken, Edit, Updating, files, locks, history, TypeInv, TypeOK
      <3>2. Capabilities(WithGrants(draft[p], grants)) \subseteq Capabilities(draft[p])
        BY DEF Capabilities, WithGrants
      <3> QED
        BY <3>1, <3>2, RevocationDraft
    <2>10. CASE Disconnect(p)
      <3> DEFINE d == Unbound(draft[p], task[p].conn)
      <3>1. /\ stage[p] \in Updating /\ Move(p, "saving")
            /\ draft' = [draft EXCEPT ![p] = d]
            /\ UNCHANGED <<config, dead, configLock>>
        BY <2>10 DEF Disconnect, Updating, files, locks, history, TypeInv, TypeOK
      <3>2. Capabilities(d) \subseteq Capabilities(draft[p])
        BY DEF Capabilities, Unbound, WithGrants
      <3> HIDE DEF d
      <3> QED
        BY <3>1, <3>2, RevocationDraft
    <2>11. CASE Connect(p)
      <3> DEFINE d == WithConn(draft[p], task[p].conn, next)
      <3>1. /\ stage[p] \in Updating /\ Move(p, "saving")
            /\ draft' = [draft EXCEPT ![p] = d]
            /\ UNCHANGED <<config, dead, configLock>>
        BY <2>11 DEF Connect, Updating, locks, history, TypeInv, TypeOK
      <3>2. Capabilities(d) \subseteq Capabilities(draft[p])
        BY DEF Capabilities, WithConn
      <3> HIDE DEF d
      <3> QED
        BY <3>1, <3>2, RevocationDraft
    <2>12. CASE QuickAdd(p)
      <3> DEFINE t == task[p]
                 g == [name |-> t.name, conn |-> t.conn, cred |-> next, cap |-> next,
                       token |-> next]
                 d == WithGrants(WithConn(draft[p], t.conn, next), draft[p].grants \cup {g})
      <3>1. Capabilities(d) \subseteq Capabilities(draft[p]) \cup {next}
        BY DEF Capabilities, WithGrants
      <3>2. /\ stage[p] \in Updating /\ Move(p, "writing")
            /\ draft' = [draft EXCEPT ![p] = d] /\ UNCHANGED <<config, dead, configLock>>
        BY <2>12 DEF QuickAdd, Updating, locks, history
      <3> HIDE DEF d
      <3> QED
        BY <3>1, <3>2, RevocationDraft
    <2>13. CASE Apply(p)
      <3> DEFINE d == [conns |-> Inventory,
                       grants |-> {g \in draft[p].grants : Inventory[g.conn] = g.cred}]
      <3>1. /\ stage[p] \in Updating /\ Move(p, "saving")
            /\ draft' = [draft EXCEPT ![p] = d]
            /\ UNCHANGED <<config, dead, configLock>>
        BY <2>13 DEF Apply, Updating, files, locks, history, TypeInv, TypeOK
      <3>2. Capabilities(d) \subseteq Capabilities(draft[p])
        BY DEF Capabilities
      <3> HIDE DEF d
      <3> QED
        BY <3>1, <3>2, RevocationDraft
    <2>14. CASE WriteClient(p)
      <3>1. UNCHANGED <<config, dead>>
        BY <2>14 DEF WriteClient
      <3>2. \/ Move(p, "saving") /\ UNCHANGED <<locks, task, draft>>
            \/ Fail(p)
        BY <2>14 DEF WriteClient
      <3>3. CASE Move(p, "saving") /\ UNCHANGED <<locks, task, draft>>
        <4>1. stage[p] \in Updating /\ configLock' = configLock
          BY <2>14, <3>3 DEF WriteClient, Updating, locks
        <4>2. draft' = [draft EXCEPT ![p] = draft[p]]
          BY <3>3 DEF TypeInv, TypeOK
        <4> QED
          BY <3>1, <3>3, <4>1, <4>2, RevocationDraft
      <3>4. CASE Fail(p)
        <4>1. Return(p) \/ \E to \in Stages : to = "undoing" /\ Onward(p, to)
          BY <3>4, <2>away DEF Fail, Onward
        <4> QED
          BY <3>1, <2>away, <4>1, RevocationLeave DEF Onward
      <3> QED
        BY <3>2, <3>3, <3>4
    <2>15. CASE Save(p)
      <3>g. PICK outcome \in Saves :
              /\ config' = IF Reached(outcome) THEN draft[p] ELSE config
              /\ dead' = IF Reached(outcome)
                         THEN dead \cup (Capabilities(config) \ Capabilities(draft[p]))
                         ELSE dead
              /\ CASE ~Saved(outcome) -> Fail(p)
                   [] Saved(outcome) /\ task[p].kind = "token" ->
                        /\ Move(p, "replacing")
                        /\ configLock' = Released(configLock, p)
                        /\ UNCHANGED <<brokerLock, task, draft>>
                   [] OTHER -> Return(p)
        BY <2>15 DEF Save
      <3>1. stage[p] = "saving" /\ stage[p] \in Updating
        BY <2>15 DEF Save, Updating
      <3>2. \/ Return(p)
            \/ /\ \E to \in {"undoing", "replacing"} : Move(p, to)
               /\ draft' = draft
               /\ configLock' \in {configLock, Released(configLock, p)}
        BY <3>g DEF Fail
      <3>3. CASE ~Reached(outcome)
        BY <3>g, <3>2, <3>3, <2>away, RevocationLeave
      <3>4. CASE Reached(outcome)
        <4>1. \A q \in Procs : stage'[q] \notin Updating
          <5>1. \A q \in Procs \ {p} : stage[q] \notin Updating
            BY <3>1 DEF RevocationInv, OneUpdate
          <5>2. stage'[p] \notin Updating /\ \A q \in Procs \ {p} : stage'[q] = stage[q]
            BY <3>2 DEF Return, Move, Updating, TypeInv, TypeOK
          <5> QED
            BY <5>1, <5>2
        <4>2. dead \cap Capabilities(draft[p]) = {}
          BY <3>1 DEF RevocationInv, DraftIsAlive
        <4>3. Capabilities(config)' = Capabilities(draft[p])
          BY <3>g, <3>4 DEF Capabilities
        <4>4. RevokedStaysRevoked'
          BY <3>g, <3>4, <4>2, <4>3 DEF RevokedStaysRevoked
        <4>5. OneUpdate' /\ DraftIsAlive'
          BY <4>1 DEF OneUpdate, DraftIsAlive
        <4> QED
          BY <4>4, <4>5 DEF RevocationInv
      <3> QED
        BY <3>3, <3>4
    <2> QED
      BY <2>p, <2>1, <2>2, <2>3, <2>4, <2>5, <2>6, <2>7, <2>8, <2>9, <2>10, <2>11, <2>12,
         <2>13, <2>14, <2>15 DEF Step
  <1> QED
    BY <1>0, <1>n

(* config.rs, ConfigStore::update: a capability that was taken away never     *)
(* comes back, whatever other operations were under way, failed or died.      *)
THEOREM RevocationSticks == Spec => []RevokedStaysRevoked
  <1>1. Init => TypeInv /\ RevocationInv
    BY TypeInit, RevocationInit
  <1>2. TypeInv /\ RevocationInv /\ [Next]_vars => (TypeInv /\ RevocationInv)'
    BY TypeStep, RevocationStep
  <1>3. TypeInv /\ RevocationInv => RevokedStaysRevoked
    BY DEF RevocationInv
  <1> QED
    BY <1>1, <1>2, <1>3, PTL DEF Spec
-----------------------------------------------------------------------------
(* p takes a step.  Who has the broker lock keeps it, p has it if it must,    *)
(* and only who has it changes the vault or opens it.                         *)
LEMMA VaultQuiet ==
    ASSUME VaultInv, NEW p \in Procs,
           \A q \in Procs \ {p} : stage'[q] = stage[q] /\ task'[q] = task[q],
           \A q \in Procs \ {p} : brokerLock = q => brokerLock' = q,
           Owns(stage[p], task[p])' => brokerLock' = p,
           Owns(stage[p], task[p]) \/ UNCHANGED <<vault, seen>>,
           stage'[p] = "serving" => seen' = vault'
    PROVE  VaultInv'
  <1>1. OwnerHolds'
    BY DEF VaultInv, OwnerHolds
  <1>2. BrokerServesTheVault'
    <2> SUFFICES ASSUME NEW q \in Procs, stage'[q] = "serving" PROVE seen' = vault'
      BY DEF BrokerServesTheVault
    <2>1. CASE q # p
      <3>1. stage[q] = "serving" /\ brokerLock = q
        BY <2>1 DEF VaultInv, OwnerHolds, Owns
      <3>2. ~Owns(stage[p], task[p])
        BY <2>1, <3>1 DEF VaultInv, OwnerHolds
      <3> QED
        BY <3>1, <3>2 DEF VaultInv, BrokerServesTheVault
    <2> QED
      BY <2>1
  <1> QED
    BY <1>1, <1>2 DEF VaultInv

LEMMA VaultReturn ==
    ASSUME TypeInv, VaultInv, NEW p \in Procs, Return(p),
           Owns(stage[p], task[p]) \/ UNCHANGED <<vault, seen>>
    PROVE  VaultInv'
  <1>1. stage'[p] = "idle" /\ \A q \in Procs \ {p} : stage'[q] = stage[q] /\ task'[q] = task[q]
    BY DEF Return, Move, TypeInv, TypeOK
  <1>2. \A q \in Procs \ {p} : brokerLock = q => brokerLock' = q
    BY DEF Return, Released
  <1>3. ~Owns(stage[p], task[p])'
    BY <1>1 DEF Owns
  <1> QED
    BY <1>1, <1>2, <1>3, VaultQuiet

(* p moves on; the lock stays where it is.                                    *)
LEMMA VaultMove ==
    ASSUME TypeInv, VaultInv, NEW p \in Procs, NEW to, Move(p, to), to # "serving",
           NEW t, t = task'[p], \A q \in Procs \ {p} : task'[q] = task[q],
           Owns(to, t) => Owns(stage[p], task[p]),
           Owns(stage[p], task[p]) \/ UNCHANGED <<vault, seen>>,
           brokerLock' = brokerLock
    PROVE  VaultInv'
  <1>1. stage'[p] = to /\ \A q \in Procs \ {p} : stage'[q] = stage[q]
    BY DEF Move, TypeInv, TypeOK
  <1>2. Owns(stage[p], task[p])' => brokerLock' = p
    BY <1>1 DEF VaultInv, OwnerHolds
  <1> QED
    BY <1>1, <1>2, VaultQuiet

LEMMA VaultStep == TypeInv /\ VaultInv /\ [Next]_vars => VaultInv'
  <1> SUFFICES ASSUME TypeInv, VaultInv, [Next]_vars PROVE VaultInv'
    OBVIOUS
  <1>0. CASE UNCHANGED vars
    <2>1. UNCHANGED <<vault, seen, stage, task, brokerLock>>
      BY <1>0 DEF vars, files, locks, memory
    <2> QED
      BY <2>1 DEF VaultInv, OwnerHolds, BrokerServesTheVault
  <1>n. CASE Next
    <2>p. PICK p \in Procs : Step(p)
      BY <1>n DEF Next, Step
    <2>1. CASE \E t \in Tasks : Begin(p, t)
      <3>t. PICK t \in Tasks : Begin(p, t)
        BY <2>1
      <3>1. t = task'[p] /\ \A q \in Procs \ {p} : task'[q] = task[q]
        BY <3>t DEF Begin, TypeInv, TypeOK
      <3>2. /\ \E to \in {"waiting", "polling", "checked"} :
                 Move(p, to) /\ (to = "waiting" => t.kind = "revoke")
            /\ UNCHANGED <<vault, seen, brokerLock>>
        BY <3>t DEF Begin, locks
      <3> QED
        BY <3>1, <3>2, VaultMove DEF Owns
    <2>2. CASE TakeBrokerLock(p)
      <3>1. /\ brokerLock = NoProc /\ brokerLock' = p
            /\ UNCHANGED <<vault, seen, task>>
        BY <2>2 DEF TakeBrokerLock, CanOwnVault, files
      <3>2. stage'[p] # "serving" /\ \A q \in Procs \ {p} : stage'[q] = stage[q]
        BY <2>2 DEF TakeBrokerLock, AfterBrokerLock, Move, TypeInv, TypeOK
      <3>3. \A q \in Procs \ {p} : brokerLock # q
        BY <3>1, ManagementAssumption
      <3> QED
        BY <3>1, <3>2, <3>3, VaultQuiet
    <2>3. CASE \/ BrokerAlreadyRunning(p) \/ TakeBack(p) \/ ReplaceToken(p)
               \/ ListenUnavailable(p) \/ EndByMarker(p) \/ Stop(p) \/ Locked(p) \/ Die(p)
      <3>1. Return(p)
        BY <2>3 DEF BrokerAlreadyRunning, TakeBack, ReplaceToken, ListenUnavailable,
                    EndByMarker, Stop, Locked, Die
      <3>2. stage[p] = "replacing" \/ UNCHANGED <<vault, seen>>
        BY <2>3 DEF BrokerAlreadyRunning, TakeBack, ReplaceToken, ListenUnavailable,
                    EndByMarker, Stop, Locked, Die, files
      <3> QED
        BY <3>1, <3>2, VaultReturn DEF Owns
    <2>4. CASE DeleteRow(p) \/ MergeRows(p)
      <3>1. Return(p) \/ (Move(p, "waiting") /\ UNCHANGED <<locks, task>>)
        BY <2>4 DEF DeleteRow, MergeRows
      <3>2. Owns(stage[p], task[p])
        BY <2>4 DEF DeleteRow, MergeRows, Owns
      <3> QED
        BY <3>1, <3>2, VaultReturn, VaultMove DEF locks
    <2>5. CASE \/ Load(p) \/ Issue(p) \/ Refresh(p) \/ Revoke(p) \/ RevokeForToken(p)
               \/ Disconnect(p) \/ Apply(p)
      <3>1. /\ \E to \in {"acting", "writing", "saving"} :
                 Move(p, to) /\ (to = "writing" => task[p].kind # "revoke")
            /\ stage[p] \in {"waiting", "acting"}
        BY <2>5 DEF Load, Issue, Refresh, Revoke, RevokeForToken, Disconnect, Apply, Edit
      <3>2. UNCHANGED <<vault, seen, task, brokerLock>>
        BY <2>5 DEF Load, Issue, Refresh, Revoke, RevokeForToken, Disconnect, Apply, Edit,
                    files, locks
      <3> QED
        BY <3>1, <3>2, VaultMove DEF Owns
    <2>6. CASE Connect(p) \/ QuickAdd(p)
      <3>1. /\ Move(p, "saving") \/ Move(p, "writing")
            /\ stage[p] = "acting" /\ task[p].kind # "revoke"
            /\ UNCHANGED <<task, brokerLock>>
        BY <2>6 DEF Connect, QuickAdd, locks
      <3> QED
        BY <3>1, VaultMove DEF Owns
    <2>7. CASE Refuse(p) \/ WriteClient(p) \/ Save(p)
      <3>1. UNCHANGED <<vault, seen>> /\ stage[p] \in {"acting", "writing", "saving"}
        BY <2>7 DEF Refuse, WriteClient, Save, files
      <3>2. \/ Fail(p) \/ Return(p)
            \/ /\ Move(p, "saving") \/ (Move(p, "replacing") /\ task[p].kind = "token")
               /\ UNCHANGED <<task, brokerLock>>
        BY <2>7 DEF Refuse, WriteClient, Save, locks
      <3>3. \/ Return(p)
            \/ /\ \E to \in {"saving", "replacing", "undoing"} :
                    Move(p, to) /\ (to # "saving" => task[p].kind # "revoke")
               /\ UNCHANGED <<task, brokerLock>>
        BY <3>2 DEF Fail, TakesBack, Issuing
      <3> QED
        BY <3>1, <3>3, VaultReturn, VaultMove DEF Owns
    <2>8. CASE ForgetMarker(p)
      BY <2>8, VaultMove DEF ForgetMarker, locks, Owns
    <2>9. CASE Open(p)
      <3>1. /\ stage[p] = "opening" /\ seen' = vault'
            /\ UNCHANGED <<task, brokerLock>>
        BY <2>9 DEF Open, files, locks
      <3>2. \A q \in Procs \ {p} : stage'[q] = stage[q]
        BY <2>9 DEF Open, Move, TypeInv, TypeOK
      <3>3. Owns(stage[p], task[p]) /\ brokerLock = p
        BY <3>1 DEF Owns, VaultInv, OwnerHolds
      <3> QED
        BY <3>1, <3>2, <3>3, VaultQuiet
    <2> QED
      BY <2>p, <2>1, <2>2, <2>3, <2>4, <2>5, <2>6, <2>7, <2>8, <2>9 DEF Step
  <1> QED
    BY <1>0, <1>n

(* admin.rs: no operation edits the vault behind a broker that serves from    *)
(* its own copy, as each holds the broker lock while it does.                 *)
THEOREM BrokerVaultIsCurrent == Spec => []BrokerServesTheVault
  <1>1. Init => TypeInv /\ VaultInv
    <2>1. Init => VaultInv
      BY DEF Init, VaultInv, OwnerHolds, BrokerServesTheVault, Owns
    <2> QED
      BY <2>1, TypeInit
  <1>2. TypeInv /\ VaultInv /\ [Next]_vars => (TypeInv /\ VaultInv)'
    BY TypeStep, VaultStep
  <1>3. TypeInv /\ VaultInv => BrokerServesTheVault
    BY DEF VaultInv
  <1> QED
    BY <1>1, <1>2, <1>3, PTL DEF Spec
-----------------------------------------------------------------------------
(* What a grant is bound to.                                                  *)

(* A configuration binds every grant to the credential of its connection, and *)
(* no two connections share one; its credentials come from the counter.       *)
Sound(c, limit) ==
    /\ \A n \in Conns : c.conns[n] < limit
    /\ \A m, n \in Conns : c.conns[m] = c.conns[n] /\ c.conns[m] # 0 => m = n
    /\ \A g \in c.grants : g.cred = c.conns[g.conn]
BindingsAreSound ==
    /\ Sound(config, next)
    /\ \A p \in Procs : Sound(draft[p], next)
    /\ \A i \in Fresh : vault[i].token # 0 => i < next

(* A configuration that is about to be written would keep the promise too.    *)
Keeps(c, rows, others) == \A g \in c.grants : rows[g.cred].token \in {0, g.token} \cup others
DraftsKeepTheirToken ==
    \A p \in Procs : stage[p] \in Updating => Keeps(draft[p], vault, imported)

(* A revocation, which runs beside the operations on the vault, only takes    *)
(* grants away.                                                               *)
Shrinking ==
    \A p \in Procs : stage[p] \in Updating /\ task[p].kind = "revoke" =>
      draft[p].conns = config.conns /\ draft[p].grants \subseteq config.grants

(* update_token replaces a token that no grant is bound to any more.          *)
Freed ==
    \A p \in Procs :
      /\ stage[p] = "saving" /\ task[p].kind = "token" => GrantsOf(draft[p], task[p].conn) = {}
      /\ stage[p] = "replacing" => GrantsOf(config, task[p].conn) = {}

(* Only an operation that binds a capability writes a client file.            *)
Binding(kind) == kind \in Issuing \cup {"refresh"}
WritersBind == \A p \in Procs : stage[p] = "writing" => Binding(task[p].kind)

TokenInv ==
    /\ BindingsAreSound /\ DraftsKeepTheirToken /\ Shrinking /\ Freed /\ WritersBind
    /\ GrantsKeepTheirToken

LEMMA KeepsIsTheProperty == GrantsKeepTheirToken <=> Keeps(config, vault, imported)
BY DEF GrantsKeepTheirToken, Keeps

LEMMA SoundLater ==
    ASSUME NEW c \in Config, NEW n \in Nat, Sound(c, n)
    PROVE  Sound(c, n + 1)
<1>1. \A m \in Conns : c.conns[m] \in Nat
  BY ConfigParts, ManagementAssumption
<1>2. QED BY <1>1 DEF Sound

LEMMA NothingIsSound == ASSUME NEW n \in Nat \ {0} PROVE Sound(Nothing, n)
BY DEF Sound, Nothing

LEMMA NothingKeeps == ASSUME NEW rows, NEW others PROVE Keeps(Nothing, rows, others)
BY DEF Keeps, Nothing

(* Rows go, or get a token from elsewhere.                                    *)
LEMMA KeepsLater ==
    ASSUME NEW c \in Config, NEW old, NEW now, NEW before, NEW after, before \subseteq after,
           \A g \in c.grants : now[g.cred].token \in {0, old[g.cred].token} \cup after,
           Keeps(c, old, before)
    PROVE  Keeps(c, now, after)
BY DEF Keeps

LEMMA CredIsFresh == ASSUME NEW c \in Config, NEW g \in c.grants
                     PROVE  g.cred \in Fresh /\ g.conn \in Conns
BY ConfigParts DEF Grant
-----------------------------------------------------------------------------
(* p does not come to edit a configuration: rows go or are merged.            *)
LEMMA TokenQuiet ==
    ASSUME TypeInv, TokenInv, NEW p \in Procs,
           UNCHANGED config, next' \in {next, next + 1}, imported \subseteq imported',
           \A i \in Fresh : /\ vault'[i].token \in {0, vault[i].token} \cup imported'
                            /\ vault'[i].token # 0 => vault[i].token # 0,
           \A q \in Procs \ {p} : stage'[q] = stage[q] /\ task'[q] = task[q] /\ draft'[q] = draft[q],
           draft'[p] \in {draft[p], Nothing},
           stage'[p] \notin Updating \cup {"replacing"}
    PROVE  TokenInv'
<1>1. next \in Nat \ {0} /\ next' \in Nat \ {0} /\ config \in Config /\ draft \in [Procs -> Config]
  BY ManagementAssumption DEF TypeInv, TypeOK
<1>2. \A c \in Config : Sound(c, next) => Sound(c, next')
  BY <1>1, SoundLater
<1>3. \A q \in Procs : draft'[q] \in Config /\ Sound(draft'[q], next')
  BY <1>1, <1>2, NothingIsSound, NothingIsValid DEF TokenInv, BindingsAreSound
<1>4. \A i \in Fresh : i < next => i < next'
  BY <1>1, ManagementAssumption DEF Fresh
<1>5. BindingsAreSound'
  BY <1>1, <1>2, <1>3, <1>4 DEF TokenInv, BindingsAreSound
<1>6. \A c \in Config : Keeps(c, vault, imported) => Keeps(c, vault', imported')
  BY KeepsLater, CredIsFresh
<1>7. DraftsKeepTheirToken'
  BY <1>1, <1>6 DEF TokenInv, DraftsKeepTheirToken
<1>8. GrantsKeepTheirToken'
  BY <1>1, <1>6, KeepsIsTheProperty DEF TokenInv, Keeps, GrantsKeepTheirToken
<1>9. Shrinking' BY DEF TokenInv, Shrinking, Updating
<1>10. Freed' /\ WritersBind' BY DEF TokenInv, Freed, WritersBind, Updating
<1>11. QED BY <1>5, <1>7, <1>8, <1>9, <1>10 DEF TokenInv

(* The same for a process that returns or moves on.                           *)
LEMMA TokenLeave ==
    ASSUME TypeInv, TokenInv, NEW p \in Procs,
           UNCHANGED config, next' \in {next, next + 1}, imported \subseteq imported',
           \A i \in Fresh : /\ vault'[i].token \in {0, vault[i].token} \cup imported'
                            /\ vault'[i].token # 0 => vault[i].token # 0,
           \/ Return(p)
           \/ /\ \E to \in Stages \ (Updating \cup {"replacing"}) : Move(p, to)
              /\ draft' = draft
              /\ task' = task \/ \E t \in Tasks : task' = [task EXCEPT ![p] = t]
    PROVE  TokenInv'
<1>1. stage'[p] \notin Updating \cup {"replacing"}
  BY DEF Return, Move, Updating, TypeInv, TypeOK
<1>2. \A q \in Procs \ {p} : stage'[q] = stage[q] /\ task'[q] = task[q] /\ draft'[q] = draft[q]
  BY DEF Return, Move, TypeInv, TypeOK
<1>3. draft'[p] \in {draft[p], Nothing}
  BY DEF Return, TypeInv, TypeOK
<1>4. QED BY <1>1, <1>2, <1>3, TokenQuiet

(* p edits its draft; a row may be added.                                     *)
LEMMA TokenDraft ==
    ASSUME TypeInv, TokenInv, NEW p \in Procs,
           UNCHANGED <<config, task, imported>>, next' \in {next, next + 1},
           \A i \in Fresh : i < next => vault'[i] = vault[i],
           \A i \in Fresh : vault'[i].token # 0 => i < next',
           NEW to \in Updating, Move(p, to),
           NEW d \in Config, draft' = [draft EXCEPT ![p] = d],
           Sound(d, next'), Keeps(d, vault', imported),
           task[p].kind = "revoke" => d.conns = config.conns /\ d.grants \subseteq config.grants,
           to = "writing" => Binding(task[p].kind),
           to = "saving" /\ task[p].kind = "token" => GrantsOf(d, task[p].conn) = {}
    PROVE  TokenInv'
<1>1. next \in Nat \ {0} /\ next' \in Nat \ {0} /\ config \in Config /\ draft \in [Procs -> Config]
  BY ManagementAssumption DEF TypeInv, TypeOK
<1>2. \A c \in Config : Sound(c, next) => Sound(c, next')
  BY <1>1, SoundLater
<1>3. draft'[p] = d /\ \A q \in Procs \ {p} : draft'[q] = draft[q]
  BY <1>1
<1>4. stage'[p] = to /\ \A q \in Procs \ {p} : stage'[q] = stage[q]
  BY DEF Move, TypeInv, TypeOK
<1>5. BindingsAreSound'
  BY <1>1, <1>2, <1>3 DEF TokenInv, BindingsAreSound
<1>6. \A c \in Config : Sound(c, next) /\ Keeps(c, vault, imported) => Keeps(c, vault', imported)
  <2> SUFFICES ASSUME NEW c \in Config, Sound(c, next), Keeps(c, vault, imported), NEW g \in c.grants
               PROVE  vault'[g.cred] = vault[g.cred]
    BY DEF Keeps
  <2>1. g.cred \in Fresh /\ g.cred < next BY CredIsFresh DEF Sound
  <2>2. QED BY <2>1
<1>7. DraftsKeepTheirToken'
  <2> SUFFICES ASSUME NEW q \in Procs, stage'[q] \in Updating
               PROVE  Keeps(draft'[q], vault', imported)
    BY DEF DraftsKeepTheirToken
  <2>1. CASE q = p BY <1>3, <2>1
  <2>2. CASE q # p
    BY <1>1, <1>3, <1>4, <1>6, <2>2 DEF TokenInv, DraftsKeepTheirToken, BindingsAreSound
  <2>3. QED BY <2>1, <2>2
<1>8. GrantsKeepTheirToken'
  <2>1. Keeps(config, vault', imported)
    BY <1>1, <1>6, KeepsIsTheProperty DEF TokenInv, BindingsAreSound
  <2>2. QED BY <2>1 DEF Keeps, GrantsKeepTheirToken
<1>9. Shrinking' BY <1>3, <1>4 DEF TokenInv, Shrinking
<1>10. Freed' /\ WritersBind' BY <1>3, <1>4 DEF TokenInv, Freed, WritersBind, Updating
<1>11. QED BY <1>5, <1>7, <1>8, <1>9, <1>10 DEF TokenInv

(* p writes its draft, which becomes the configuration.                       *)
LEMMA TokenSaved ==
    ASSUME TypeInv, RevocationInv, VaultInv, TokenInv, NEW p \in Procs, stage[p] = "saving",
           config' = draft[p], UNCHANGED <<vault, next, imported>>,
           \/ Return(p)
           \/ Move(p, "undoing") /\ UNCHANGED <<task, draft>>
           \/ Move(p, "replacing") /\ UNCHANGED <<task, draft>> /\ task[p].kind = "token"
    PROVE  TokenInv'
<1>1. next \in Nat \ {0} /\ config \in Config /\ draft \in [Procs -> Config]
  BY ManagementAssumption DEF TypeInv, TypeOK
<1>2. /\ \A q \in Procs \ {p} : stage'[q] = stage[q] /\ task'[q] = task[q] /\ draft'[q] = draft[q]
      /\ draft'[p] \in {draft[p], Nothing}
      /\ stage'[p] \in {"idle", "undoing", "replacing"}
      /\ stage'[p] = "replacing" => task[p].kind = "token" /\ task'[p] = task[p]
  BY DEF Return, Move, TypeInv, TypeOK
<1>3. BindingsAreSound'
  BY <1>1, <1>2, NothingIsSound DEF TokenInv, BindingsAreSound
<1>4. \A q \in Procs : stage'[q] \notin Updating
  BY <1>2 DEF RevocationInv, OneUpdate, Updating
<1>5. DraftsKeepTheirToken' /\ Shrinking' /\ WritersBind'
  BY <1>4 DEF DraftsKeepTheirToken, Shrinking, WritersBind, Updating
<1>6. GrantsKeepTheirToken'
  <2>1. Keeps(draft[p], vault, imported) BY DEF TokenInv, DraftsKeepTheirToken, Updating
  <2>2. QED BY <2>1 DEF Keeps, GrantsKeepTheirToken
<1>7. Freed'
  <2> SUFFICES ASSUME NEW q \in Procs, stage'[q] = "replacing"
               PROVE  GrantsOf(draft[p], task'[q].conn) = {}
    BY <1>4 DEF Freed, Updating, GrantsOf
  <2>1. CASE q = p BY <1>2, <2>1 DEF TokenInv, Freed
  <2>2. CASE q # p
    <3>1. stage[q] = "replacing" /\ task'[q] = task[q] BY <1>2, <2>2
    <3>2. brokerLock = q BY <3>1 DEF VaultInv, OwnerHolds, Owns
    <3>3. task[p].kind = "revoke" BY <2>2, <3>2 DEF VaultInv, OwnerHolds, Owns
    <3>4. draft[p].grants \subseteq config.grants BY <3>3 DEF TokenInv, Shrinking, Updating
    <3>5. GrantsOf(config, task[q].conn) = {} BY <3>1 DEF TokenInv, Freed
    <3>6. QED BY <3>1, <3>4, <3>5 DEF GrantsOf
  <2>3. QED BY <2>1, <2>2
<1>8. QED BY <1>3, <1>5, <1>6, <1>7 DEF TokenInv

(* update_token gives the row a token of its own.                             *)
LEMMA TokenReplaced ==
    ASSUME TypeInv, RevocationInv, VaultInv, TokenInv, NEW p \in Procs, ReplaceToken(p)
    PROVE  TokenInv'
<1> DEFINE i == config.conns[task[p].conn]
<1>1. /\ stage[p] = "replacing" /\ Return(p) /\ UNCHANGED <<config, imported>>
  BY DEF ReplaceToken, history
<1>2. \/ UNCHANGED <<vault, next>>
      \/ /\ i # 0 /\ vault[i].token # 0 /\ next \in Fresh
         /\ vault' = [vault EXCEPT ![i].token = next] /\ next' = next + 1
  BY DEF ReplaceToken, Present
<1>3. CASE UNCHANGED <<vault, next>>
  BY <1>1, <1>3, TokenLeave
<1>4. CASE /\ i # 0 /\ vault[i].token # 0 /\ next \in Fresh
           /\ vault' = [vault EXCEPT ![i].token = next] /\ next' = next + 1
  <2>1. next \in Nat \ {0} /\ config \in Config /\ draft \in [Procs -> Config]
        /\ vault \in [Fresh -> Row] /\ task[p] \in Tasks
    BY <1>1, ManagementAssumption DEF TypeInv, TypeOK, TaskKnown
  <2>2. task[p].conn \in Conns BY <2>1, ManagementAssumption
  <2>3. \A n \in Fresh : n # i => vault'[n] = vault[n]
    BY <1>4, <2>1
  <2>4. i \in Fresh BY <1>4, <2>1, <2>2, ConfigParts, ManagementAssumption DEF Fresh
  <2>5. \A n \in Fresh : vault'[n].token # 0 => vault[n].token # 0
    BY <1>4, <2>3, <2>4
  <2>6. \A g \in config.grants : g.cred # i
    <3> SUFFICES ASSUME NEW g \in config.grants, g.cred = i PROVE FALSE OBVIOUS
    <3>1. g.cred = config.conns[g.conn] /\ g.conn \in Conns
      BY <2>1, CredIsFresh DEF TokenInv, BindingsAreSound, Sound
    <3>2. g.conn = task[p].conn
      BY <1>4, <2>2, <3>1 DEF TokenInv, BindingsAreSound, Sound
    <3>3. GrantsOf(config, task[p].conn) = {} BY <1>1 DEF TokenInv, Freed
    <3>4. QED BY <3>2, <3>3 DEF GrantsOf
  <2>7. /\ stage'[p] = "idle"
        /\ \A q \in Procs \ {p} : stage'[q] = stage[q] /\ task'[q] = task[q] /\ draft'[q] = draft[q]
        /\ draft'[p] = Nothing
    BY <1>1 DEF Return, Move, TypeInv, TypeOK
  <2>8. \A q \in Procs \ {p} : stage[q] \in Updating => draft[q].grants \subseteq config.grants
    <3> SUFFICES ASSUME NEW q \in Procs \ {p}, stage[q] \in Updating
                 PROVE  draft[q].grants \subseteq config.grants
      OBVIOUS
    <3>1. brokerLock = p BY <1>1 DEF VaultInv, OwnerHolds, Owns
    <3>2. task[q].kind = "revoke" BY <3>1 DEF VaultInv, OwnerHolds, Owns, Updating
    <3>3. QED BY <3>2 DEF TokenInv, Shrinking
  <2>9. BindingsAreSound'
    <3>1. \A c \in Config : Sound(c, next) => Sound(c, next + 1) BY <2>1, SoundLater
    <3>2. Sound(config, next + 1) BY <2>1, <3>1 DEF TokenInv, BindingsAreSound
    <3>3. \A q \in Procs : Sound(draft'[q], next + 1)
      <4>1. Sound(Nothing, next + 1) BY <2>1, NothingIsSound
      <4>2. QED BY <2>1, <2>7, <3>1, <4>1 DEF TokenInv, BindingsAreSound
    <3>4. \A n \in Fresh : vault'[n].token # 0 => n < next + 1
      <4>1. \A n \in Fresh : vault[n].token # 0 => n < next BY DEF TokenInv, BindingsAreSound
      <4>2. QED BY <2>1, <2>5, <4>1 DEF Fresh
    <3>5. QED BY <1>1, <1>4, <3>2, <3>3, <3>4 DEF BindingsAreSound
  <2>10. \A c \in Config : c.grants \subseteq config.grants /\ Keeps(c, vault, imported)
                              => Keeps(c, vault', imported)
    <3> SUFFICES ASSUME NEW c \in Config, c.grants \subseteq config.grants, NEW g \in c.grants
                 PROVE  vault'[g.cred] = vault[g.cred]
      BY DEF Keeps
    <3>1. QED BY <2>3, <2>6, CredIsFresh
  <2>11. DraftsKeepTheirToken'
    BY <1>1, <2>1, <2>7, <2>8, <2>10 DEF TokenInv, DraftsKeepTheirToken, Updating
  <2>12. GrantsKeepTheirToken'
    <3>1. Keeps(config, vault', imported)
      BY <2>1, <2>10, KeepsIsTheProperty DEF TokenInv
    <3>2. QED BY <1>1, <3>1 DEF Keeps, GrantsKeepTheirToken
  <2>13. Shrinking' BY <1>1, <2>7 DEF TokenInv, Shrinking, Updating
  <2>14. Freed' /\ WritersBind' BY <1>1, <2>7 DEF TokenInv, Freed, WritersBind, Updating
  <2>15. QED BY <2>9, <2>11, <2>12, <2>13, <2>14 DEF TokenInv
<1>5. QED BY <1>2, <1>3, <1>4

(* No connection shares a credential in what the vault's rows describe.       *)
LEMMA InventorySound ==
    ASSUME TypeInv, TokenInv, NEW grants, \A g \in grants : g.cred = Inventory[g.conn]
    PROVE  Sound([conns |-> Inventory, grants |-> grants], next)
<1>1. next \in Nat \ {0} BY ManagementAssumption DEF TypeInv, TypeOK
<1>2. \A c \in Conns : Inventory[c] = 0 \/ (Inventory[c] \in Fresh /\ vault[Inventory[c]].conn = c
                                            /\ vault[Inventory[c]].token # 0)
  BY DEF Inventory, RowsOf, Present
<1>3. \A i \in Fresh : vault[i].token # 0 => i < next BY DEF TokenInv, BindingsAreSound
<1>4. \A c \in Conns : Inventory[c] < next BY <1>1, <1>2, <1>3
<1>5. \A m, n \in Conns : Inventory[m] = Inventory[n] /\ Inventory[m] # 0 => m = n BY <1>2
<1> HIDE DEF Inventory
<1>6. QED BY <1>4, <1>5 DEF Sound

LEMMA SoundWithConn ==
    ASSUME NEW c \in Config, NEW n \in Nat \ {0}, Sound(c, n), NEW m \in Conns, c.conns[m] = 0
    PROVE  Sound(WithConn(c, m, n), n + 1)
<1>1. c.conns \in [Conns -> 0..MaxFresh] /\ MaxFresh \in Nat BY ConfigParts, ManagementAssumption
<1>2. \A k \in Conns : c.conns[k] < n /\ c.conns[k] \in Nat BY <1>1 DEF Sound
<1> DEFINE w == [c.conns EXCEPT ![m] = n]
<1>3. \A k \in Conns : w[k] = IF k = m THEN n ELSE c.conns[k] BY <1>1
<1>4. \A g \in c.grants : g.conn \in Conns /\ g.conn # m /\ g.cred = c.conns[g.conn]
  BY ConfigParts, CredIsFresh DEF Valid, Sound
<1> HIDE DEF w
<1>5. \A k \in Conns : w[k] < n + 1 BY <1>2, <1>3
<1>6. \A j, k \in Conns : w[j] = w[k] /\ w[j] # 0 => j = k
  <2> SUFFICES ASSUME NEW j \in Conns, NEW k \in Conns, w[j] = w[k], w[j] # 0 PROVE j = k OBVIOUS
  <2>1. c.conns[j] # n /\ c.conns[k] # n BY <1>2
  <2>2. QED BY <1>3, <2>1 DEF Sound
<1>7. \A g \in c.grants : g.cred = w[g.conn] BY <1>3, <1>4
<1>8. WithConn(c, m, n).conns = w /\ WithConn(c, m, n).grants = c.grants BY DEF WithConn, w
<1>9. QED BY <1>5, <1>6, <1>7, <1>8 DEF Sound

LEMMA SoundGrants ==
    ASSUME NEW c, NEW n, Sound(c, n), NEW grants, \A g \in grants : g \in c.grants \/ g.cred = c.conns[g.conn]
    PROVE  Sound(WithGrants(c, grants), n)
BY DEF Sound, WithGrants

LEMMA TokenInit == Init => TokenInv
<1> SUFFICES ASSUME Init PROVE TokenInv OBVIOUS
<1>1. next \in Nat \ {0} /\ \A p \in Procs : draft[p] = Nothing BY DEF Init
<1>2. BindingsAreSound BY <1>1, NothingIsSound DEF Init, BindingsAreSound, NoRow
<1>3. DraftsKeepTheirToken /\ Shrinking /\ Freed /\ WritersBind
  BY DEF Init, DraftsKeepTheirToken, Shrinking, Freed, WritersBind, Updating
<1>4. GrantsKeepTheirToken BY DEF Init, Nothing, GrantsKeepTheirToken
<1>5. QED BY <1>2, <1>3, <1>4 DEF TokenInv

LEMMA TokenStepQuiet ==
    ASSUME TypeInv, TokenInv, NEW p \in Procs,
           \/ \E t \in Tasks : Begin(p, t)
           \/ TakeBrokerLock(p) \/ BrokerAlreadyRunning(p) \/ Refuse(p)
           \/ DeleteRow(p) \/ MergeRows(p) \/ TakeBack(p)
           \/ ForgetMarker(p) \/ Open(p) \/ ListenUnavailable(p)
           \/ EndByMarker(p) \/ Stop(p) \/ Locked(p) \/ Die(p)
    PROVE  TokenInv'
<1>away. {"checked", "waiting", "polling", "editing", "starting", "opening", "serving", "undoing"}
            \subseteq Stages \ (Updating \cup {"replacing"})
  BY DEF Stages, Updating
<1>1. CASE \E t \in Tasks : Begin(p, t)
  <2>t. PICK t \in Tasks : Begin(p, t) BY <1>1
  <2>1. \E to \in Stages \ (Updating \cup {"replacing"}) : Move(p, to) BY <2>t, <1>away DEF Begin
  <2>2. UNCHANGED <<config, vault, next, imported, draft>> /\ task' = [task EXCEPT ![p] = t]
    BY <2>t DEF Begin, history
  <2>3. QED BY <2>1, <2>2, TokenLeave
<1>2. CASE TakeBrokerLock(p) \/ ForgetMarker(p) \/ Open(p)
  <2>1. \E to \in Stages \ (Updating \cup {"replacing"}) : Move(p, to)
    BY <1>2, <1>away DEF TakeBrokerLock, ForgetMarker, Open, AfterBrokerLock
  <2>2. UNCHANGED <<config, vault, next, imported, draft, task>>
    BY <1>2 DEF TakeBrokerLock, ForgetMarker, Open, files, history
  <2>3. QED BY <2>1, <2>2, TokenLeave
<1>3. CASE \/ BrokerAlreadyRunning(p) \/ TakeBack(p) \/ ListenUnavailable(p) \/ EndByMarker(p)
           \/ Stop(p) \/ Locked(p) \/ Die(p)
  <2>1. Return(p) /\ UNCHANGED <<config, vault, next, imported>>
    BY <1>3 DEF BrokerAlreadyRunning, TakeBack, ListenUnavailable, EndByMarker, Stop, Locked, Die,
                files, history
  <2>2. QED BY <2>1, TokenLeave
<1>4. CASE Refuse(p)
  <2>1. Return(p) \/ (Move(p, "undoing") /\ UNCHANGED <<task, draft>>) BY <1>4 DEF Refuse, Fail
  <2>2. UNCHANGED <<config, vault, next, imported>> BY <1>4 DEF Refuse, files, history
  <2>3. QED BY <1>away, <2>1, <2>2, TokenLeave
<1>5. CASE DeleteRow(p)
  <2>1. Return(p) \/ (Move(p, "waiting") /\ UNCHANGED <<task, draft>>) BY <1>5 DEF DeleteRow
  <2>2. UNCHANGED <<config, next, imported>> BY <1>5 DEF DeleteRow, history
  <2>3. \A i \in Fresh : vault'[i].token \in {0, vault[i].token}
    BY <1>5 DEF DeleteRow, NoRow, TypeInv, TypeOK
  <2>4. QED BY <1>away, <2>1, <2>2, <2>3, TokenLeave
<1>6. CASE MergeRows(p)
  <2>1. Return(p) \/ (Move(p, "waiting") /\ UNCHANGED <<task, draft>>) BY <1>6 DEF MergeRows
  <2>2. UNCHANGED config /\ next' \in {next, next + 1} /\ imported \subseteq imported'
    BY <1>6 DEF MergeRows
  <2>3. vault \in [Fresh -> Row] BY DEF TypeInv, TypeOK
  <2>4. \A i \in Fresh : /\ vault'[i].token \in {0, vault[i].token} \cup imported'
                         /\ vault'[i].token # 0 => vault[i].token # 0
    <3>1. CASE UNCHANGED vault BY <3>1
    <3>2. CASE \E i \in Fresh : vault' = [vault EXCEPT ![i] = NoRow]
      BY <2>3, <3>2 DEF NoRow
    <3>3. CASE \E i \in Fresh : /\ Present(i) /\ vault' = [vault EXCEPT ![i].token = next]
                                /\ imported' = imported \cup {next}
      <4>1. PICK i \in Fresh : /\ Present(i) /\ vault' = [vault EXCEPT ![i].token = next]
                               /\ imported' = imported \cup {next}
        BY <3>3
      <4>2. vault[i] \in Row /\ vault'[i] = [vault[i] EXCEPT !.token = next]
            /\ \A n \in Fresh : n # i => vault'[n] = vault[n]
        BY <2>3, <4>1
      <4>3. vault'[i].token = next BY <4>2 DEF Row
      <4>4. QED BY <4>1, <4>2, <4>3 DEF Present
    <3>4. QED BY <1>6, <3>1, <3>2, <3>3 DEF MergeRows
  <2>5. QED BY <1>away, <2>1, <2>2, <2>4, TokenLeave
<1>7. QED BY <1>1, <1>2, <1>3, <1>4, <1>5, <1>6

LEMMA TokenStepDraft ==
    ASSUME TypeInv, RevocationInv, TokenInv, NEW p \in Procs,
           \/ Load(p) \/ Issue(p) \/ Refresh(p) \/ Revoke(p) \/ RevokeForToken(p)
           \/ Disconnect(p) \/ Connect(p) \/ QuickAdd(p) \/ Apply(p)
    PROVE  TokenInv'
<1> DEFINE d == draft[p]
           t == task[p]
<1>old. /\ next \in Nat \ {0} /\ config \in Config /\ d \in Config /\ vault \in [Fresh -> Row]
        /\ \A c \in Config : Sound(c, next) => Sound(c, next + 1)
        /\ Sound(config, next) /\ Sound(d, next)
        /\ \A i \in Fresh : vault[i].token # 0 => i < next
        /\ Keeps(config, vault, imported)
  BY SoundLater, KeepsIsTheProperty, ManagementAssumption DEF TypeInv, TypeOK, TokenInv, BindingsAreSound
<1>in. stage[p] \in Updating => /\ Keeps(d, vault, imported)
                                /\ t.kind = "revoke" => d.conns = config.conns /\ d.grants \subseteq config.grants
  BY DEF TokenInv, DraftsKeepTheirToken, Shrinking
<1>type. TypeInv' BY TypeStepDraft
<1>made. draft'[p] \in Config BY <1>type DEF TypeInv, TypeOK
<1>busy. t \in Tasks /\ t.name \in Names /\ t.conn \in Conns
  <2>1. stage[p] # "idle"
    BY DEF Load, Issue, Refresh, Revoke, RevokeForToken, Disconnect, Connect, QuickAdd, Apply
  <2>2. QED BY <2>1, ManagementAssumption DEF TypeInv, TaskKnown
<1>up. "acting" \in Updating /\ "writing" \in Updating /\ "saving" \in Updating BY DEF Updating
<1>is. \A e : draft' = [draft EXCEPT ![p] = e] => draft'[p] = e BY DEF TypeInv, TypeOK
<1>acts. stage[p] = "acting" => stage[p] \in Updating BY DEF Updating
<1> HIDE DEF d, t
<1>1. CASE Load(p)
  <2>1. draft' = [draft EXCEPT ![p] = config] /\ Move(p, "acting")
        /\ UNCHANGED <<config, task, vault, next, imported>>
    BY <1>1 DEF Load, files, history
  <2>2. QED BY <1>old, <1>up, <2>1, TokenDraft
<1>2. CASE Issue(p)
  <2> DEFINE g == [name |-> t.name, conn |-> t.conn, cred |-> d.conns[t.conn],
                   cap |-> next, token |-> vault[d.conns[t.conn]].token]
             new == WithGrants(d, d.grants \cup {g})
  <2>1. /\ stage[p] = "acting" /\ t.kind = "issue" /\ next' = next + 1 /\ Move(p, "writing")
        /\ draft' = [draft EXCEPT ![p] = new] /\ UNCHANGED <<config, task, vault, imported>>
    BY <1>2 DEF Issue, d, t, files, history
  <2>2. new \in Config BY <1>made, <1>is, <2>1
  <2>3. Sound(new, next + 1)
    <3>1. Sound(d, next + 1) BY <1>old
    <3>2. g.cred = d.conns[g.conn] OBVIOUS
    <3> HIDE DEF g
    <3>3. QED BY <3>1, <3>2, SoundGrants
  <2>4. Keeps(new, vault, imported)
    <3>1. vault[g.cred].token = g.token OBVIOUS
    <3> HIDE DEF g
    <3>2. QED BY <1>in, <1>acts, <2>1, <3>1 DEF Keeps, WithGrants
  <2>5. \A i \in Fresh : vault[i].token # 0 => i < next + 1 BY <1>old, ManagementAssumption DEF Fresh
  <2>6. task[p].kind # "revoke" /\ Binding(task[p].kind) /\ "writing" # "saving"
    BY <2>1 DEF t, Binding, Issuing
  <2> HIDE DEF new
  <2>7. QED BY <1>up, <2>1, <2>2, <2>3, <2>4, <2>5, <2>6, TokenDraft
<1>3. CASE Refresh(p)
  <2>g. PICK old \in GrantsNamed(d, t.name) :
          /\ old.cred = d.conns[old.conn]
          /\ draft' = [draft EXCEPT ![p] = WithGrants(d, (d.grants \ {old})
                \cup {[old EXCEPT !.cap = next, !.token = vault[old.cred].token]})]
    BY <1>3 DEF Refresh, d, t
  <2> DEFINE g == [old EXCEPT !.cap = next, !.token = vault[old.cred].token]
             new == WithGrants(d, (d.grants \ {old}) \cup {g})
  <2>1. /\ stage[p] = "acting" /\ t.kind = "refresh" /\ next' = next + 1 /\ Move(p, "writing")
        /\ UNCHANGED <<config, task, vault, imported>>
    BY <1>3 DEF Refresh, d, t, files, history
  <2>2. draft' = [draft EXCEPT ![p] = new] BY <2>g
  <2>3. g.cred = old.cred /\ g.conn = old.conn /\ g.token = vault[old.cred].token
    <3>1. old \in Grant BY <1>old, ConfigParts DEF GrantsNamed
    <3>2. QED BY <3>1 DEF Grant
  <2> HIDE DEF g
  <2>4. new \in Config BY <1>made, <1>is, <2>2
  <2>5. Sound(new, next + 1)
    <3>1. Sound(d, next + 1) BY <1>old
    <3>2. g.cred = d.conns[g.conn] BY <2>g, <2>3
    <3>3. QED BY <3>1, <3>2, SoundGrants
  <2>6. Keeps(new, vault, imported)
    BY <1>in, <1>acts, <2>1, <2>3 DEF Keeps, WithGrants
  <2>7. \A i \in Fresh : vault[i].token # 0 => i < next + 1 BY <1>old, ManagementAssumption DEF Fresh
  <2>8. task[p].kind # "revoke" /\ Binding(task[p].kind) /\ "writing" # "saving"
    BY <2>1 DEF t, Binding
  <2> HIDE DEF new
  <2>9. QED BY <1>up, <2>1, <2>2, <2>4, <2>5, <2>6, <2>7, <2>8, TokenDraft
<1>4. CASE Revoke(p) \/ RevokeForToken(p)
  <2>g. PICK grants \in SUBSET d.grants :
          /\ Edit(p, grants)
          /\ t.kind = "token" => grants = d.grants \ GrantsOf(d, t.conn)
    BY <1>4 DEF Revoke, RevokeForToken, d, t
  <2> DEFINE new == WithGrants(d, grants)
  <2>1. /\ stage[p] \in Updating /\ Move(p, "saving") /\ draft' = [draft EXCEPT ![p] = new]
        /\ UNCHANGED <<config, task, vault, next, imported>>
    BY <1>4, <2>g DEF Revoke, RevokeForToken, Edit, Updating, files, history, TypeInv, TypeOK, d
  <2>2. new \in Config BY <1>made, <1>is, <2>1
  <2>3. Sound(new, next) BY <1>old, SoundGrants
  <2>4. Keeps(new, vault, imported) BY <1>in, <2>1 DEF Keeps, WithGrants
  <2>5. t.kind = "revoke" => new.conns = config.conns /\ new.grants \subseteq config.grants
    BY <1>in, <2>1 DEF WithGrants
  <2>6. t.kind = "token" => GrantsOf(new, t.conn) = {} BY <2>g DEF GrantsOf, WithGrants
  <2> HIDE DEF new
  <2>7. QED BY <1>old, <1>up, <2>1, <2>2, <2>3, <2>4, <2>5, <2>6, TokenDraft DEF t
<1>5. CASE Disconnect(p)
  <2> DEFINE new == Unbound(d, t.conn)
  <2>1. /\ stage[p] = "acting" /\ t.kind = "delete" /\ Move(p, "saving")
        /\ draft' = [draft EXCEPT ![p] = new] /\ UNCHANGED <<config, task, vault, next, imported>>
    BY <1>5 DEF Disconnect, files, history, TypeInv, TypeOK, d, t
  <2>2. new \in Config BY <1>made, <1>is, <2>1
  <2>3. new.conns = [d.conns EXCEPT ![t.conn] = 0] /\ new.grants = d.grants \ GrantsOf(d, t.conn)
    BY DEF Unbound, WithGrants, WithConn
  <2>4. Sound(new, next)
    <3>1. d.conns \in [Conns -> 0..MaxFresh] BY <1>old, ConfigParts
    <3>2. \A k \in Conns : new.conns[k] = IF k = t.conn THEN 0 ELSE d.conns[k] BY <2>3, <3>1
    <3>3. \A g \in new.grants : g \in d.grants /\ g.conn \in Conns /\ g.conn # t.conn
      BY <1>old, <2>3, CredIsFresh DEF GrantsOf
    <3> HIDE DEF new
    <3>4. \A k \in Conns : new.conns[k] < next BY <1>old, <3>2 DEF Sound
    <3>5. \A m, n \in Conns : new.conns[m] = new.conns[n] /\ new.conns[m] # 0 => m = n
      BY <1>old, <3>2 DEF Sound
    <3>6. \A g \in new.grants : g.cred = new.conns[g.conn] BY <1>old, <3>2, <3>3 DEF Sound
    <3>7. QED BY <3>4, <3>5, <3>6 DEF Sound
  <2>5. Keeps(new, vault, imported) BY <1>in, <1>acts, <2>1, <2>3 DEF Keeps
  <2>6. task[p].kind # "revoke" /\ task[p].kind # "token" BY <2>1 DEF t
  <2> HIDE DEF new
  <2>7. QED BY <1>old, <1>up, <2>1, <2>2, <2>4, <2>5, <2>6, TokenDraft
<1>row. ASSUME NEW row, next \in Fresh, vault' = [vault EXCEPT ![next] = row]
        PROVE  /\ \A i \in Fresh : i < next => vault'[i] = vault[i]
               /\ \A i \in Fresh : vault'[i].token # 0 => i < next + 1
               /\ vault'[next] = row
  <2>1. \A i \in Fresh : i # next => vault'[i] = vault[i] BY <1>old, <1>row
  <2>2. \A i \in Fresh : i \in Nat BY DEF Fresh
  <2>3. \A i \in Fresh : i < next => i # next BY <1>old, <2>2
  <2>4. \A i \in Fresh : vault'[i].token # 0 => i < next + 1 BY <1>old, <2>1, <2>2
  <2>5. QED BY <1>old, <1>row, <2>1, <2>3, <2>4
<1>kept. ASSUME NEW c \in Config, Sound(c, next), Keeps(c, vault, imported),
                \A i \in Fresh : i < next => vault'[i] = vault[i]
         PROVE  Keeps(c, vault', imported)
  <2>1. \A g \in c.grants : g.cred \in Fresh /\ g.cred < next BY <1>kept, CredIsFresh DEF Sound
  <2>2. QED BY <1>kept, <2>1 DEF Keeps
<1>6. CASE Connect(p)
  <2> DEFINE new == WithConn(d, t.conn, next)
             row == [conn |-> t.conn, token |-> next]
  <2>1. /\ stage[p] = "acting" /\ t.kind = "add" /\ next' = next + 1 /\ Move(p, "saving")
        /\ d.conns[t.conn] = 0 /\ next \in Fresh /\ vault' = [vault EXCEPT ![next] = row]
        /\ draft' = [draft EXCEPT ![p] = new] /\ UNCHANGED <<config, task, imported>>
    BY <1>6 DEF Connect, Connected, history, TypeInv, TypeOK, d, t
  <2>2. new \in Config BY <1>made, <1>is, <2>1
  <2>3. Sound(new, next + 1) BY <1>old, <1>busy, <2>1, SoundWithConn
  <2>4. Keeps(d, vault', imported) BY <1>old, <1>in, <1>acts, <1>row, <1>kept, <2>1
  <2>5. Keeps(new, vault', imported) BY <2>4 DEF Keeps, WithConn
  <2>6. task[p].kind # "revoke" /\ task[p].kind # "token" BY <2>1 DEF t
  <2>7. /\ \A i \in Fresh : i < next => vault'[i] = vault[i]
        /\ \A i \in Fresh : vault'[i].token # 0 => i < next + 1
    BY <1>row, <2>1
  <2> HIDE DEF new
  <2>8. QED BY <1>up, <2>1, <2>2, <2>3, <2>5, <2>6, <2>7, TokenDraft
<1>7. CASE QuickAdd(p)
  <2> DEFINE g == [name |-> t.name, conn |-> t.conn, cred |-> next, cap |-> next, token |-> next]
             base == WithConn(d, t.conn, next)
             new == WithGrants(base, d.grants \cup {g})
             row == [conn |-> t.conn, token |-> next]
  <2>1. /\ stage[p] = "acting" /\ t.kind = "quick" /\ next' = next + 1 /\ Move(p, "writing")
        /\ d.conns[t.conn] = 0 /\ next \in Fresh /\ vault' = [vault EXCEPT ![next] = row]
        /\ draft' = [draft EXCEPT ![p] = new] /\ UNCHANGED <<config, task, imported>>
    BY <1>7 DEF QuickAdd, Connected, history, TypeInv, TypeOK, d, t
  <2>2. new \in Config BY <1>made, <1>is, <2>1
  <2>3. Sound(base, next + 1) BY <1>old, <1>busy, <2>1, SoundWithConn
  <2>4. base.conns[g.conn] = g.cred /\ base.grants = d.grants
    <3>1. d.conns \in [Conns -> 0..MaxFresh] BY <1>old, ConfigParts
    <3>2. QED BY <1>busy, <3>1 DEF WithConn
  <2>5. Keeps(d, vault', imported) BY <1>old, <1>in, <1>acts, <1>row, <1>kept, <2>1
  <2>6. vault'[g.cred].token = g.token BY <1>row, <2>1
  <2>7. task[p].kind # "revoke" /\ Binding(task[p].kind) /\ "writing" # "saving"
    BY <2>1 DEF t, Binding, Issuing
  <2>8. /\ \A i \in Fresh : i < next => vault'[i] = vault[i]
        /\ \A i \in Fresh : vault'[i].token # 0 => i < next + 1
    BY <1>row, <2>1
  <2> HIDE DEF g, base
  <2>9. Sound(new, next + 1) BY <2>3, <2>4, SoundGrants
  <2>10. Keeps(new, vault', imported) BY <2>5, <2>6 DEF Keeps, WithGrants
  <2> HIDE DEF new
  <2>11. QED BY <1>up, <2>1, <2>2, <2>7, <2>8, <2>9, <2>10, TokenDraft
<1>8. CASE Apply(p)
  <2> DEFINE kept == {g \in d.grants : Inventory[g.conn] = g.cred}
             new == [conns |-> Inventory, grants |-> kept]
  <2>1. /\ stage[p] = "acting" /\ t.kind = "merge" /\ Move(p, "saving")
        /\ draft' = [draft EXCEPT ![p] = new] /\ UNCHANGED <<config, task, vault, next, imported>>
    BY <1>8 DEF Apply, files, history, TypeInv, TypeOK, d, t
  <2>2. new \in Config BY <1>made, <1>is, <2>1
  <2>3. Sound(new, next) BY InventorySound
  <2>4. Keeps(new, vault, imported) BY <1>in, <1>acts, <2>1 DEF Keeps
  <2>5. task[p].kind # "revoke" /\ task[p].kind # "token" BY <2>1 DEF t
  <2> HIDE DEF new
  <2>6. QED BY <1>old, <1>up, <2>1, <2>2, <2>3, <2>4, <2>5, TokenDraft
<1>9. QED BY <1>1, <1>2, <1>3, <1>4, <1>5, <1>6, <1>7, <1>8

LEMMA TokenStepRest ==
    ASSUME TypeInv, RevocationInv, VaultInv, TokenInv, NEW p \in Procs, WriteClient(p) \/ Save(p)
    PROVE  TokenInv'
<1>1. next \in Nat \ {0} /\ draft \in [Procs -> Config] /\ "undoing" \in Stages \ (Updating \cup {"replacing"})
  BY ManagementAssumption DEF TypeInv, TypeOK, Stages, Updating
<1>2. CASE WriteClient(p)
  <2>1. /\ stage[p] = "writing" /\ UNCHANGED <<config, vault, next, imported>>
        /\ (Move(p, "saving") /\ UNCHANGED <<task, draft>>) \/ Fail(p)
    BY <1>2 DEF WriteClient
  <2>2. CASE Move(p, "saving") /\ UNCHANGED <<task, draft>>
    <3>1. draft' = [draft EXCEPT ![p] = draft[p]] /\ draft[p] \in Config BY <1>1, <2>2
    <3>2. /\ Keeps(draft[p], vault, imported) /\ Sound(draft[p], next)
          /\ \A i \in Fresh : vault[i].token # 0 => i < next
      BY <2>1 DEF TokenInv, DraftsKeepTheirToken, BindingsAreSound, Updating
    <3>3. task[p].kind = "revoke" => draft[p].conns = config.conns /\ draft[p].grants \subseteq config.grants
      BY <2>1 DEF TokenInv, Shrinking, Updating
    <3>4. task[p].kind # "token" BY <2>1 DEF TokenInv, WritersBind, Binding, Issuing
    <3>5. QED BY <2>1, <2>2, <3>1, <3>2, <3>3, <3>4, TokenDraft DEF Updating
  <2>3. CASE Fail(p)
    <3>1. Return(p) \/ (Move(p, "undoing") /\ UNCHANGED <<task, draft>>) BY <2>3 DEF Fail
    <3>2. QED BY <1>1, <2>1, <3>1, TokenLeave
  <2>4. QED BY <2>1, <2>2, <2>3
<1>3. CASE Save(p)
  <2>1. PICK outcome \in Saves :
          /\ config' = IF Reached(outcome) THEN draft[p] ELSE config
          /\ CASE ~Saved(outcome) -> Fail(p)
               [] Saved(outcome) /\ task[p].kind = "token" ->
                    /\ Move(p, "replacing")
                    /\ configLock' = Released(configLock, p)
                    /\ UNCHANGED <<brokerLock, task, draft>>
               [] OTHER -> Return(p)
    BY <1>3 DEF Save
  <2>2. stage[p] = "saving" /\ UNCHANGED <<vault, next, imported>> BY <1>3 DEF Save
  <2>3. \/ Return(p) \/ (Move(p, "undoing") /\ UNCHANGED <<task, draft>>)
        \/ Move(p, "replacing") /\ UNCHANGED <<task, draft>> /\ task[p].kind = "token" /\ Saved(outcome)
    BY <2>1 DEF Fail
  <2>4. CASE Reached(outcome) BY <2>1, <2>2, <2>3, <2>4, TokenSaved
  <2>5. CASE ~Reached(outcome)
    <3>1. ~Saved(outcome) BY <2>5 DEF Saved, Reached
    <3>2. QED BY <1>1, <2>1, <2>2, <2>3, <2>5, <3>1, TokenLeave
  <2>6. QED BY <2>4, <2>5
<1>4. QED BY <1>2, <1>3

LEMMA TokenStep == TypeInv /\ RevocationInv /\ VaultInv /\ TokenInv /\ [Next]_vars => TokenInv'
<1> SUFFICES ASSUME TypeInv, RevocationInv, VaultInv, TokenInv, [Next]_vars PROVE TokenInv'
  OBVIOUS
<1>1. CASE UNCHANGED vars
  <2>1. UNCHANGED <<config, vault, stage, task, draft, next, imported>>
    BY <1>1 DEF vars, files, memory, history
  <2>2. BindingsAreSound' /\ DraftsKeepTheirToken' /\ Shrinking' /\ WritersBind'
    BY <2>1 DEF TokenInv, BindingsAreSound, DraftsKeepTheirToken, Shrinking, WritersBind
  <2>3. Freed' /\ GrantsKeepTheirToken'
    BY <2>1 DEF TokenInv, Freed, GrantsKeepTheirToken, GrantsOf
  <2>4. QED BY <2>2, <2>3 DEF TokenInv
<1>2. CASE Next
  <2>1. PICK p \in Procs : Step(p) BY <1>2 DEF Next, Step
  <2>2. QED BY <2>1, TokenStepQuiet, TokenStepDraft, TokenStepRest, TokenReplaced DEF Step
<1>3. QED BY <1>1, <1>2

LEMMA ManagementInvHolds == Spec => [](TypeInv /\ RevocationInv /\ VaultInv /\ TokenInv)
<1>1. Init => TypeInv /\ RevocationInv /\ VaultInv /\ TokenInv
  <2>1. Init => VaultInv
    BY DEF Init, VaultInv, OwnerHolds, BrokerServesTheVault, Owns
  <2>2. QED BY <2>1, TypeInit, RevocationInit, TokenInit
<1>2. /\ TypeInv /\ RevocationInv /\ VaultInv /\ TokenInv /\ [Next]_vars
      => (TypeInv /\ RevocationInv /\ VaultInv /\ TokenInv)'
  BY TypeStep, RevocationStep, VaultStep, TokenStep
<1>3. QED BY <1>1, <1>2, PTL DEF Spec

(* admin.rs: whoever holds a live grant uses the token it was confirmed for,  *)
(* one that another device merged in, or none: update_token takes the grants  *)
(* away before it replaces the row, and nobody binds one in between.          *)
THEOREM TokensStayConfirmed == Spec => []GrantsKeepTheirToken
<1>1. TokenInv => GrantsKeepTheirToken BY DEF TokenInv
<1>2. QED BY ManagementInvHolds, <1>1, PTL
-----------------------------------------------------------------------------
(* The client files.                                                          *)

(* No capability that an operation is about to leave alone has lost its file. *)
PromisesAreOld == \A n \in Names : promised[n] < next
DraftsKeepTheirFile ==
    \A p \in Procs : stage[p] \in Updating =>
      \A n \in Names : promised[n] \in Capabilities(draft[p]) => client[n] = promised[n]

(* Who has written a client file and not answered yet has taken the promise   *)
(* of the one before back, and the file carries what it is about to save.     *)
InHand ==
    \A p \in Procs :
      /\ stage[p] = "saving" /\ Binding(task[p].kind) =>
           promised[task[p].name] = 0 /\ client[task[p].name] = Granted(p)
      /\ stage[p] = "undoing" => promised[task[p].name] = 0

FileInv == PromisesAreOld /\ DraftsKeepTheirFile /\ InHand /\ AnsweredGrantsKeepTheirFile

LEMMA CapabilitiesAreFresh ==
    ASSUME NEW c \in Config PROVE Capabilities(c) \subseteq Fresh /\ 0 \notin Capabilities(c)
BY ConfigParts DEF Capabilities, Grant, Fresh

(* p leaves the files of the clients and what was promised alone.             *)
LEMMA FileQuiet ==
    ASSUME TypeInv, FileInv, NEW p \in Procs,
           UNCHANGED <<config, client, promised>>, next' \in {next, next + 1},
           \A q \in Procs \ {p} : stage'[q] = stage[q] /\ task'[q] = task[q] /\ draft'[q] = draft[q],
           stage'[p] \in Updating =>
             \A n \in Names : promised[n] \in Capabilities(draft'[p]) => client[n] = promised[n],
           stage'[p] = "saving" => ~Binding(task'[p].kind),
           stage'[p] = "undoing" => stage[p] = "undoing" /\ task'[p] = task[p]
    PROVE  FileInv'
<1>1. next \in Nat /\ \A n \in Names : promised[n] \in Nat
  BY ManagementAssumption DEF TypeInv, TypeOK
<1>2. PromisesAreOld' BY <1>1 DEF FileInv, PromisesAreOld
<1>3. DraftsKeepTheirFile'
  <2> SUFFICES ASSUME NEW q \in Procs, stage'[q] \in Updating, NEW n \in Names,
                      promised[n] \in Capabilities(draft'[q])
               PROVE  client[n] = promised[n]
    BY DEF DraftsKeepTheirFile, Capabilities
  <2>1. CASE q = p BY <2>1
  <2>2. CASE q # p BY <2>2 DEF FileInv, DraftsKeepTheirFile
  <2>3. QED BY <2>1, <2>2
<1>4. InHand'
  <2>1. ASSUME NEW q \in Procs \ {p} PROVE Granted(q)' = Granted(q) BY DEF Granted
  <2>2. ASSUME NEW q \in Procs \ {p}, stage'[q] = "saving", Binding(task'[q].kind)
        PROVE  promised[task'[q].name] = 0 /\ client[task'[q].name] = Granted(q)'
    BY <2>1, <2>2 DEF FileInv, InHand
  <2>3. ASSUME NEW q \in Procs, stage'[q] = "undoing" PROVE promised[task'[q].name] = 0
    BY <2>3 DEF FileInv, InHand
  <2>4. QED BY <2>2, <2>3 DEF InHand
<1>5. AnsweredGrantsKeepTheirFile' BY DEF FileInv, AnsweredGrantsKeepTheirFile, Capabilities
<1>6. QED BY <1>2, <1>3, <1>4, <1>5 DEF FileInv

LEMMA FileLeave ==
    ASSUME TypeInv, FileInv, NEW p \in Procs,
           UNCHANGED <<config, client, promised>>, next' \in {next, next + 1},
           \/ Return(p)
           \/ /\ \E to \in Stages \ (Updating \cup {"undoing"}) : Move(p, to)
              /\ draft' = draft
              /\ task' = task \/ \E t \in Tasks : task' = [task EXCEPT ![p] = t]
    PROVE  FileInv'
<1>1. stage'[p] \notin Updating \cup {"undoing"}
  BY DEF Return, Move, Updating, TypeInv, TypeOK
<1>2. \A q \in Procs \ {p} : stage'[q] = stage[q] /\ task'[q] = task[q] /\ draft'[q] = draft[q]
  BY DEF Return, Move, TypeInv, TypeOK
<1>3. QED BY <1>1, <1>2, FileQuiet DEF Updating

(* p edits its draft and takes at most a capability into it that nobody had.  *)
LEMMA FileDraft ==
    ASSUME TypeInv, FileInv, NEW p \in Procs, stage[p] \in Updating,
           UNCHANGED <<config, client, promised, task>>, next' \in {next, next + 1},
           NEW to \in Updating, Move(p, to), NEW d, draft' = [draft EXCEPT ![p] = d],
           Capabilities(d) \subseteq Capabilities(draft[p]) \cup {next},
           to = "saving" => ~Binding(task[p].kind)
    PROVE  FileInv'
<1>1. stage'[p] = to /\ draft'[p] = d
      /\ \A q \in Procs \ {p} : stage'[q] = stage[q] /\ draft'[q] = draft[q]
  BY DEF Move, TypeInv, TypeOK
<1>2. \A n \in Names : promised[n] # next
  BY ManagementAssumption DEF TypeInv, TypeOK, FileInv, PromisesAreOld
<1>3. \A n \in Names : promised[n] \in Capabilities(draft'[p]) => client[n] = promised[n]
  BY <1>1, <1>2 DEF FileInv, DraftsKeepTheirFile
<1>4. to # "undoing" BY DEF Updating
<1>5. QED BY <1>1, <1>3, <1>4, FileQuiet

(* Nobody else is inside update while p is, and nobody else takes a file back *)
(* while p holds the broker lock.                                             *)
LEMMA NobodyElse ==
    ASSUME RevocationInv, VaultInv, NEW p \in Procs, NEW q \in Procs, q # p
    PROVE  /\ stage[p] \in Updating => stage[q] \notin Updating
           /\ Owns(stage[p], task[p]) =>
                /\ stage[q] # "undoing"
                /\ stage[q] = "saving" => task[q].kind = "revoke"
<1>1. stage[p] \in Updating => stage[q] \notin Updating
  BY DEF RevocationInv, OneUpdate
<1>2. Owns(stage[p], task[p]) => ~ Owns(stage[q], task[q])
  BY DEF VaultInv, OwnerHolds
<1>3. QED BY <1>1, <1>2 DEF Owns

LEMMA FileWritten ==
    ASSUME TypeInv, RevocationInv, VaultInv, TokenInv, FileInv, NEW p \in Procs, WriteClient(p)
    PROVE  FileInv'
<1> DEFINE n == task[p].name
<1>1. /\ stage[p] = "writing" /\ UNCHANGED <<config, next>>
      /\ \E outcome \in Saves :
           /\ client' = IF Reached(outcome) THEN [client EXCEPT ![n] = Granted(p)] ELSE client
           /\ promised' = IF Reached(outcome) THEN [promised EXCEPT ![n] = 0] ELSE promised
           /\ IF outcome = "written"
              THEN Move(p, "saving") /\ UNCHANGED <<locks, task, draft>>
              ELSE Fail(p)
  BY DEF WriteClient
<1>2. PICK outcome \in Saves :
           /\ client' = IF Reached(outcome) THEN [client EXCEPT ![n] = Granted(p)] ELSE client
           /\ promised' = IF Reached(outcome) THEN [promised EXCEPT ![n] = 0] ELSE promised
           /\ IF outcome = "written"
              THEN Move(p, "saving") /\ UNCHANGED <<locks, task, draft>>
              ELSE Fail(p)
  BY <1>1
<1>3. \/ Return(p) /\ outcome # "written"
      \/ Move(p, "saving") /\ UNCHANGED <<task, draft>> /\ outcome = "written"
  BY <1>1, <1>2 DEF Fail, TakesBack, WroteClient
<1>4. CASE ~ Reached(outcome)
  <2>1. Return(p) BY <1>3, <1>4 DEF Reached
  <2>2. QED BY <1>1, <1>2, <1>4, <2>1, FileLeave
<1>5. CASE Reached(outcome)
  <2>1. /\ \A q \in Procs \ {p} : stage'[q] = stage[q] /\ task'[q] = task[q] /\ draft'[q] = draft[q]
        /\ stage'[p] \in {"idle", "saving"}
        /\ stage'[p] = "saving" => task'[p] = task[p] /\ draft'[p] = draft[p]
    BY <1>3 DEF Return, Move, TypeInv, TypeOK
  <2>2. /\ Binding(task[p].kind) /\ task[p].kind # "revoke" BY <1>1 DEF TokenInv, WritersBind, Binding, Issuing
  <2>3. \A q \in Procs \ {p} : stage[q] \notin Updating \cup {"undoing"}
    BY <1>1, <2>2, NobodyElse DEF Updating, Owns
  <2>4. n \in Names BY <1>1, ManagementAssumption DEF TypeInv, TaskKnown
  <2>5. /\ client'[n] = Granted(p) /\ promised'[n] = 0
        /\ \A m \in Names : m # n => client'[m] = client[m] /\ promised'[m] = promised[m]
    BY <1>2, <1>5, <2>4 DEF TypeInv, TypeOK
  <2>6. 0 \notin Capabilities(config) /\ 0 \notin Capabilities(draft[p])
    BY CapabilitiesAreFresh DEF TypeInv, TypeOK
  <2>7. PromisesAreOld'
    <3>1. next \in Nat \ {0} BY ManagementAssumption DEF TypeInv, TypeOK
    <3>2. QED BY <1>1, <2>5, <3>1 DEF FileInv, PromisesAreOld
  <2>8. DraftsKeepTheirFile'
    <3> SUFFICES ASSUME NEW q \in Procs, stage'[q] \in Updating, NEW m \in Names,
                        promised'[m] \in Capabilities(draft'[q])
                 PROVE  client'[m] = promised'[m]
      BY DEF DraftsKeepTheirFile, Capabilities
    <3>1. q = p /\ draft'[p] = draft[p] BY <2>1, <2>3 DEF Updating
    <3>2. m # n BY <2>5, <2>6, <3>1
    <3>3. stage[p] \in Updating BY <1>1 DEF Updating
    <3>4. QED BY <2>5, <3>1, <3>2, <3>3 DEF FileInv, DraftsKeepTheirFile
  <2>9. InHand'
    <3> SUFFICES ASSUME NEW q \in Procs
                 PROVE  /\ stage'[q] = "saving" /\ Binding(task'[q].kind) =>
                             promised'[task'[q].name] = 0 /\ client'[task'[q].name] = Granted(q)'
                        /\ stage'[q] = "undoing" => promised'[task'[q].name] = 0
      BY DEF InHand
    <3>1. CASE q = p
      <4>1. stage'[p] = "saving" => Granted(p)' = Granted(p) BY <2>1 DEF Granted
      <4>2. QED BY <2>1, <2>5, <3>1, <4>1
    <3>2. CASE q # p BY <2>1, <2>3, <3>2 DEF Updating
    <3>3. QED BY <3>1, <3>2
  <2>10. AnsweredGrantsKeepTheirFile'
    <3>1. Capabilities(config') = Capabilities(config) BY <1>1
    <3>2. \A m \in Names : promised'[m] \in Capabilities(config) => client'[m] = promised'[m]
      BY <2>5, <2>6 DEF FileInv, AnsweredGrantsKeepTheirFile
    <3>3. QED BY <3>1, <3>2 DEF AnsweredGrantsKeepTheirFile, Capabilities
  <2>11. QED BY <2>7, <2>8, <2>9, <2>10 DEF FileInv
<1>6. QED BY <1>4, <1>5

LEMMA FileSaved ==
    ASSUME TypeInv, RevocationInv, VaultInv, FileInv, NEW p \in Procs, Save(p)
    PROVE  FileInv'
<1> DEFINE n == task[p].name
<1>1. PICK outcome \in Saves :
        /\ config' = IF Reached(outcome) THEN draft[p] ELSE config
        /\ promised' = IF Saved(outcome) THEN Answered(p) ELSE promised
        /\ CASE ~Saved(outcome) -> Fail(p)
             [] Saved(outcome) /\ task[p].kind = "token" ->
                  /\ Move(p, "replacing")
                  /\ configLock' = Released(configLock, p)
                  /\ UNCHANGED <<brokerLock, task, draft>>
             [] OTHER -> Return(p)
  BY DEF Save
<1>2. stage[p] = "saving" /\ UNCHANGED <<client, next>> BY DEF Save
<1>3. \/ Return(p)
      \/ /\ Move(p, "undoing") /\ UNCHANGED <<task, draft>>
         /\ task[p].kind \in Issuing /\ ~ Saved(outcome)
      \/ Move(p, "replacing") /\ UNCHANGED <<task, draft>>
  BY <1>1 DEF Fail, TakesBack
<1>4. /\ \A q \in Procs \ {p} : stage'[q] = stage[q] /\ task'[q] = task[q] /\ draft'[q] = draft[q]
      /\ stage'[p] \in {"idle", "undoing", "replacing"}
      /\ stage'[p] = "undoing" => task'[p] = task[p] /\ task[p].kind \in Issuing /\ ~ Saved(outcome)
  BY <1>3 DEF Return, Move, TypeInv, TypeOK
<1>5. \A q \in Procs : stage'[q] \notin Updating
  BY <1>2, <1>4, NobodyElse DEF Updating
<1>6. n \in Names BY <1>2, ManagementAssumption DEF TypeInv, TaskKnown
<1>7. \/ promised' = promised
      \/ /\ Binding(task[p].kind) /\ client[n] = Granted(p) /\ Saved(outcome)
         /\ promised'[n] = Granted(p) /\ \A m \in Names : m # n => promised'[m] = promised[m]
  BY <1>1, <1>2, <1>6 DEF Answered, Binding, FileInv, InHand, TypeInv, TypeOK
<1>8. Binding(task[p].kind) => \E g \in draft[p].grants : g.cap = Granted(p) /\ g.cap < next
  <2> SUFFICES ASSUME Binding(task[p].kind)
               PROVE  \E g \in draft[p].grants : g.cap = Granted(p) /\ g.cap < next
    OBVIOUS
  <2>1. \E g \in draft[p].grants : g.name = n
    BY <1>2 DEF TypeInv, GrantInDraft, Issues, Binding
  <2>2. \A g \in draft[p].grants : g.cap < next BY DEF TypeInv, CapsAreOld
  <2>3. QED BY <2>1, <2>2 DEF Granted
<1>9. PromisesAreOld'
  BY <1>2, <1>7, <1>8 DEF FileInv, PromisesAreOld
<1>10. DraftsKeepTheirFile' BY <1>5 DEF DraftsKeepTheirFile
<1>11. InHand'
  <2> SUFFICES ASSUME NEW q \in Procs, stage'[q] = "undoing" PROVE promised'[task'[q].name] = 0
    BY <1>5 DEF InHand, Updating
  <2>1. CASE q = p
    <3>1. Binding(task[p].kind) BY <1>4, <2>1 DEF Binding
    <3>2. promised[n] = 0 BY <1>2, <3>1 DEF FileInv, InHand
    <3>3. promised' = promised BY <1>4, <1>7, <2>1
    <3>4. QED BY <1>4, <2>1, <3>2, <3>3
  <2>2. CASE q # p
    <3>1. stage[q] = "undoing" /\ task'[q] = task[q] BY <1>4, <2>2
    <3>2. ~ Owns(stage[p], task[p]) BY <2>2, <3>1, NobodyElse
    <3>3. ~ Binding(task[p].kind) BY <1>2, <3>2 DEF Owns, Binding, Issuing
    <3>4. QED BY <1>7, <3>1, <3>3 DEF FileInv, InHand
  <2>3. QED BY <2>1, <2>2
<1>12. AnsweredGrantsKeepTheirFile'
  <2>1. stage[p] \in Updating BY <1>2 DEF Updating
  <2>2. Capabilities(config') \in {Capabilities(config), Capabilities(draft[p])}
    BY <1>1
  <2>3. \A m \in Names : promised[m] \in Capabilities(config') => client[m] = promised[m]
    BY <2>1, <2>2 DEF FileInv, DraftsKeepTheirFile, AnsweredGrantsKeepTheirFile
  <2>4. \A m \in Names : promised'[m] \in Capabilities(config') => client[m] = promised'[m]
    BY <1>7, <2>3
  <2>5. QED BY <1>2, <2>4 DEF AnsweredGrantsKeepTheirFile, Capabilities
<1>13. QED BY <1>9, <1>10, <1>11, <1>12 DEF FileInv

LEMMA FileTakenBack ==
    ASSUME TypeInv, RevocationInv, VaultInv, FileInv, NEW p \in Procs, TakeBack(p)
    PROVE  FileInv'
<1> DEFINE n == task[p].name
<1>1. /\ stage[p] = "undoing" /\ Return(p) /\ UNCHANGED <<config, next, promised>>
      /\ client' = client \/ client' = [client EXCEPT ![n] = 0]
  BY DEF TakeBack, history
<1>2. CASE client' = client BY <1>1, <1>2, FileLeave
<1>3. CASE client' = [client EXCEPT ![n] = 0]
  <2>1. /\ \A q \in Procs \ {p} : stage'[q] = stage[q] /\ task'[q] = task[q] /\ draft'[q] = draft[q]
        /\ stage'[p] = "idle"
    BY <1>1 DEF Return, Move, TypeInv, TypeOK
  <2>2. \A q \in Procs \ {p} : /\ stage[q] # "undoing"
                               /\ stage[q] = "saving" => task[q].kind = "revoke"
    BY <1>1, NobodyElse DEF Owns
  <2>3. promised[n] = 0 BY <1>1 DEF FileInv, InHand
  <2>4. /\ \A m \in Names : m # n => client'[m] = client[m]
    BY <1>3 DEF TypeInv, TypeOK
  <2>5. \A c \in Config : 0 \notin Capabilities(c) BY CapabilitiesAreFresh
  <2>6. PromisesAreOld' BY <1>1 DEF FileInv, PromisesAreOld
  <2>7. DraftsKeepTheirFile'
    <3> SUFFICES ASSUME NEW q \in Procs, stage'[q] \in Updating, NEW m \in Names,
                        promised[m] \in Capabilities(draft'[q])
                 PROVE  client'[m] = promised[m]
      BY <1>1 DEF DraftsKeepTheirFile, Capabilities
    <3>1. q # p /\ draft'[q] = draft[q] /\ stage[q] = stage'[q] BY <2>1 DEF Updating
    <3>2. draft[q] \in Config BY DEF TypeInv, TypeOK
    <3>3. m # n BY <2>3, <2>5, <3>1, <3>2
    <3>4. QED BY <2>4, <3>1, <3>3 DEF FileInv, DraftsKeepTheirFile
  <2>8. InHand'
    <3>1. ~ Binding("revoke") BY DEF Binding, Issuing
    <3>2. QED BY <2>1, <2>2, <3>1 DEF InHand
  <2>9. AnsweredGrantsKeepTheirFile'
    <3>1. \A m \in Names : promised[m] \in Capabilities(config) => client'[m] = promised[m]
      BY <2>3, <2>4, <2>5 DEF FileInv, AnsweredGrantsKeepTheirFile, TypeInv, TypeOK
    <3>2. QED BY <1>1, <3>1 DEF AnsweredGrantsKeepTheirFile, Capabilities
  <2>10. QED BY <2>6, <2>7, <2>8, <2>9 DEF FileInv
<1>4. QED BY <1>1, <1>2, <1>3

LEMMA FileInit == Init => FileInv
<1> SUFFICES ASSUME Init PROVE FileInv OBVIOUS
<1>1. PromisesAreOld BY DEF Init, PromisesAreOld
<1>2. DraftsKeepTheirFile /\ InHand BY DEF Init, DraftsKeepTheirFile, InHand, Updating
<1>3. AnsweredGrantsKeepTheirFile BY DEF Init, AnsweredGrantsKeepTheirFile
<1>4. QED BY <1>1, <1>2, <1>3 DEF FileInv

LEMMA FileStepQuiet ==
    ASSUME TypeInv, FileInv, NEW p \in Procs,
           \/ \E t \in Tasks : Begin(p, t)
           \/ TakeBrokerLock(p) \/ BrokerAlreadyRunning(p) \/ Refuse(p)
           \/ DeleteRow(p) \/ MergeRows(p) \/ ReplaceToken(p)
           \/ ForgetMarker(p) \/ Open(p) \/ ListenUnavailable(p)
           \/ EndByMarker(p) \/ Stop(p) \/ Locked(p) \/ Die(p)
    PROVE  FileInv'
<1>away. {"checked", "waiting", "polling", "editing", "starting", "opening", "serving", "replacing"}
            \subseteq Stages \ (Updating \cup {"undoing"})
  BY DEF Stages, Updating
<1>1. CASE \E t \in Tasks : Begin(p, t)
  <2>t. PICK t \in Tasks : Begin(p, t) BY <1>1
  <2>1. \E to \in Stages \ (Updating \cup {"undoing"}) : Move(p, to) BY <2>t, <1>away DEF Begin
  <2>2. UNCHANGED <<config, client, promised, next, draft>> /\ task' = [task EXCEPT ![p] = t]
    BY <2>t DEF Begin, history
  <2>3. QED BY <2>1, <2>2, FileLeave
<1>2. CASE TakeBrokerLock(p) \/ ForgetMarker(p) \/ Open(p)
  <2>1. \E to \in Stages \ (Updating \cup {"undoing"}) : Move(p, to)
    BY <1>2, <1>away DEF TakeBrokerLock, ForgetMarker, Open, AfterBrokerLock
  <2>2. UNCHANGED <<config, client, promised, next, draft, task>>
    BY <1>2 DEF TakeBrokerLock, ForgetMarker, Open, files, history
  <2>3. QED BY <2>1, <2>2, FileLeave
<1>3. CASE \/ BrokerAlreadyRunning(p) \/ ListenUnavailable(p) \/ EndByMarker(p)
           \/ Stop(p) \/ Locked(p) \/ Die(p) \/ Refuse(p) \/ ReplaceToken(p)
  <2>1. Return(p) /\ UNCHANGED <<config, client, promised>> /\ next' \in {next, next + 1}
    BY <1>3 DEF BrokerAlreadyRunning, ListenUnavailable, EndByMarker, Stop, Locked, Die, ReplaceToken,
                Refuse, Fail, TakesBack, WroteClient, files, history
  <2>2. QED BY <2>1, FileLeave
<1>4. CASE DeleteRow(p) \/ MergeRows(p)
  <2>1. Return(p) \/ (Move(p, "waiting") /\ UNCHANGED <<task, draft>>)
    BY <1>4 DEF DeleteRow, MergeRows
  <2>2. UNCHANGED <<config, client, promised>> /\ next' \in {next, next + 1}
    BY <1>4 DEF DeleteRow, MergeRows, history
  <2>3. QED BY <1>away, <2>1, <2>2, FileLeave
<1>5. QED BY <1>1, <1>2, <1>3, <1>4

LEMMA FileStepDraft ==
    ASSUME TypeInv, FileInv, NEW p \in Procs,
           \/ Load(p) \/ Issue(p) \/ Refresh(p) \/ Revoke(p) \/ RevokeForToken(p)
           \/ Disconnect(p) \/ Connect(p) \/ QuickAdd(p) \/ Apply(p)
    PROVE  FileInv'
<1> DEFINE t == task[p]
<1>same. UNCHANGED <<config, client, promised, task>> /\ next' \in {next, next + 1}
  BY DEF Load, Issue, Refresh, Revoke, RevokeForToken, Disconnect, Connect, QuickAdd, Apply, Edit,
         files, history
<1>up. {"acting", "writing", "saving"} = Updating BY DEF Updating
<1>1. CASE Load(p)
  <2>1. stage' = [stage EXCEPT ![p] = "acting"] /\ draft' = [draft EXCEPT ![p] = config]
    BY <1>1 DEF Load, Move
  <2>2. /\ stage'[p] = "acting" /\ draft'[p] = config
        /\ \A q \in Procs \ {p} : stage'[q] = stage[q] /\ draft'[q] = draft[q]
    BY <2>1 DEF TypeInv, TypeOK
  <2>3. QED BY <1>same, <2>2, FileQuiet DEF FileInv, AnsweredGrantsKeepTheirFile
<1>2. CASE Issue(p)
  <2> DEFINE g == [name |-> t.name, conn |-> t.conn, cred |-> draft[p].conns[t.conn],
                   cap |-> next, token |-> vault[draft[p].conns[t.conn]].token]
             d == WithGrants(draft[p], draft[p].grants \cup {g})
  <2>1. Capabilities(d) \subseteq Capabilities(draft[p]) \cup {next}
    BY DEF Capabilities, WithGrants
  <2>2. stage[p] \in Updating /\ Move(p, "writing") /\ draft' = [draft EXCEPT ![p] = d]
    BY <1>2, <1>up DEF Issue
  <2> HIDE DEF d
  <2>3. QED BY <1>same, <1>up, <2>1, <2>2, FileDraft
<1>3. CASE Refresh(p)
  <2>g. PICK old \in GrantsNamed(draft[p], task[p].name) :
          draft' = [draft EXCEPT ![p] = WithGrants(draft[p], (draft[p].grants \ {old})
            \cup {[old EXCEPT !.cap = next, !.token = vault[old.cred].token]})]
    BY <1>3 DEF Refresh
  <2> DEFINE g == [old EXCEPT !.cap = next, !.token = vault[old.cred].token]
             d == WithGrants(draft[p], (draft[p].grants \ {old}) \cup {g})
  <2>1. g.cap = next
    <3>1. old \in Grant BY ConfigParts DEF GrantsNamed, TypeInv, TypeOK
    <3>2. QED BY <3>1 DEF Grant
  <2>2. draft' = [draft EXCEPT ![p] = d] BY <2>g
  <2> HIDE DEF g
  <2>3. Capabilities(d) \subseteq Capabilities(draft[p]) \cup {next}
    BY <2>1 DEF Capabilities, WithGrants
  <2>4. stage[p] \in Updating /\ Move(p, "writing") BY <1>3, <1>up DEF Refresh
  <2> HIDE DEF d
  <2>5. QED BY <1>same, <1>up, <2>2, <2>3, <2>4, FileDraft
<1>4. CASE Revoke(p) \/ RevokeForToken(p)
  <2>g. PICK grants \in SUBSET draft[p].grants : Edit(p, grants)
    BY <1>4 DEF Revoke, RevokeForToken
  <2>1. /\ stage[p] \in Updating /\ Move(p, "saving") /\ ~ Binding(t.kind)
        /\ draft' = [draft EXCEPT ![p] = WithGrants(draft[p], grants)]
    BY <1>4, <1>up, <2>g DEF Revoke, RevokeForToken, Edit, Binding, Issuing, TypeInv, TypeOK
  <2>2. Capabilities(WithGrants(draft[p], grants)) \subseteq Capabilities(draft[p])
    BY DEF Capabilities, WithGrants
  <2>3. QED BY <1>same, <1>up, <2>1, <2>2, FileDraft
<1>5. CASE Disconnect(p)
  <2> DEFINE d == Unbound(draft[p], t.conn)
  <2>1. /\ stage[p] \in Updating /\ Move(p, "saving") /\ ~ Binding(t.kind)
        /\ draft' = [draft EXCEPT ![p] = d]
    BY <1>5, <1>up DEF Disconnect, Binding, Issuing, TypeInv, TypeOK
  <2>2. Capabilities(d) \subseteq Capabilities(draft[p])
    BY DEF Capabilities, Unbound, WithGrants
  <2> HIDE DEF d
  <2>3. QED BY <1>same, <1>up, <2>1, <2>2, FileDraft
<1>6. CASE Connect(p)
  <2> DEFINE d == WithConn(draft[p], t.conn, next)
  <2>1. /\ stage[p] \in Updating /\ Move(p, "saving") /\ ~ Binding(t.kind)
        /\ draft' = [draft EXCEPT ![p] = d]
    BY <1>6, <1>up DEF Connect, Binding, Issuing, TypeInv, TypeOK
  <2>2. Capabilities(d) \subseteq Capabilities(draft[p])
    BY DEF Capabilities, WithConn
  <2> HIDE DEF d
  <2>3. QED BY <1>same, <1>up, <2>1, <2>2, FileDraft
<1>7. CASE QuickAdd(p)
  <2> DEFINE g == [name |-> t.name, conn |-> t.conn, cred |-> next, cap |-> next, token |-> next]
             d == WithGrants(WithConn(draft[p], t.conn, next), draft[p].grants \cup {g})
  <2>1. Capabilities(d) \subseteq Capabilities(draft[p]) \cup {next}
    BY DEF Capabilities, WithGrants
  <2>2. stage[p] \in Updating /\ Move(p, "writing") /\ draft' = [draft EXCEPT ![p] = d]
    BY <1>7, <1>up DEF QuickAdd
  <2> HIDE DEF d
  <2>3. QED BY <1>same, <1>up, <2>1, <2>2, FileDraft
<1>8. CASE Apply(p)
  <2> DEFINE d == [conns |-> Inventory,
                   grants |-> {g \in draft[p].grants : Inventory[g.conn] = g.cred}]
  <2>1. /\ stage[p] \in Updating /\ Move(p, "saving") /\ ~ Binding(t.kind)
        /\ draft' = [draft EXCEPT ![p] = d]
    BY <1>8, <1>up DEF Apply, Binding, Issuing, TypeInv, TypeOK
  <2>2. Capabilities(d) \subseteq Capabilities(draft[p])
    BY DEF Capabilities
  <2> HIDE DEF d
  <2>3. QED BY <1>same, <1>up, <2>1, <2>2, FileDraft
<1>9. QED BY <1>1, <1>2, <1>3, <1>4, <1>5, <1>6, <1>7, <1>8

LEMMA FileStep ==
    TypeInv /\ RevocationInv /\ VaultInv /\ TokenInv /\ FileInv /\ [Next]_vars => FileInv'
<1> SUFFICES ASSUME TypeInv, RevocationInv, VaultInv, TokenInv, FileInv, [Next]_vars PROVE FileInv'
  OBVIOUS
<1>1. CASE UNCHANGED vars
  <2>1. UNCHANGED <<config, client, stage, task, draft, next, promised>>
    BY <1>1 DEF vars, files, memory, history
  <2>2. PromisesAreOld' /\ DraftsKeepTheirFile' /\ AnsweredGrantsKeepTheirFile'
    BY <2>1 DEF FileInv, PromisesAreOld, DraftsKeepTheirFile, AnsweredGrantsKeepTheirFile, Capabilities
  <2>3. InHand' BY <2>1 DEF FileInv, InHand, Granted
  <2>4. QED BY <2>2, <2>3 DEF FileInv
<1>2. CASE Next
  <2>1. PICK p \in Procs : Step(p) BY <1>2 DEF Next, Step
  <2>2. QED BY <2>1, FileStepQuiet, FileStepDraft, FileWritten, FileSaved, FileTakenBack DEF Step
<1>3. QED BY <1>1, <1>2

(* admin.rs: when issue_grant, quick_add or refresh_grant has answered, the   *)
(* client file carries the capability as long as it lives: nobody who fails   *)
(* takes a file away that is not their own.                                   *)
THEOREM AnsweredFilesStay == Spec => []AnsweredGrantsKeepTheirFile
<1>1. /\ TypeInv /\ RevocationInv /\ VaultInv /\ TokenInv /\ FileInv /\ [Next]_vars => FileInv'
  BY FileStep
<1>2. FileInv => AnsweredGrantsKeepTheirFile BY DEF FileInv
<1>3. QED BY ManagementInvHolds, FileInit, <1>1, <1>2, PTL DEF Spec
=============================================================================
