------------------------- MODULE BrowserHostProofs -------------------------
(* What the receipts of the browser hosts promise, proved for any number of   *)
(* hosts, operation ids and databases.                                        *)
EXTENDS BrowserHost, TLAPS

Pcs == {"idle", "unlocking", "naming", "journal", "entering", "applying", "finishing"}
Sessions == [path : Databases \cup {NoDb}, vault : Vaults \cup {NoDb}]
HostState == [session : Sessions, stale : BOOLEAN, pc : Pcs,
              op : {"none", "edit", "switch"}, id : Ids \cup {NoDb},
              target : Databases \cup {NoDb}, vault : Vaults \cup {NoDb},
              want : Databases \cup {NoDb}, outcome : {"none", "ok", "error", "lock"},
              said : {"nothing", "succeeded", "not_recorded"}]
Record == [vault : Vaults, op : {"edit", "switch"}, completed : BOOLEAN]
AtMostOne == {<<>>} \cup {<<[in |-> d, for |-> d]>> : d \in Databases}

Busy(s) == s.pc \in {"entering", "applying", "finishing"}
Before(s) == s.pc \in {"entering", "applying"}

(* A request goes on meaning the database it was asked in, and the receipt it *)
(* writes names the vault of that database; the session can only be lost.     *)
Remembers(s) ==
    /\ s.pc = "unlocking" => s.target \in Databases
    /\ s.pc \in {"naming", "journal", "entering", "applying"} =>
        /\ s.id \in Ids
        /\ s.op = "switch" => s.target \in Databases /\ s.want = s.target
        /\ s.op # "switch" => s.op = "edit"
        /\ s.op = "edit" /\ s.session # NoSession => s.want = s.session.path
    /\ s.pc \in {"journal", "entering", "applying"} =>
        /\ s.vault \in Vaults
        /\ s.op = "switch" => s.vault = VaultOf[s.target]
        /\ s.op = "edit" /\ s.session # NoSession => s.vault = s.session.vault
    /\ s.pc = "finishing" => s.id \in Ids
    /\ s.pc # "idle" => s.said = "nothing"

(* An operation is under way only with its receipt on the disk to stay, and   *)
(* has had no effect before it is carried out.                                *)
Journaled(s) ==
    Busy(s) =>
        /\ s.id \in DOMAIN durable /\ disk[s.id].vault = s.vault
        /\ Before(s) => effects[s.id] = <<>>
        /\ s.pc = "finishing" /\ s.outcome = "ok" => effects[s.id] # <<>>

HostsOk ==
    /\ host \in [Hosts -> HostState]
    /\ \A h \in Hosts : Remembers(host[h]) /\ Journaled(host[h])

LockOk ==
    /\ rlock \in Hosts \cup {NoHost}
    /\ \A h \in Hosts : rlock = h <=> Busy(host[h])

(* What may be on the disk and what is known to be there: a failed save or a  *)
(* loss of power can only take the newest of it away.                         *)
JournalsOk ==
    /\ disk \in [DOMAIN disk -> Record]
    /\ durable \in [DOMAIN durable -> Record]
    /\ DOMAIN durable \subseteq DOMAIN disk
    /\ \A i \in DOMAIN durable : durable[i].vault = disk[i].vault
    /\ \A i \in Ids \cap DOMAIN disk : disk[i].completed => effects[i] # <<>>
    /\ \A i \in Ids \cap DOMAIN durable : durable[i].completed => effects[i] # <<>>

EffectsOk ==
    /\ effects \in [Ids -> AtMostOne]
    /\ \A i \in Ids : effects[i] # <<>> =>
        /\ i \in DOMAIN durable
        /\ disk[i].vault = VaultOf[effects[i][1].in]

IInv == active \in Databases /\ HostsOk /\ LockOk /\ JournalsOk /\ EffectsOk

(* What is said of an operation is true.                                      *)
Truthful(s) ==
    \A i \in Ids : s.id = i =>
        /\ s.said = "succeeded" =>
               \E n \in DOMAIN effects[i] : VaultOf[effects[i][n].in] = s.vault
        /\ s.said = "not_recorded" => effects[i] = <<>>

TruthfulStep ==
    \A h \in Hosts : \A i \in Ids :
        host'[h] # host[h] /\ host'[h].id = i =>
            /\ host'[h].said = "succeeded" =>
                   \E n \in DOMAIN effects'[i] : VaultOf[effects'[i][n].in] = host'[h].vault
            /\ host'[h].said = "not_recorded" => effects'[i] = <<>>

----------------------------------------------------------------------------
(* The helpers.                                                               *)

LEMMA LockedShape ==
    ASSUME NEW s \in HostState
    PROVE  /\ Sealed(s) \in HostState
           /\ Sealed(s).session = NoSession
           /\ Sealed(s).pc = s.pc /\ Sealed(s).op = s.op /\ Sealed(s).id = s.id
           /\ Sealed(s).target = s.target /\ Sealed(s).vault = s.vault
           /\ Sealed(s).want = s.want /\ Sealed(s).outcome = s.outcome
           /\ Sealed(s).said = s.said
BY DEF Sealed, HostState, Sessions, NoSession

LEMMA ExpireShape ==
    ASSUME NEW s \in HostState
    PROVE  /\ expire(s) \in HostState
           /\ expire(s).session = NoSession \/ expire(s).session = s.session
           /\ expire(s).pc = s.pc /\ expire(s).op = s.op /\ expire(s).id = s.id
           /\ expire(s).target = s.target /\ expire(s).vault = s.vault
           /\ expire(s).want = s.want /\ expire(s).outcome = s.outcome
           /\ expire(s).said = s.said
<1>1. CASE s.stale BY <1>1, LockedShape DEF expire
<1>2. CASE ~ s.stale BY <1>2 DEF expire
<1>3. QED BY <1>1, <1>2

LEMMA ReplyShape ==
    ASSUME NEW s \in HostState, NEW word
    PROVE  /\ Reply(s, word) \in HostState
           /\ Reply(s, word).pc = "idle" /\ Reply(s, word).said = "nothing"
<1> DEFINE t == IF word = "lock" THEN Sealed(s) ELSE s
<1>1. t \in HostState BY LockedShape
<1>2. Reply(s, word) = [t EXCEPT !.pc = "idle", !.op = "none", !.id = NoDb, !.target = NoDb,
                                 !.vault = NoDb, !.want = NoDb, !.outcome = "none", !.said = "nothing"]
  BY DEF Reply
<1> HIDE DEF t
<1>3. QED BY <1>1, <1>2 DEF HostState, Pcs

LEMMA ToldShape ==
    ASSUME NEW s \in HostState, NEW i \in Ids, NEW v \in Vaults \cup {NoDb},
           NEW word \in {"succeeded", "not_recorded", "unconfirmed"}
    PROVE  /\ Told(s, word, i, v) \in HostState /\ Told(s, word, i, v).pc = "idle"
           /\ Told(s, word, i, v).said # "nothing" =>
                 /\ Told(s, word, i, v).said = word
                 /\ Told(s, word, i, v).id = i /\ Told(s, word, i, v).vault = v
<1>1. CASE word = "unconfirmed" BY <1>1, ReplyShape DEF Told
<1>2. CASE word # "unconfirmed"
  <2> DEFINE t == Reply(s, word)
  <2>1. t \in HostState /\ t.pc = "idle" BY ReplyShape
  <2>2. Told(s, word, i, v) = [t EXCEPT !.id = i, !.vault = v, !.said = word]
    BY <1>2 DEF Told
  <2> HIDE DEF t
  <2>3. QED BY <1>2, <2>1, <2>2 DEF HostState
<1>3. QED BY <1>1, <1>2

----------------------------------------------------------------------------
(* Steps of one host.                                                         *)

(* The receipts only grow: nothing consumed is taken back, or gets another    *)
(* vault.                                                                     *)
Grows ==
    /\ disk' \in [DOMAIN disk' -> Record] /\ durable' \in [DOMAIN durable' -> Record]
    /\ DOMAIN disk \subseteq DOMAIN disk' /\ DOMAIN durable \subseteq DOMAIN durable'
    /\ DOMAIN durable' \subseteq DOMAIN disk'
    /\ \A i \in DOMAIN disk : disk'[i].vault = disk[i].vault
    /\ \A i \in DOMAIN durable' : durable'[i].vault = disk'[i].vault

LEMMA NothingGrows == IInv /\ UNCHANGED <<disk, durable>> => Grows
BY DEF IInv, JournalsOk, Grows

(* A host goes on, or ends what it does, without an effect.                   *)
LEMMA HostStep ==
    ASSUME IInv, NoHost \notin Hosts, NEW h \in Hosts, NEW t \in HostState,
           Become(h, t), Remembers(t), Grows, UNCHANGED effects,
           \A i \in Ids \cap DOMAIN disk' : disk'[i].completed => effects[i] # <<>>,
           \A i \in Ids \cap DOMAIN durable' : durable'[i].completed => effects[i] # <<>>,
           active' \in Databases,
           rlock' = IF Busy(host[h]) /\ ~ Busy(t) THEN NoHost ELSE rlock,
           Busy(t) => Busy(host[h]) /\ t.id = host[h].id /\ t.vault = host[h].vault,
           Before(t) => Before(host[h]),
           t.pc = "finishing" /\ t.outcome = "ok" => effects[t.id] # <<>>,
           Truthful(t)
    PROVE  IInv' /\ TruthfulStep
<1> USE DEF IInv
<1>1. host \in [Hosts -> HostState] /\ host' \in [Hosts -> HostState]
      /\ \A g \in Hosts : host'[g] = IF g = h THEN t ELSE host[g]
  BY DEF HostsOk, Become
<1>2. \A s : s.id \in DOMAIN durable /\ disk[s.id].vault = s.vault
             => s.id \in DOMAIN durable' /\ disk'[s.id].vault = s.vault
  BY DEF Grows, JournalsOk
<1>3. HostsOk'
  <2> SUFFICES ASSUME NEW g \in Hosts PROVE Remembers(host'[g]) /\ Journaled(host[g])'
    BY <1>1 DEF HostsOk
  <2>1. CASE g = h
    <3>1. Journaled(host[h]) BY DEF HostsOk
    <3>2. Busy(t) => t.id \in DOMAIN durable /\ disk[t.id].vault = t.vault
      BY <3>1 DEF Journaled
    <3>3. Before(t) => effects[t.id] = <<>>
      BY <3>1 DEF Journaled, Before, Busy
    <3>4. QED BY <1>1, <1>2, <2>1, <3>2, <3>3 DEF Journaled
  <2>2. CASE g # h
    <3>1. Journaled(host[g]) /\ Remembers(host[g]) BY DEF HostsOk
    <3>2. QED BY <1>1, <1>2, <2>2, <3>1 DEF Journaled
  <2>3. QED BY <2>1, <2>2
<1>4. LockOk' BY <1>1 DEF LockOk
<1>5. JournalsOk' BY DEF JournalsOk, Grows
<1>6. EffectsOk' BY DEF EffectsOk, JournalsOk, Grows
<1>7. TruthfulStep BY <1>1 DEF TruthfulStep, Truthful
<1>8. QED BY <1>3, <1>4, <1>5, <1>6, <1>7

(* Everything that changes nothing but what a host knows.                     *)
LEMMA QuietStep ==
    ASSUME IInv, NoHost \notin Hosts, NEW h \in Hosts, NEW t \in HostState,
           Become(h, t), Remembers(t), ~ Busy(host[h]), ~ Busy(t), Truthful(t),
           UNCHANGED <<active, rlock, disk, durable, effects>>
    PROVE  IInv' /\ TruthfulStep
<1>1. Grows BY NothingGrows
<1>2. ~ Before(t) /\ t.pc # "finishing" BY DEF Busy, Before
<1>3. QED BY <1>1, <1>2, HostStep DEF IInv, JournalsOk

LEMMA ReplyStep ==
    ASSUME IInv, NoHost \notin Hosts, NEW h \in Hosts, NEW s \in HostState, NEW word,
           Become(h, Reply(s, word)), ~ Busy(host[h]),
           UNCHANGED <<active, rlock, disk, durable, effects>>
    PROVE  IInv' /\ TruthfulStep
<1> DEFINE t == Reply(s, word)
<1>1. t \in HostState /\ t.pc = "idle" /\ t.said = "nothing" BY ReplyShape
<1> HIDE DEF t
<1>2. Remembers(t) /\ ~ Busy(t) /\ Truthful(t) BY <1>1 DEF Remembers, Busy, Truthful
<1>3. QED BY <1>1, <1>2, QuietStep DEF t

(* A reply about an operation, when it is true.                               *)
LEMMA ToldStep ==
    ASSUME IInv, NoHost \notin Hosts, NEW h \in Hosts, NEW s \in HostState, NEW i \in Ids,
           NEW v \in Vaults \cup {NoDb}, NEW word \in {"succeeded", "not_recorded", "unconfirmed"},
           Become(h, Told(s, word, i, v)), ~ Busy(host[h]),
           word = "succeeded" => effects[i] # <<>> /\ disk[i].vault = v,
           word = "not_recorded" => effects[i] = <<>>,
           UNCHANGED <<active, rlock, disk, durable, effects>>
    PROVE  IInv' /\ TruthfulStep
<1> DEFINE t == Told(s, word, i, v)
<1>1. /\ t \in HostState /\ t.pc = "idle"
      /\ t.said # "nothing" => t.said = word /\ t.id = i /\ t.vault = v
  BY ToldShape
<1> HIDE DEF t
<1>2. effects[i] # <<>> => 1 \in DOMAIN effects[i] /\ disk[i].vault = VaultOf[effects[i][1].in]
  BY DEF IInv, EffectsOk, AtMostOne
<1>3. Truthful(t) BY <1>1, <1>2 DEF Truthful
<1>4. Remembers(t) /\ ~ Busy(t) BY <1>1 DEF Remembers, Busy
<1>5. QED BY <1>1, <1>3, <1>4, QuietStep DEF t

----------------------------------------------------------------------------
(* The actions of a host.                                                     *)

LEMMA SessionSteps ==
    ASSUME IInv, NoHost \notin Hosts, NEW h \in Hosts,
           UnlockStarts(h) \/ UnlockEnds(h) \/ Forget(h)
    PROVE  IInv' /\ TruthfulStep
<1> DEFINE s == host[h]
<1>0. s \in HostState /\ Remembers(s) BY DEF IInv, HostsOk
<1>1. CASE UnlockStarts(h)
  <2> DEFINE u == Sealed(s)
             t == [u EXCEPT !.pc = "unlocking", !.target = active, !.said = "nothing"]
  <2>1. Become(h, t) /\ s.pc = "idle" /\ UNCHANGED <<active, rlock, disk, durable, effects>>
    BY <1>1 DEF UnlockStarts
  <2>2. active \in Databases /\ u \in HostState BY <1>0, LockedShape DEF IInv
  <2> HIDE DEF u
  <2>3. t \in HostState /\ t.pc = "unlocking" /\ t.target = active /\ t.said = "nothing"
    BY <2>2 DEF HostState, Pcs
  <2> HIDE DEF t
  <2>4. Remembers(t) /\ ~ Busy(t) /\ ~ Busy(s) /\ Truthful(t)
    BY <2>1, <2>2, <2>3 DEF Remembers, Busy, Truthful
  <2>5. QED BY <2>1, <2>3, <2>4, QuietStep
<1>2. CASE UnlockEnds(h)
  <2>1. s.pc = "unlocking" /\ UNCHANGED <<active, rlock, disk, durable, effects>> /\ ~ Busy(s)
    BY <1>2 DEF UnlockEnds, Busy
  <2>2. CASE Become(h, Reply(s, "lock")) \/ Become(h, Reply(s, "error"))
    BY <1>0, <2>1, <2>2, ReplyStep
  <2>3. CASE \E word : Become(h, [Reply(s, word) EXCEPT
                            !.session = [path |-> s.target, vault |-> VaultOf[active]]])
    <3>1. PICK word : Become(h, [Reply(s, word) EXCEPT
                            !.session = [path |-> s.target, vault |-> VaultOf[active]]])
      BY <2>3
    <3> DEFINE r == Reply(s, word)
               t == [r EXCEPT !.session = [path |-> s.target, vault |-> VaultOf[active]]]
    <3>2. r \in HostState /\ r.pc = "idle" /\ r.said = "nothing" BY <1>0, ReplyShape
    <3>3. [path |-> s.target, vault |-> VaultOf[active]] \in Sessions
      BY <1>0, <2>1 DEF IInv, Remembers, Sessions, Vaults
    <3> HIDE DEF r
    <3>4. t \in HostState /\ t.pc = "idle" /\ t.said = "nothing"
      BY <3>2, <3>3 DEF HostState
    <3>5. Become(h, t) BY <3>1 DEF r
    <3> HIDE DEF t
    <3>6. Remembers(t) /\ ~ Busy(t) /\ Truthful(t) BY <3>4 DEF Remembers, Busy, Truthful
    <3>7. QED BY <2>1, <3>4, <3>5, <3>6, QuietStep
  <2>4. QED BY <1>2, <2>2, <2>3 DEF UnlockEnds
<1>3. CASE Forget(h)
  <2> DEFINE t == [Sealed(s) EXCEPT !.said = "nothing"]
  <2>1. Become(h, t) /\ s.pc = "idle" /\ UNCHANGED <<active, rlock, disk, durable, effects>>
    BY <1>3 DEF Forget
  <2>2. t \in HostState /\ t.pc = "idle" /\ t.said = "nothing"
    BY <1>0, <2>1, LockedShape DEF HostState
  <2> HIDE DEF t
  <2>3. Remembers(t) /\ ~ Busy(t) /\ ~ Busy(s) /\ Truthful(t)
    BY <2>1, <2>2 DEF Remembers, Busy, Truthful
  <2>4. QED BY <2>1, <2>2, <2>3, QuietStep
<1>4. QED BY <1>1, <1>2, <1>3

(* The clock may run out at any moment of a request.                          *)
LEMMA ClockStep ==
    ASSUME IInv, NoHost \notin Hosts, NEW h \in Hosts, TimePasses(h)
    PROVE  IInv' /\ TruthfulStep
<1> DEFINE s == host[h]
           t == [s EXCEPT !.stale = TRUE, !.said = "nothing"]
<1>0. s \in HostState /\ Remembers(s) /\ Journaled(s) BY DEF IInv, HostsOk
<1>1. Become(h, t) /\ UNCHANGED <<active, rlock, disk, durable, effects>> BY DEF TimePasses
<1>2. /\ t \in HostState /\ t.said = "nothing" /\ t.pc = s.pc /\ t.session = s.session
      /\ t.op = s.op /\ t.id = s.id /\ t.target = s.target /\ t.vault = s.vault
      /\ t.want = s.want /\ t.outcome = s.outcome
  BY <1>0 DEF HostState
<1> HIDE DEF t
<1>3. Remembers(t) BY <1>0, <1>2 DEF Remembers
<1>4. Truthful(t) BY <1>2 DEF Truthful
<1>5. (Busy(t) <=> Busy(s)) /\ (Before(t) <=> Before(s)) BY <1>2 DEF Busy, Before
<1>6. t.pc = "finishing" /\ t.outcome = "ok" => effects[t.id] # <<>>
  BY <1>0, <1>2 DEF Journaled, Busy
<1>7. Grows BY <1>1, NothingGrows
<1>8. QED BY <1>1, <1>2, <1>3, <1>4, <1>5, <1>6, <1>7, HostStep DEF IInv, JournalsOk

LEMMA AskStep ==
    ASSUME IInv, NoHost \notin Hosts, NEW h \in Hosts, NEW op \in {"edit", "switch"},
           NEW i \in Ids, NEW d \in Databases \cup {NoDb}, Ask(h, op, i, d)
    PROVE  IInv' /\ TruthfulStep
<1> DEFINE s == expire(host[h])
           w == IF op = "switch" THEN d ELSE s.session.path
           t == [s EXCEPT !.pc = "naming", !.op = op, !.id = i, !.target = d, !.said = "nothing",
                          !.want = w]
<1>0. s \in HostState /\ s.pc = host[h].pc BY ExpireShape DEF IInv, HostsOk
<1>1. Become(h, t) /\ s.pc = "idle" /\ UNCHANGED <<active, rlock, disk, durable, effects>>
  BY DEF Ask
<1>2. op = "switch" => d \in Databases BY DEF Ask
<1>3. w \in Databases \cup {NoDb} BY <1>0 DEF HostState, Sessions
<1> HIDE DEF s, w
<1>4. /\ t \in HostState /\ t.pc = "naming" /\ t.op = op /\ t.id = i /\ t.target = d
      /\ t.said = "nothing" /\ t.session = s.session /\ t.want = w
  BY <1>0, <1>3 DEF HostState, Pcs
<1> HIDE DEF t
<1>5. Remembers(t) BY <1>2, <1>4 DEF Remembers, w
<1>6. ~ Busy(t) /\ ~ Busy(host[h]) /\ Truthful(t)
  BY <1>0, <1>1, <1>4 DEF Busy, Truthful
<1>7. QED BY <1>1, <1>4, <1>5, <1>6, QuietStep

LEMMA NameStep ==
    ASSUME IInv, NoHost \notin Hosts, NEW h \in Hosts, Name(h)
    PROVE  IInv' /\ TruthfulStep
<1> DEFINE s == host[h]
<1>0. s \in HostState /\ Remembers(s) BY DEF IInv, HostsOk
<1>1. s.pc = "naming" /\ ~ Busy(s) /\ UNCHANGED <<active, rlock, disk, durable, effects>>
  BY DEF Name, Busy
<1>2. CASE \E word : Become(h, Reply(s, word)) BY <1>0, <1>1, <1>2, ReplyStep
<1>3. CASE \E v \in Vaults :
              /\ Become(h, [s EXCEPT !.pc = "journal", !.vault = v])
              /\ s.op = "switch" => v = VaultOf[s.target]
              /\ s.op = "edit" => v = s.session.vault
  <2>1. PICK v \in Vaults :
              /\ Become(h, [s EXCEPT !.pc = "journal", !.vault = v])
              /\ s.op = "switch" => v = VaultOf[s.target]
              /\ s.op = "edit" => v = s.session.vault
    BY <1>3
  <2> DEFINE t == [s EXCEPT !.pc = "journal", !.vault = v]
  <2>2. /\ t \in HostState /\ t.pc = "journal" /\ t.vault = v /\ t.session = s.session
        /\ t.op = s.op /\ t.id = s.id /\ t.target = s.target /\ t.want = s.want
        /\ t.said = s.said
    BY <1>0 DEF HostState, Pcs
  <2>3. s.said = "nothing" BY <1>0, <1>1 DEF Remembers
  <2> HIDE DEF t
  <2>4. Remembers(t) BY <1>0, <1>1, <2>1, <2>2 DEF Remembers
  <2>5. ~ Busy(t) /\ Truthful(t) BY <2>2, <2>3 DEF Busy, Truthful
  <2>6. QED BY <1>1, <2>1, <2>2, <2>4, <2>5, QuietStep DEF t
<1>4. CASE s.op = "switch" /\ s.target # active /\ Become(h, [s EXCEPT !.pc = "journal", !.vault = VaultOf[s.target]])
  <2>1. VaultOf[s.target] \in Vaults BY <1>0, <1>1, <1>4 DEF Remembers, Vaults
  <2>2. QED BY <1>3, <1>4, <2>1
<1>5. CASE /\ s.op = "edit" /\ Expected(s.session)
           /\ Become(h, [s EXCEPT !.pc = "journal", !.vault = s.session.vault])
  <2>1. s.session.vault \in Vaults BY <1>5 DEF Expected, Vaults, IInv
  <2>2. QED BY <1>3, <1>5, <2>1
<1>6. QED BY <1>2, <1>4, <1>5 DEF Name

LEMMA JournalSteps ==
    ASSUME IInv, NoHost \notin Hosts, NEW h \in Hosts,
           BusyReceipts(h) \/ Repeated(h) \/ Full(h)
    PROVE  IInv' /\ TruthfulStep
<1> DEFINE s == host[h]
<1>0. s \in HostState /\ Remembers(s) /\ s.pc = "journal" /\ ~ Busy(s)
  BY DEF IInv, HostsOk, BusyReceipts, Repeated, Full, Busy
<1>1. CASE BusyReceipts(h) BY <1>0, <1>1, ReplyStep DEF BusyReceipts
<1>2. CASE Full(h) BY <1>0, <1>2, ReplyStep DEF Full
<1>3. CASE Repeated(h)
  <2>1. s.id \in Ids /\ s.vault \in Vaults /\ s.id \in DOMAIN disk
    BY <1>0, <1>3 DEF Remembers, Repeated
  <2>2. CASE Become(h, Reply(s, "lock")) BY <1>0, <1>3, <2>2, ReplyStep DEF Repeated
  <2>3. CASE disk[s.id].vault = s.vault /\ Become(h, Told(s, StatusOf(disk[s.id]), s.id, s.vault))
    <3> DEFINE word == StatusOf(disk[s.id])
    <3>1. word \in {"succeeded", "not_recorded", "unconfirmed"} BY DEF StatusOf
    <3>2. word = "succeeded" => effects[s.id] # <<>> BY <2>1 DEF StatusOf, IInv, JournalsOk
    <3>3. word # "not_recorded" BY DEF StatusOf
    <3> HIDE DEF word
    <3>4. Become(h, Told(s, word, s.id, s.vault)) BY <2>3 DEF word
    <3>5. UNCHANGED <<active, rlock, disk, durable, effects>> BY <1>3 DEF Repeated
    <3>6. QED BY <1>0, <2>1, <2>3, <3>1, <3>2, <3>3, <3>4, <3>5, ToldStep
  <2>4. QED BY <1>3, <2>2, <2>3 DEF Repeated
<1>4. QED BY <1>1, <1>2, <1>3

LEMMA StatusStep ==
    ASSUME IInv, NoHost \notin Hosts, NEW h \in Hosts, NEW i \in Ids, OperationStatus(h, i)
    PROVE  IInv' /\ TruthfulStep
<1> DEFINE s == expire(host[h])
           v == s.session.vault
<1>0. s \in HostState /\ s.pc = host[h].pc BY ExpireShape DEF IInv, HostsOk
<1>1. s.pc = "idle" /\ UNCHANGED <<active, rlock, disk, durable, effects>>
  BY DEF OperationStatus
<1>2. ~ Busy(host[h]) BY <1>0, <1>1 DEF Busy
<1>3. v \in Vaults \cup {NoDb} BY <1>0 DEF HostState, Sessions
<1>4. \/ Become(h, Reply(s, "lock"))
      \/ i \notin DOMAIN disk /\ Become(h, Told(s, "not_recorded", i, v))
      \/ /\ i \in DOMAIN disk /\ disk[i].vault = v
         /\ Become(h, Told(s, StatusOf(disk[i]), i, v))
  BY DEF OperationStatus
<1> HIDE DEF s, v
<1>5. CASE Become(h, Reply(s, "lock")) BY <1>0, <1>1, <1>2, <1>5, ReplyStep
<1>6. CASE i \notin DOMAIN disk /\ Become(h, Told(s, "not_recorded", i, v))
  <2>1. effects[i] = <<>> BY <1>6 DEF IInv, JournalsOk, EffectsOk
  <2>2. QED BY <1>0, <1>1, <1>2, <1>3, <1>6, <2>1, ToldStep
<1>7. CASE /\ i \in DOMAIN disk /\ disk[i].vault = v
           /\ Become(h, Told(s, StatusOf(disk[i]), i, v))
  <2> DEFINE word == StatusOf(disk[i])
  <2>1. /\ word \in {"succeeded", "not_recorded", "unconfirmed"} /\ word # "not_recorded"
        /\ word = "succeeded" => effects[i] # <<>>
    BY <1>7 DEF StatusOf, IInv, JournalsOk
  <2>2. Become(h, Told(s, word, i, v)) BY <1>7
  <2> HIDE DEF word
  <2>3. QED BY <1>0, <1>1, <1>2, <1>3, <1>7, <2>1, <2>2, ToldStep
<1>8. QED BY <1>4, <1>5, <1>6, <1>7

----------------------------------------------------------------------------
(* An id is consumed.                                                         *)

LEMMA ExtendedShape ==
    ASSUME IInv, NEW s \in HostState, s.id \in Ids, s.id \notin DOMAIN disk,
           s.vault \in Vaults, s.op \in {"edit", "switch"}
    PROVE  /\ DOMAIN Extended(s) = DOMAIN disk \cup {s.id}
           /\ Extended(s) \in [DOMAIN disk \cup {s.id} -> Record]
           /\ \A i \in DOMAIN disk : Extended(s)[i] = disk[i]
           /\ Extended(s)[s.id].vault = s.vault
           /\ ~ Extended(s)[s.id].completed
<1>1. Receipt(s) \in Record /\ Receipt(s).vault = s.vault /\ ~ Receipt(s).completed
  BY DEF Receipt, Record
<1>2. \A i \in DOMAIN disk : disk[i] \in Record BY DEF IInv, JournalsOk
<1> HIDE DEF Receipt
<1>3. QED BY <1>1, <1>2 DEF Extended

LEMMA BeginStep ==
    ASSUME IInv, NoHost \notin Hosts, NEW h \in Hosts, BeginRequest(h)
    PROVE  IInv' /\ TruthfulStep
<1> DEFINE s == host[h]
           f == Extended(s)
<1>0. s \in HostState /\ Remembers(s) BY DEF IInv, HostsOk
<1>1. /\ s.pc = "journal" /\ rlock = NoHost /\ s.id \notin DOMAIN disk /\ ~ Busy(s)
      /\ UNCHANGED <<active, effects>>
  BY DEF BeginRequest, Busy
<1>2. s.id \in Ids /\ s.vault \in Vaults /\ s.op \in {"edit", "switch"} /\ s.said = "nothing"
  BY <1>0, <1>1 DEF Remembers
<1>3. /\ DOMAIN f = DOMAIN disk \cup {s.id} /\ f \in [DOMAIN f -> Record]
      /\ \A i \in DOMAIN disk : f[i] = disk[i]
      /\ f[s.id].vault = s.vault /\ ~ f[s.id].completed
  BY <1>0, <1>1, <1>2, ExtendedShape
<1>4. effects[s.id] = <<>> BY <1>1, <1>2 DEF IInv, EffectsOk, JournalsOk
<1> HIDE DEF f
<1>5. \A i \in Ids \cap DOMAIN f : f[i].completed => effects[i] # <<>>
  BY <1>3 DEF IInv, JournalsOk
<1>6. CASE SaveFailed(f) /\ Become(h, Reply(s, "error")) /\ UNCHANGED rlock
  <2> DEFINE t == Reply(s, "error")
  <2>1. t \in HostState /\ t.pc = "idle" /\ t.said = "nothing" BY <1>0, ReplyShape
  <2>2. Become(h, t) BY <1>6
  <2> HIDE DEF t
  <2>3. Remembers(t) /\ ~ Busy(t) /\ ~ Before(t) /\ Truthful(t)
    BY <2>1 DEF Remembers, Busy, Before, Truthful
  <2>4. Grows BY <1>3, <1>6 DEF SaveFailed, Grows, IInv, JournalsOk
  <2>5. \A i \in Ids \cap DOMAIN disk' : disk'[i].completed => effects[i] # <<>>
    BY <1>5, <1>6 DEF SaveFailed, IInv, JournalsOk
  <2>6. \A i \in Ids \cap DOMAIN durable' : durable'[i].completed => effects[i] # <<>>
    BY <1>6 DEF SaveFailed, IInv, JournalsOk
  <2>7. QED
    BY <1>1, <1>6, <2>1, <2>2, <2>3, <2>4, <2>5, <2>6, HostStep DEF IInv
<1>7. CASE Wrote(f) /\ rlock' = h /\ Become(h, [s EXCEPT !.pc = "entering"])
  <2> DEFINE t == [s EXCEPT !.pc = "entering"]
  <2>1. /\ t \in HostState /\ t.pc = "entering" /\ t.session = s.session /\ t.op = s.op
        /\ t.id = s.id /\ t.target = s.target /\ t.vault = s.vault /\ t.want = s.want
        /\ t.said = s.said
    BY <1>0 DEF HostState, Pcs
  <2>2. Become(h, t) BY <1>7
  <2> HIDE DEF t
  <2>3. /\ host \in [Hosts -> HostState] /\ host' \in [Hosts -> HostState]
        /\ \A g \in Hosts : host'[g] = IF g = h THEN t ELSE host[g]
    BY <2>1, <2>2 DEF IInv, HostsOk, Become
  <2>4. \A g \in Hosts : ~ Busy(host[g]) BY <1>1 DEF IInv, LockOk
  <2>5. Remembers(t) BY <1>0, <1>1, <2>1 DEF Remembers
  <2>6. Busy(t) BY <2>1 DEF Busy
  <2>7. HostsOk'
    <3>1. \A g \in Hosts : Remembers(host'[g]) BY <2>3, <2>5 DEF IInv, HostsOk
    <3>2. Journaled(host[h])'
      BY <1>1, <1>3, <1>4, <1>7, <2>1, <2>3 DEF Journaled, Wrote
    <3>3. \A g \in Hosts : g # h => Journaled(host[g])' BY <2>3, <2>4 DEF Journaled
    <3>4. QED BY <2>3, <3>1, <3>2, <3>3 DEF HostsOk
  <2>8. LockOk' BY <1>7, <2>3, <2>4, <2>6 DEF LockOk
  <2>9. JournalsOk' BY <1>1, <1>3, <1>5, <1>7 DEF JournalsOk, Wrote
  <2>10. EffectsOk' BY <1>1, <1>3, <1>7 DEF EffectsOk, IInv, JournalsOk, Wrote
  <2>11. TruthfulStep BY <1>2, <2>1, <2>3 DEF TruthfulStep
  <2>12. QED BY <1>1, <2>7, <2>8, <2>9, <2>10, <2>11 DEF IInv
<1>8. QED BY <1>6, <1>7 DEF BeginRequest, f

----------------------------------------------------------------------------
(* An operation is carried out.                                               *)

(* A host that stays busy, or turns to its answer, without an effect.         *)
LEMMA WorkStep ==
    ASSUME IInv, NoHost \notin Hosts, NEW h \in Hosts, NEW t \in HostState, Become(h, t),
           Before(host[h]), t.pc \in {"applying", "finishing"},
           t.pc = "finishing" => t.outcome # "ok",
           t.session = host[h].session \/ t.session = NoSession,
           t.op = host[h].op, t.id = host[h].id, t.target = host[h].target,
           t.vault = host[h].vault, t.want = host[h].want, t.said = host[h].said,
           UNCHANGED <<active, rlock, disk, durable, effects>>
    PROVE  IInv' /\ TruthfulStep
<1>1. Remembers(host[h]) BY DEF IInv, HostsOk
<1>2. Remembers(t) BY <1>1 DEF Remembers, Before
<1>3. Busy(host[h]) /\ Busy(t) BY DEF Busy, Before
<1>4. Truthful(t) BY <1>1 DEF Truthful, Remembers, Before
<1>5. Grows BY NothingGrows
<1>6. QED BY <1>2, <1>3, <1>4, <1>5, HostStep DEF IInv, JournalsOk

LEMMA EnterStep ==
    ASSUME IInv, NoHost \notin Hosts, NEW h \in Hosts, Enter(h)
    PROVE  IInv' /\ TruthfulStep
<1> DEFINE s == IF host[h].op = "switch" THEN Sealed(host[h]) ELSE expire(host[h])
<1>0. host[h] \in HostState BY DEF IInv, HostsOk
<1>1. /\ s \in HostState
      /\ s.session = NoSession \/ s.session = host[h].session
      /\ s.pc = host[h].pc /\ s.op = host[h].op /\ s.id = host[h].id
      /\ s.target = host[h].target /\ s.vault = host[h].vault /\ s.want = host[h].want
      /\ s.said = host[h].said
  BY <1>0, LockedShape, ExpireShape
<1>2. s.pc = "entering" /\ UNCHANGED <<active, rlock, disk, durable, effects>> BY DEF Enter
<1>3. \/ Become(h, [s EXCEPT !.pc = "applying"])
      \/ \E word \in {"lock", "error"} :
            Become(h, [s EXCEPT !.pc = "finishing", !.outcome = word])
  BY DEF Enter
<1> HIDE DEF s
<1>4. Before(host[h]) BY <1>1, <1>2 DEF Before
<1>5. CASE Become(h, [s EXCEPT !.pc = "applying"])
  <2> DEFINE t == [s EXCEPT !.pc = "applying"]
  <2>1. /\ t \in HostState /\ t.pc = "applying" /\ t.session = s.session /\ t.op = s.op
        /\ t.id = s.id /\ t.target = s.target /\ t.vault = s.vault /\ t.want = s.want
        /\ t.said = s.said
    BY <1>1 DEF HostState, Pcs
  <2>2. Become(h, t) BY <1>5
  <2> HIDE DEF t
  <2>3. QED BY <1>1, <1>2, <1>4, <2>1, <2>2, WorkStep
<1>6. CASE \E word \in {"lock", "error"} :
            Become(h, [s EXCEPT !.pc = "finishing", !.outcome = word])
  <2>0. PICK word \in {"lock", "error"} :
            Become(h, [s EXCEPT !.pc = "finishing", !.outcome = word])
    BY <1>6
  <2> DEFINE t == [s EXCEPT !.pc = "finishing", !.outcome = word]
  <2>1. /\ t \in HostState /\ t.pc = "finishing" /\ t.outcome = word
        /\ t.session = s.session /\ t.op = s.op
        /\ t.id = s.id /\ t.target = s.target /\ t.vault = s.vault /\ t.want = s.want
        /\ t.said = s.said
    BY <1>1, <2>0 DEF HostState, Pcs
  <2>2. Become(h, t) BY <2>0
  <2> HIDE DEF t
  <2>3. QED BY <1>1, <1>2, <1>4, <2>1, <2>2, WorkStep
<1>7. QED BY <1>3, <1>5, <1>6

(* The operation takes effect, in the database it was asked for.              *)
LEMMA EffectStep ==
    ASSUME IInv, NoHost \notin Hosts, NEW h \in Hosts, NEW t \in HostState, Become(h, t),
           host[h].pc = "applying", t.pc = "finishing", t.id = host[h].id,
           t.vault = host[h].vault, t.said = "nothing",
           NEW d \in Databases, VaultOf[d] = host[h].vault,
           effects' = [effects EXCEPT ![t.id] = Append(effects[t.id], [in |-> d, for |-> d])],
           active' \in Databases, UNCHANGED <<rlock, disk, durable>>
    PROVE  IInv' /\ TruthfulStep
<1> USE DEF IInv
<1>1. t.id \in Ids /\ Remembers(host[h]) BY DEF HostsOk, Remembers
<1>2. Journaled(host[h]) /\ Busy(host[h]) /\ Before(host[h]) BY DEF HostsOk, Busy, Before
<1>3. effects[t.id] = <<>> /\ t.id \in DOMAIN durable /\ disk[t.id].vault = VaultOf[d]
  BY <1>2 DEF Journaled
<1>4. /\ effects' \in [Ids -> AtMostOne]
      /\ effects'[t.id] = <<[in |-> d, for |-> d]>>
      /\ \A i \in Ids : i # t.id => effects'[i] = effects[i]
  BY <1>1, <1>3 DEF EffectsOk, AtMostOne
<1>5. effects'[t.id] # <<>> /\ effects'[t.id][1].in = d BY <1>4
<1>6. /\ host \in [Hosts -> HostState] /\ host' \in [Hosts -> HostState]
      /\ \A g \in Hosts : host'[g] = IF g = h THEN t ELSE host[g]
  BY DEF HostsOk, Become
<1>7. \A g \in Hosts : g # h => ~ Busy(host[g]) BY <1>2 DEF LockOk
<1>8. HostsOk'
  <2>1. Remembers(t) BY <1>1 DEF Remembers
  <2>2. \A g \in Hosts : Remembers(host'[g]) BY <1>6, <2>1 DEF HostsOk
  <2>3. Journaled(host[h])' BY <1>3, <1>5, <1>6 DEF Journaled, Before
  <2>4. \A g \in Hosts : g # h => Journaled(host[g])' BY <1>6, <1>7 DEF Journaled
  <2>5. QED BY <1>6, <2>2, <2>3, <2>4 DEF HostsOk
<1>9. LockOk'
  <2>1. Busy(t) BY DEF Busy
  <2>2. QED BY <1>2, <1>6, <2>1 DEF LockOk
<1>10. JournalsOk'
  <2>1. \A i \in Ids : effects[i] # <<>> => effects'[i] # <<>> BY <1>4, <1>5
  <2>2. QED BY <2>1 DEF JournalsOk
<1>11. EffectsOk' BY <1>3, <1>4, <1>5 DEF EffectsOk
<1>12. TruthfulStep BY <1>6 DEF TruthfulStep
<1>13. QED BY <1>8, <1>9, <1>10, <1>11, <1>12

LEMMA EditStep ==
    ASSUME IInv, NoHost \notin Hosts, NEW h \in Hosts, EditEntry(h)
    PROVE  IInv' /\ TruthfulStep
<1> DEFINE s == expire(host[h])
<1>0. host[h] \in HostState /\ Remembers(host[h]) BY DEF IInv, HostsOk
<1>1. /\ s \in HostState
      /\ s.session = NoSession \/ s.session = host[h].session
      /\ s.pc = host[h].pc /\ s.op = host[h].op /\ s.id = host[h].id
      /\ s.target = host[h].target /\ s.vault = host[h].vault /\ s.want = host[h].want
      /\ s.said = host[h].said
  BY <1>0, ExpireShape
<1>2. s.pc = "applying" /\ s.op = "edit" /\ UNCHANGED <<active, rlock, disk, durable>> BY DEF EditEntry
<1>3. \/ /\ \E word \in {"lock", "error"} :
                Become(h, [s EXCEPT !.pc = "finishing", !.outcome = word])
         /\ UNCHANGED effects
      \/ /\ s.session # NoSession /\ Expected(s.session)
         /\ \E done \in {[s EXCEPT !.outcome = "ok"], [s EXCEPT !.outcome = "error"],
                         [Sealed(s) EXCEPT !.outcome = "ok"]} :
               Become(h, [done EXCEPT !.pc = "finishing"])
         /\ Happened(s, active)
  BY DEF EditEntry
<1> HIDE DEF s
<1>4. CASE /\ \E word \in {"lock", "error"} :
                Become(h, [s EXCEPT !.pc = "finishing", !.outcome = word])
           /\ UNCHANGED effects
  <2>0. PICK word \in {"lock", "error"} :
            Become(h, [s EXCEPT !.pc = "finishing", !.outcome = word])
    BY <1>4
  <2> DEFINE t == [s EXCEPT !.pc = "finishing", !.outcome = word]
  <2>1. /\ t \in HostState /\ t.pc = "finishing" /\ t.outcome = word
        /\ t.session = s.session /\ t.op = s.op
        /\ t.id = s.id /\ t.target = s.target /\ t.vault = s.vault /\ t.want = s.want
        /\ t.said = s.said
    BY <1>1, <2>0 DEF HostState, Pcs
  <2>2. Become(h, t) /\ Before(host[h]) BY <1>1, <1>2, <2>0 DEF Before
  <2> HIDE DEF t
  <2>3. QED BY <1>1, <1>2, <1>4, <2>1, <2>2, WorkStep
<1>5. CASE /\ s.session # NoSession /\ Expected(s.session)
           /\ \E done \in {[s EXCEPT !.outcome = "ok"], [s EXCEPT !.outcome = "error"],
                           [Sealed(s) EXCEPT !.outcome = "ok"]} :
                 Become(h, [done EXCEPT !.pc = "finishing"])
           /\ Happened(s, active)
  <2>1. PICK done \in {[s EXCEPT !.outcome = "ok"], [s EXCEPT !.outcome = "error"],
                       [Sealed(s) EXCEPT !.outcome = "ok"]} :
           Become(h, [done EXCEPT !.pc = "finishing"])
    BY <1>5
  <2>2. /\ done \in HostState /\ done.id = s.id /\ done.vault = s.vault /\ done.said = s.said
    <3> DEFINE u == Sealed(s)
    <3>1. u \in HostState /\ u.id = s.id /\ u.vault = s.vault /\ u.said = s.said
      BY <1>1, LockedShape
    <3>2. done \in {[s EXCEPT !.outcome = "ok"], [s EXCEPT !.outcome = "error"],
                    [u EXCEPT !.outcome = "ok"]}
      BY <2>1
    <3> HIDE DEF u
    <3>3. QED BY <1>1, <3>1, <3>2 DEF HostState
  <2> DEFINE t == [done EXCEPT !.pc = "finishing"]
  <2>3. /\ t \in HostState /\ t.pc = "finishing" /\ t.id = s.id /\ t.vault = s.vault
        /\ t.said = s.said
    BY <2>2 DEF HostState, Pcs
  <2>4. Become(h, t) BY <2>1
  <2> HIDE DEF t
  <2>5. t.said = "nothing" BY <1>0, <1>1, <1>2, <2>3 DEF Remembers
  <2>6. s.want = active /\ VaultOf[active] = host[h].vault
    BY <1>0, <1>1, <1>2, <1>5 DEF Remembers, Expected
  <2>7. effects' = [effects EXCEPT ![t.id] = Append(effects[t.id], [in |-> active, for |-> active])]
    BY <1>5, <2>3, <2>6 DEF Happened
  <2>8. active \in Databases /\ active' \in Databases BY <1>2 DEF IInv
  <2>9. QED BY <1>1, <1>2, <2>3, <2>4, <2>5, <2>6, <2>7, <2>8, EffectStep
<1>6. QED BY <1>3, <1>4, <1>5

LEMMA SwitchStep ==
    ASSUME IInv, NoHost \notin Hosts, NEW h \in Hosts, Switch(h)
    PROVE  IInv' /\ TruthfulStep
<1> DEFINE s == host[h]
<1>0. s \in HostState /\ Remembers(s) BY DEF IInv, HostsOk
<1>1. s.pc = "applying" /\ s.op = "switch" /\ UNCHANGED <<rlock, disk, durable>> BY DEF Switch
<1>2. PICK word \in {"ok", "error"} :
        /\ Become(h, [s EXCEPT !.pc = "finishing", !.outcome = word])
        /\ \/ word = "error" /\ UNCHANGED <<active, effects>>
           \/ active' = s.target /\ Happened(s, s.target)
  BY DEF Switch
<1> DEFINE t == [s EXCEPT !.pc = "finishing", !.outcome = word]
<1>3. /\ t \in HostState /\ t.pc = "finishing" /\ t.outcome = word
      /\ t.session = s.session /\ t.op = s.op
      /\ t.id = s.id /\ t.target = s.target /\ t.vault = s.vault /\ t.want = s.want
      /\ t.said = s.said
  BY <1>0, <1>2 DEF HostState, Pcs
<1>4. Become(h, t) /\ Before(s) BY <1>1, <1>2 DEF Before
<1> HIDE DEF t
<1>5. s.said = "nothing" /\ s.target \in Databases /\ s.want = s.target /\ VaultOf[s.target] = s.vault
  BY <1>0, <1>1 DEF Remembers
<1>6. CASE word = "error" /\ UNCHANGED <<active, effects>>
  BY <1>1, <1>3, <1>4, <1>6, WorkStep
<1>7. CASE active' = s.target /\ Happened(s, s.target)
  <2>1. effects' = [effects EXCEPT ![t.id] = Append(effects[t.id], [in |-> s.target, for |-> s.target])]
    BY <1>3, <1>5, <1>7 DEF Happened
  <2>2. QED BY <1>1, <1>3, <1>4, <1>5, <1>7, <2>1, EffectStep
<1>8. QED BY <1>2, <1>6, <1>7

----------------------------------------------------------------------------
(* An operation is done.                                                      *)

LEMMA FinishStep ==
    ASSUME IInv, NoHost \notin Hosts, NEW h \in Hosts, Finish(h)
    PROVE  IInv' /\ TruthfulStep
<1> DEFINE s == host[h]
           f == [disk EXCEPT ![s.id].completed = (s.outcome = "ok")]
<1>0. s \in HostState /\ Remembers(s) /\ Journaled(s) BY DEF IInv, HostsOk
<1>1. /\ s.pc = "finishing" /\ Busy(s) /\ rlock' = NoHost /\ UNCHANGED <<active, effects>>
  BY DEF Finish, Busy
<1>2. /\ s.id \in Ids /\ s.id \in DOMAIN durable /\ s.id \in DOMAIN disk
      /\ disk[s.id].vault = s.vault
      /\ s.outcome = "ok" => effects[s.id] # <<>>
  BY <1>0, <1>1 DEF Remembers, Journaled, IInv, JournalsOk
<1>3. /\ DOMAIN f = DOMAIN disk /\ f \in [DOMAIN f -> Record]
      /\ \A i \in DOMAIN disk : f[i].vault = disk[i].vault
      /\ \A i \in DOMAIN disk : f[i].completed => disk[i].completed \/ (i = s.id /\ s.outcome = "ok")
  <2>1. disk \in [DOMAIN disk -> Record] BY DEF IInv, JournalsOk
  <2>2. DOMAIN f = DOMAIN disk OBVIOUS
  <2>3. ASSUME NEW i \in DOMAIN disk
        PROVE  /\ f[i] \in Record /\ f[i].vault = disk[i].vault
               /\ f[i].completed => disk[i].completed \/ (i = s.id /\ s.outcome = "ok")
    <3>1. CASE i = s.id
      <4>1. f[i] = [disk[i] EXCEPT !.completed = (s.outcome = "ok")] BY <3>1, <1>2
      <4>2. disk[i] \in Record BY <2>1
      <4>3. QED BY <3>1, <4>1, <4>2 DEF Record
    <3>2. CASE i # s.id
      <4>1. f[i] = disk[i] BY <3>2
      <4>2. QED BY <2>1, <4>1
    <3>3. QED BY <3>1, <3>2
  <2>4. f = [i \in DOMAIN disk |-> f[i]] OBVIOUS
  <2> HIDE DEF f
  <2>5. QED BY <2>2, <2>3, <2>4
<1>4. \/ /\ Wrote(f)
         /\ Become(h, IF s.outcome = "ok" THEN Told(s, "succeeded", s.id, s.vault)
                                          ELSE Reply(s, s.outcome))
      \/ SaveFailed(f) /\ Become(h, Reply(s, "error"))
  BY DEF Finish
<1> HIDE DEF f
<1>5. \A i \in Ids \cap DOMAIN f : f[i].completed => effects[i] # <<>>
  BY <1>2, <1>3 DEF IInv, JournalsOk
<1>6. (Wrote(f) \/ SaveFailed(f)) =>
        /\ Grows
        /\ \A i \in Ids \cap DOMAIN disk' : disk'[i].completed => effects[i] # <<>>
        /\ \A i \in Ids \cap DOMAIN durable' : durable'[i].completed => effects[i] # <<>>
  <2>1. CASE Wrote(f) BY <1>3, <1>5, <2>1 DEF Wrote, Grows, IInv, JournalsOk
  <2>2. CASE SaveFailed(f)
    <3>1. CASE disk' = f BY <1>3, <1>5, <2>2, <3>1 DEF SaveFailed, Grows, IInv, JournalsOk
    <3>2. CASE disk' = disk BY <2>2, <3>2 DEF SaveFailed, Grows, IInv, JournalsOk
    <3>3. QED BY <2>2, <3>1, <3>2 DEF SaveFailed
  <2>3. QED BY <2>1, <2>2
<1>7. PICK t : t \in HostState /\ t.pc = "idle" /\ Become(h, t) /\ Truthful(t)
  <2>1. CASE \E word : Become(h, Reply(s, word))
    <3>1. PICK word : Become(h, Reply(s, word)) BY <2>1
    <3> DEFINE r == Reply(s, word)
    <3>2. r \in HostState /\ r.pc = "idle" /\ r.said = "nothing" BY <1>0, ReplyShape
    <3>3. Become(h, r) BY <3>1
    <3> HIDE DEF r
    <3>4. Truthful(r) BY <3>2 DEF Truthful
    <3>5. QED BY <3>2, <3>3, <3>4
  <2>2. CASE s.outcome = "ok" /\ Become(h, Told(s, "succeeded", s.id, s.vault))
    <3> DEFINE r == Told(s, "succeeded", s.id, s.vault)
    <3>1. s.vault \in Vaults \cup {NoDb} BY <1>0 DEF HostState
    <3>2. /\ r \in HostState /\ r.pc = "idle"
          /\ r.said # "nothing" => r.said = "succeeded" /\ r.id = s.id /\ r.vault = s.vault
      BY <1>0, <1>2, <3>1, ToldShape
    <3>3. Become(h, r) BY <2>2
    <3> HIDE DEF r
    <3>4. 1 \in DOMAIN effects[s.id] /\ VaultOf[effects[s.id][1].in] = s.vault
      BY <1>2, <2>2 DEF IInv, EffectsOk, AtMostOne
    <3>5. Truthful(r) BY <1>2, <2>2, <3>2, <3>4 DEF Truthful
    <3>6. QED BY <3>2, <3>3, <3>5
  <2>3. QED BY <1>4, <2>1, <2>2
<1>8. Remembers(t) /\ ~ Busy(t) /\ ~ Before(t) BY <1>7 DEF Remembers, Busy, Before
<1>9. active' \in Databases BY <1>1 DEF IInv
<1>10. Wrote(f) \/ SaveFailed(f) BY <1>4
<1>11. QED BY <1>1, <1>6, <1>7, <1>8, <1>9, <1>10, HostStep

----------------------------------------------------------------------------
(* Around the hosts.                                                          *)

LEMMA BlankShape ==
    /\ Blank \in HostState /\ Blank.pc = "idle" /\ Blank.said = "nothing"
    /\ Remembers(Blank) /\ ~ Busy(Blank) /\ ~ Before(Blank) /\ Truthful(Blank)
BY DEF Blank, HostState, Sessions, NoSession, Pcs, Remembers, Busy, Before, Truthful

LEMMA DieStep ==
    ASSUME IInv, NoHost \notin Hosts, NEW h \in Hosts, HostDies(h)
    PROVE  IInv' /\ TruthfulStep
<1>1. Become(h, Blank) /\ UNCHANGED <<active, disk, durable, effects>> BY DEF HostDies
<1>2. rlock' = IF Busy(host[h]) /\ ~ Busy(Blank) THEN NoHost ELSE rlock
  BY BlankShape DEF HostDies, IInv, LockOk
<1>3. Grows BY <1>1, NothingGrows
<1>4. Blank.pc # "finishing" BY BlankShape
<1>5. QED BY <1>1, <1>2, <1>3, <1>4, BlankShape, HostStep DEF IInv, JournalsOk

LEMMA PowerLossStep ==
    ASSUME IInv, NoHost \notin Hosts, PowerLoss PROVE IInv' /\ TruthfulStep
<1> USE DEF PowerLoss, IInv
<1>1. /\ host' \in [Hosts -> HostState]
      /\ \A h \in Hosts : host'[h] = Blank
  BY BlankShape
<1>2. HostsOk'
  <2>1. \A h \in Hosts : Remembers(host'[h]) BY <1>1, BlankShape
  <2>2. \A h \in Hosts : Journaled(host[h])' BY <1>1, BlankShape DEF Journaled
  <2>3. QED BY <1>1, <2>1, <2>2 DEF HostsOk
<1>3. LockOk' BY <1>1, BlankShape DEF LockOk
<1>4. JournalsOk'
  <2>1. CASE disk' = disk BY <2>1 DEF JournalsOk
  <2>2. CASE disk' = durable BY <2>2 DEF JournalsOk
  <2>3. QED BY <2>1, <2>2
<1>5. EffectsOk' BY DEF EffectsOk, JournalsOk
<1>6. TruthfulStep BY <1>1, BlankShape DEF TruthfulStep
<1>7. QED BY <1>2, <1>3, <1>4, <1>5, <1>6

LEMMA StandStill ==
    ASSUME IInv, UNCHANGED <<rlock, disk, durable, host, effects>>, active' \in Databases
    PROVE  IInv' /\ TruthfulStep
BY DEF IInv, HostsOk, Journaled, LockOk, JournalsOk, EffectsOk, TruthfulStep

LEMMA InitIInv == ASSUME NoHost \notin Hosts, OldId \notin Ids, HostInit PROVE IInv
<1> USE DEF HostInit
<1>1. HostsOk
  <2>1. host \in [Hosts -> HostState] /\ \A h \in Hosts : host[h] = Blank BY BlankShape
  <2>2. \A h \in Hosts : Remembers(host[h]) /\ Journaled(host[h])
    BY <2>1, BlankShape DEF Journaled
  <2>3. QED BY <2>1, <2>2 DEF HostsOk
<1>2. LockOk BY BlankShape DEF LockOk
<1>3. disk \in [DOMAIN disk -> Record] /\ DOMAIN disk \subseteq {OldId}
  <2>1. CASE disk = <<>> BY <2>1
  <2>2. CASE disk \in [{OldId} -> [vault : Vaults, op : {"edit"}, completed : {TRUE}]]
    BY <2>2 DEF Record
  <2>3. QED BY <2>1, <2>2
<1>4. JournalsOk BY <1>3 DEF JournalsOk
<1>5. EffectsOk BY DEF EffectsOk, AtMostOne
<1>6. QED BY <1>1, <1>2, <1>4, <1>5 DEF IInv

LEMMA StepIInv ==
    ASSUME NoHost \notin Hosts, IInv, [HostNext]_bvars PROVE IInv' /\ TruthfulStep
<1>1. CASE \E h \in Hosts : Step(h)
  <2>1. PICK h \in Hosts : Step(h) BY <1>1
  <2>2. CASE UnlockStarts(h) \/ UnlockEnds(h) \/ Forget(h) BY <2>2, SessionSteps
  <2>3. CASE TimePasses(h) BY <2>3, ClockStep
  <2>4. CASE \E op \in {"edit", "switch"}, i \in Ids, d \in Databases \cup {NoDb} : Ask(h, op, i, d)
    BY <2>4, AskStep
  <2>5. CASE Name(h) BY <2>5, NameStep
  <2>6. CASE BusyReceipts(h) \/ Repeated(h) \/ Full(h) BY <2>6, JournalSteps
  <2>7. CASE BeginRequest(h) BY <2>7, BeginStep
  <2>8. CASE Enter(h) BY <2>8, EnterStep
  <2>9. CASE EditEntry(h) BY <2>9, EditStep
  <2>10. CASE Switch(h) BY <2>10, SwitchStep
  <2>11. CASE Finish(h) BY <2>11, FinishStep
  <2>12. CASE \E i \in Ids : OperationStatus(h, i) BY <2>12, StatusStep
  <2>13. CASE HostDies(h) BY <2>13, DieStep
  <2>14. QED BY <2>1, <2>2, <2>3, <2>4, <2>5, <2>6, <2>7, <2>8, <2>9, <2>10, <2>11, <2>12, <2>13
            DEF Step
<1>2. CASE PowerLoss BY <1>2, PowerLossStep
<1>3. CASE \E d \in Databases : OthersSwitch(d)
  BY <1>3, StandStill DEF OthersSwitch
<1>4. CASE UNCHANGED bvars
  <2>1. active' \in Databases /\ UNCHANGED <<rlock, disk, durable, host, effects>>
    BY <1>4 DEF bvars, IInv
  <2>2. QED BY <2>1, StandStill
<1>5. QED BY <1>1, <1>2, <1>3, <1>4 DEF HostNext

----------------------------------------------------------------------------
(* However many browsers there are, whatever they send again and whatever     *)
(* dies in between: an operation id takes effect at most once, with its       *)
(* receipt on the disk to stay, and in the database it was asked for (execute *)
(* of browser.rs, begin of browser/receipts.rs).                              *)
THEOREM OnceAndWhereMeant ==
    ASSUME NoHost \notin Hosts, OldId \notin Ids PROVE HostSpec => []OnceWhereMeant
<1>1. HostInit => IInv BY InitIInv
<1>2. IInv /\ [HostNext]_bvars => IInv' BY StepIInv
<1>3. IInv => OnceWhereMeant
  <2> SUFFICES ASSUME IInv, NEW i \in Ids
               PROVE  /\ Len(effects[i]) <= 1
                      /\ effects[i] # <<>> => i \in DOMAIN disk /\ i \in DOMAIN durable
                      /\ \A n \in 1..Len(effects[i]) :
                           /\ effects[i][n].in = effects[i][n].for
                           /\ disk[i].vault = VaultOf[effects[i][n].in]
    BY DEF OnceWhereMeant
  <2>1. effects[i] \in AtMostOne BY DEF IInv, EffectsOk
  <2>2. CASE effects[i] = <<>> BY <2>2
  <2>3. CASE effects[i] # <<>>
    <3>1. PICK d \in Databases : effects[i] = <<[in |-> d, for |-> d]>>
      BY <2>1, <2>3 DEF AtMostOne
    <3>2. i \in DOMAIN durable /\ i \in DOMAIN disk /\ disk[i].vault = VaultOf[effects[i][1].in]
      BY <2>3 DEF IInv, EffectsOk, JournalsOk
    <3>3. Len(effects[i]) = 1 /\ effects[i][1] = [in |-> d, for |-> d] BY <3>1
    <3>4. QED BY <3>2, <3>3
  <2>4. QED BY <2>2, <2>3
<1>4. QED BY <1>1, <1>2, <1>3, PTL DEF HostSpec

(* What a browser is told of an operation is true of the vault it is told for *)
(* (response and operation_status of browser.rs).                             *)
THEOREM RepliesAreTruthful ==
    ASSUME NoHost \notin Hosts, OldId \notin Ids PROVE HostSpec => TruthfulReplies
<1>1. HostInit => IInv BY InitIInv
<1>2. IInv /\ [HostNext]_bvars => IInv' BY StepIInv
<1>3. IInv /\ [HostNext]_bvars => TruthfulStep BY StepIInv
<1>4. QED BY <1>1, <1>2, <1>3, PTL DEF HostSpec, TruthfulReplies, TruthfulStep

=============================================================================
