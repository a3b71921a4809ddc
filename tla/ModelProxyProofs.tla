-------------------------- MODULE ModelProxyProofs --------------------------
(* The safety of the model proxy, proved for any number of requests, slots    *)
(* and capabilities.                                                          *)
EXTENDS ModelProxy, FiniteSetTheorems, TLAPS

Holders == {r \in Request : stage[r] \in Holding}

(* Every permit is free or held by one request.                               *)
SlotsAddUp == slots \in Nat /\ slots + Cardinality(Holders) = MaxSlots

(* Only what was leased at the start has a proxy session.                     *)
LeasesStay ==
    /\ lease \in [Cap -> {"none", "live", "over"}]
    /\ \A c \in Cap : lease[c] = "none" <=> c \notin Leased

(* The one late event has used up the look before it, and no look is good     *)
(* any more.                                                                  *)
LateOnce ==
    \A r \in Request : late[r] = 0 \/ (late[r] = 1 /\ Withdrawn(r) /\ ~ armed[r])

Functions ==
    /\ stage \in [Request -> Stages]
    /\ armed \in [Request -> BOOLEAN]
    /\ late \in [Request -> 0..2]

IInv == Functions /\ SlotsAddUp /\ LeasesStay /\ LateOnce

-----------------------------------------------------------------------------
(* What any step does, in four parts.                                         *)

(* Access is never given back.                                                *)
Fades ==
    /\ stopped => stopped'
    /\ marker => marker'
    /\ granted' \subseteq granted
    /\ fresh' => fresh
    /\ lease' \in [Cap -> {"none", "live", "over"}]
    /\ \A c \in Cap : /\ lease'[c] = "live" => lease[c] = "live"
                      /\ lease'[c] = "none" <=> lease[c] = "none"

(* A request moves on, with its slot.                                         *)
MovesOn(r, s) ==
    /\ s \in Stages
    /\ stage' = [stage EXCEPT ![r] = s]
    /\ slots' = IF stage[r] \in Holding
                THEN IF s \in Holding THEN slots ELSE slots + 1
                ELSE IF s \in Holding THEN slots - 1 ELSE slots
    /\ stage[r] \notin Holding /\ s \in Holding => slots > 0

Stays == UNCHANGED <<slots, stage>>

(* A wait is armed by a look that finds access good, or not at all.           *)
Armed(r) ==
    \/ armed' = armed
    \/ armed' = [armed EXCEPT ![r] = FALSE]
    \/ armed' = [armed EXCEPT ![r] = TRUE] /\ ~ Withdrawn(r)

(* A late event needs an armed wait, and ends it.                             *)
Hands(r) ==
    \/ late' = late
    \/ /\ Withdrawn(r) /\ armed[r] /\ armed' = [armed EXCEPT ![r] = FALSE]
       /\ late' = [late EXCEPT ![r] = IF late[r] < 2 THEN late[r] + 1 ELSE late[r]]

Requests(r) == ((\E s \in Stages : MovesOn(r, s)) \/ Stays) /\ Armed(r) /\ Hands(r)

-----------------------------------------------------------------------------
(* How those parts keep the invariant.                                        *)

LEMMA WithdrawnStays ==
    ASSUME NEW r \in Request, Fades, Withdrawn(r) PROVE Withdrawn(r)'
<1>1. CapOf[r] \in Cap BY ModelProxyAssumption
<1>2. CASE stopped BY <1>2 DEF Fades, Withdrawn
<1>3. CASE marker BY <1>3 DEF Fades, Withdrawn
<1>4. CASE CapOf[r] \notin granted BY <1>4 DEF Fades, Withdrawn
<1>5. CASE CapOf[r] \in Leased /\ lease[CapOf[r]] # "live"
  BY <1>1, <1>5 DEF Fades, Withdrawn
<1>6. CASE CapOf[r] \notin Leased /\ ~ fresh BY <1>6 DEF Fades, Withdrawn
<1>7. QED BY <1>2, <1>3, <1>4, <1>5, <1>6 DEF Withdrawn

(* A look that succeeds is a look at access that lasts.                       *)
LEMMA AliveIsNotWithdrawn ==
    ASSUME NEW r \in Request, LeasesStay, Alive(r) PROVE ~ Withdrawn(r)
<1>1. CapOf[r] \in Cap BY ModelProxyAssumption
<1>2. QED BY <1>1 DEF Alive, Allowed, Withdrawn, LeasesStay

LEMMA LeasesStayStep == LeasesStay /\ Fades => LeasesStay'
BY DEF LeasesStay, Fades

LEMMA HoldersFinite ==
    /\ IsFiniteSet(Holders) /\ Cardinality(Holders) \in Nat
<1>1. Holders \subseteq Request /\ IsFiniteSet(Request)
  BY ModelProxyAssumption DEF Holders
<1>2. QED BY <1>1, FS_Subset, FS_CardinalityType

LEMMA SlotsStep ==
    ASSUME Functions, SlotsAddUp, NEW r \in Request, NEW s \in Stages, MovesOn(r, s)
    PROVE  SlotsAddUp'
<1>1. stage' \in [Request -> Stages] /\ \A q \in Request : stage'[q] = IF q = r THEN s ELSE stage[q]
  BY DEF MovesOn, Functions
<1>2. CASE stage[r] \in Holding <=> s \in Holding
  <2>1. Holders' = Holders BY <1>1, <1>2 DEF Holders
  <2>2. slots' = slots BY <1>2 DEF MovesOn
  <2>3. QED BY <2>1, <2>2 DEF SlotsAddUp
<1>3. CASE stage[r] \in Holding /\ s \notin Holding
  <2>1. Holders' = Holders \ {r} /\ r \in Holders BY <1>1, <1>3 DEF Holders
  <2>2. Cardinality(Holders') = Cardinality(Holders) - 1
    BY <2>1, HoldersFinite, FS_RemoveElement
  <2>3. slots' = slots + 1 BY <1>3 DEF MovesOn
  <2>4. QED BY <2>2, <2>3, HoldersFinite DEF SlotsAddUp
<1>4. CASE stage[r] \notin Holding /\ s \in Holding
  <2>1. Holders' = Holders \cup {r} /\ r \notin Holders BY <1>1, <1>4 DEF Holders
  <2>2. Cardinality(Holders') = Cardinality(Holders) + 1
    BY <2>1, HoldersFinite, FS_AddElement
  <2>3. slots' = slots - 1 /\ slots > 0 BY <1>4 DEF MovesOn
  <2>4. QED BY <2>2, <2>3, HoldersFinite DEF SlotsAddUp
<1>5. QED BY <1>2, <1>3, <1>4

LEMMA LateStep ==
    ASSUME Functions, LateOnce, Fades, NEW r \in Request, Armed(r), Hands(r)
    PROVE  LateOnce'
<1> SUFFICES ASSUME NEW q \in Request
             PROVE  late'[q] = 0 \/ (late'[q] = 1 /\ Withdrawn(q)' /\ ~ armed'[q])
  BY DEF LateOnce
<1>1. CASE late' = late
  <2>1. CASE late[q] = 0 BY <1>1, <2>1
  <2>2. CASE late[q] # 0
    <3>1. late[q] = 1 /\ Withdrawn(q) /\ ~ armed[q] BY <2>2 DEF LateOnce
    <3>2. Withdrawn(q)' BY <3>1, WithdrawnStays
    <3>3. ~ armed'[q] BY <3>1 DEF Armed, Functions
    <3>4. QED BY <1>1, <3>1, <3>2, <3>3
  <2>3. QED BY <2>1, <2>2
<1>2. CASE late' # late
  <2>1. /\ Withdrawn(r) /\ armed[r] /\ armed' = [armed EXCEPT ![r] = FALSE]
        /\ late' = [late EXCEPT ![r] = IF late[r] < 2 THEN late[r] + 1 ELSE late[r]]
    BY <1>2 DEF Hands
  <2>2. CASE q = r
    <3>1. late[r] = 0 BY <2>1 DEF LateOnce
    <3>2. late'[r] = 1 /\ ~ armed'[r] BY <2>1, <3>1 DEF Functions
    <3>3. Withdrawn(r)' BY <2>1, WithdrawnStays
    <3>4. QED BY <2>2, <3>2, <3>3
  <2>3. CASE q # r
    <3>1. late'[q] = late[q] /\ armed'[q] = armed[q] BY <2>1, <2>3 DEF Functions
    <3>2. Withdrawn(q) => Withdrawn(q)' BY WithdrawnStays
    <3>3. QED BY <3>1, <3>2 DEF LateOnce
  <2>4. QED BY <2>2, <2>3
<1>3. QED BY <1>1, <1>2

LEMMA FunctionsStep ==
    ASSUME Functions, NEW r \in Request, Requests(r) PROVE Functions'
<1>1. stage' \in [Request -> Stages]
  BY DEF Requests, MovesOn, Stays, Functions
<1>2. armed' \in [Request -> BOOLEAN]
  BY DEF Requests, Armed, Functions
<1>3. late' \in [Request -> 0..2]
  BY DEF Requests, Hands, Functions
<1>4. QED BY <1>1, <1>2, <1>3 DEF Functions

LEMMA RequestStep ==
    ASSUME IInv, Fades, NEW r \in Request, Requests(r) PROVE IInv'
<1>1. Functions' BY FunctionsStep DEF IInv
<1>2. SlotsAddUp'
  <2>1. CASE Stays BY <2>1 DEF IInv, SlotsAddUp, Stays, Holders
  <2>2. CASE \E s \in Stages : MovesOn(r, s) BY <2>2, SlotsStep DEF IInv
  <2>3. QED BY <2>1, <2>2 DEF Requests
<1>3. LeasesStay' BY LeasesStayStep DEF IInv
<1>4. LateOnce' BY LateStep DEF IInv, Requests
<1>5. QED BY <1>1, <1>2, <1>3, <1>4 DEF IInv

-----------------------------------------------------------------------------
(* The actions.                                                               *)

LEMMA NothingFades == IInv /\ UNCHANGED access => Fades
BY DEF IInv, LeasesStay, Fades, access

LEMMA LockFades == ASSUME IInv, Lock, UNCHANGED <<marker, granted>> PROVE Fades
BY DEF IInv, LeasesStay, Lock, Fades

LEMMA SeeMarkerFades == IInv /\ SeeMarker => Fades
<1> SUFFICES ASSUME IInv, SeeMarker PROVE Fades
  OBVIOUS
<1>1. CASE marker BY <1>1, LockFades DEF SeeMarker
<1>2. CASE ~ marker BY <1>2, NothingFades DEF SeeMarker, access
<1>3. QED BY <1>1, <1>2

(* A request that ends gives its slot back.                                   *)
LEMMA EndsStep ==
    ASSUME NEW r \in Request, NEW s \in {"done", "failing"},
           stage[r] \in Holding, Ends(r, s), UNCHANGED late
    PROVE  Requests(r)
<1>1. s \in Stages /\ s \notin Holding BY DEF Stages, Holding, Upstream, Streaming
<1>2. MovesOn(r, s) BY <1>1 DEF MovesOn, Ends, Goes, AtEnd
<1>3. Armed(r) /\ Hands(r) BY DEF Armed, Hands, Ends, Arm
<1>4. QED BY <1>1, <1>2, <1>3 DEF Requests

LEMMA RefuseStep ==
    ASSUME NEW r \in Request, stage[r] \in Holding, Refuse(r) PROVE Requests(r)
BY EndsStep DEF Refuse, client

LEMMA FailStep ==
    ASSUME NEW r \in Request, stage[r] \in Holding, Fail(r) PROVE Requests(r)
<1>1. CASE stage[r] \in Streaming BY <1>1, EndsStep DEF Fail
<1>2. CASE stage[r] \notin Streaming BY <1>2, EndsStep DEF Fail
<1>3. QED BY <1>1, <1>2

(* A request that goes on keeps its slot.                                     *)
LEMMA GoesStep ==
    ASSUME NEW r \in Request, NEW s \in Holding, stage[r] \in Holding, Goes(r, s),
           UNCHANGED <<slots, late>>, Armed(r)
    PROVE  Requests(r)
<1>1. MovesOn(r, s) BY DEF MovesOn, Goes, Stages
<1>2. s \in Stages /\ Hands(r) BY DEF Stages, Hands
<1>3. QED BY <1>1, <1>2 DEF Requests

LEMMA BeforeSending ==
    ASSUME IInv, NEW r \in Request,
           \/ Enter(r) \/ BadBody(r) \/ Accept(r) \/ NotAccepted(r) \/ ChargeRate(r)
           \/ Turned(r) \/ Approved(r) \/ Denied(r) \/ LockedWhileAsking(r)
           \/ NobodyAnswers(r) \/ Clear(r) \/ NotCleared(r)
    PROVE  Fades /\ Requests(r)
<1> USE DEF Holding, Upstream, Streaming
<1>1. CASE Enter(r)
  <2>1. Fades BY <1>1, NothingFades DEF Enter
  <2>2. Armed(r) /\ Hands(r) BY <1>1 DEF Enter, Armed, Hands
  <2>3. MovesOn(r, "upload") \/ MovesOn(r, "done")
    BY <1>1 DEF Enter, Goes, Free, MovesOn, Stages, IInv, SlotsAddUp
  <2>4. QED BY <2>1, <2>2, <2>3 DEF Requests, MovesOn
<1>2. CASE BadBody(r) \/ Turned(r) \/ Denied(r) \/ NobodyAnswers(r)
  <2>1. stage[r] \in Holding /\ Refuse(r) /\ UNCHANGED access
    BY <1>2 DEF BadBody, Turned, Denied, NobodyAnswers, Asking
  <2>2. QED BY <2>1, NothingFades, RefuseStep
<1>3. CASE NotAccepted(r) \/ NotCleared(r)
  <2>1. stage[r] \in Holding /\ Refuse(r) /\ SeeMarker
    BY <1>3 DEF NotAccepted, NotCleared
  <2>2. QED BY <2>1, SeeMarkerFades, RefuseStep
<1>4. CASE Accept(r) \/ ChargeRate(r) \/ Clear(r)
  <2>1. PICK s \in {"queued", "asking", "requeued", "cleared"} : stage[r] \in Holding /\ Moves(r, s)
    BY <1>4 DEF Accept, ChargeRate, Clear
  <2>2. Armed(r) BY <2>1 DEF Moves, Armed
  <2>3. QED BY <2>1, <2>2, NothingFades, GoesStep DEF Moves
<1>5. CASE Approved(r)
  <2>1. Armed(r) BY <1>5 DEF Approved, Armed
  <2>2. QED BY <1>5, <2>1, NothingFades, GoesStep DEF Approved, Asking
<1>6. CASE LockedWhileAsking(r)
  <2>1. MovesOn(r, "done") /\ Armed(r) /\ Hands(r)
    BY <1>6 DEF LockedWhileAsking, Asking, MovesOn, Armed, Hands, Goes, AtEnd, Stages
  <2>2. QED BY <1>6, <2>1, NothingFades DEF LockedWhileAsking, Requests, MovesOn
<1>7. QED BY <1>1, <1>2, <1>3, <1>4, <1>5, <1>6

LEMMA FromSendingOn ==
    ASSUME IInv, NEW r \in Request,
           \/ Send(r) \/ NotSent(r) \/ Recheck(r) \/ AccessEnded(r) \/ Tick(r)
           \/ Stopped(r) \/ Break(r) \/ Head(r) \/ Document(r) \/ DocumentTooLate(r)
    PROVE  Fades /\ Requests(r)
<1> USE DEF Holding, Upstream, Streaming, Waits, AnswerOrChunk
<1>1. CASE Send(r)
  <2>1. ~ Withdrawn(r) BY <1>1, AliveIsNotWithdrawn DEF Send, IInv
  <2>2. Armed(r) BY <1>1, <2>1 DEF Send, Arm, Armed
  <2>3. QED BY <1>1, <2>2, NothingFades, GoesStep DEF Send
<1>2. CASE NotSent(r) BY <1>2, SeeMarkerFades, RefuseStep DEF NotSent
<1>3. CASE Recheck(r)
  <2>1. ~ Withdrawn(r) BY <1>3, AliveIsNotWithdrawn DEF Recheck, IInv
  <2>2. Armed(r) /\ Hands(r) /\ Stays BY <1>3, <2>1 DEF Recheck, Arm, Armed, Hands, Stays
  <2>3. QED BY <1>3, <2>2, NothingFades DEF Recheck, Requests
<1>4. CASE AccessEnded(r) \/ DocumentTooLate(r)
  <2>1. stage[r] \in Holding /\ Fail(r) /\ SeeMarker
    BY <1>4 DEF AccessEnded, DocumentTooLate
  <2>2. QED BY <2>1, SeeMarkerFades, FailStep
<1>5. CASE Tick(r)
  <2>1. Armed(r) /\ Hands(r) /\ Stays BY <1>5 DEF Tick, Arm, Armed, Hands, Stays
  <2>2. QED BY <1>5, <2>1, NothingFades DEF Tick, Requests
<1>6. CASE Stopped(r) \/ Break(r)
  <2>1. stage[r] \in Holding /\ Fail(r) /\ UNCHANGED access BY <1>6 DEF Stopped, Break
  <2>2. QED BY <2>1, NothingFades, FailStep
<1>7. CASE Head(r)
  <2>1. Armed(r) BY <1>7 DEF Head, Arm, Armed
  <2>2. PICK s \in {"collect", "read"} : Goes(r, s) BY <1>7 DEF Head
  <2>3. QED BY <1>7, <2>1, <2>2, NothingFades, GoesStep DEF Head, AtHead
<1>8. CASE Document(r)
  <2>1. ~ Withdrawn(r) BY <1>8, AliveIsNotWithdrawn DEF Document, IInv
  <2>2. late' = late BY <1>8, <2>1 DEF Document, Handed, IInv, Functions
  <2>3. QED BY <1>8, <2>2, NothingFades, EndsStep DEF Document
<1>9. QED BY <1>1, <1>2, <1>3, <1>4, <1>5, <1>6, <1>7, <1>8

LEMMA TheStream ==
    ASSUME IInv, NEW r \in Request,
           \/ Chunk(r) \/ Pass(r) \/ Block(r) \/ ReadOn(r) \/ Put(r) \/ Eof(r) \/ Cut(r)
           \/ Tell(r) \/ NoRoom(r)
    PROVE  Fades /\ Requests(r)
<1> USE DEF Holding, Upstream, Streaming
<1>1. CASE Chunk(r)
  <2>1. Armed(r) BY <1>1 DEF Chunk, Arm, Armed
  <2>2. QED BY <1>1, <2>1, NothingFades, GoesStep DEF Chunk
<1>2. CASE Pass(r)
  <2>1. Armed(r) BY <1>2 DEF Pass, Armed
  <2>2. PICK s \in {"inspect", "write"} : Goes(r, s) BY <1>2 DEF Pass
  <2>3. QED BY <1>2, <2>1, <2>2, NothingFades, GoesStep DEF Pass
<1>3. CASE Block(r) \/ Cut(r)
  <2>1. stage[r] \in Holding /\ Fail(r) /\ UNCHANGED access BY <1>3 DEF Block, Cut
  <2>2. QED BY <2>1, NothingFades, FailStep
<1>4. CASE ReadOn(r)
  <2>1. Armed(r) BY <1>4 DEF ReadOn, Moves, Armed
  <2>2. QED BY <1>4, <2>1, NothingFades, GoesStep DEF ReadOn, Moves
<1>5. CASE Put(r)
  <2>1. Fades BY <1>5, NothingFades DEF Put
  <2>2. armed' = [armed EXCEPT ![r] = FALSE] /\ armed[r] BY <1>5 DEF Put, Ends, Arm
  <2>3. Hands(r)
    <3>1. CASE Withdrawn(r) BY <1>5, <2>2, <3>1 DEF Put, Handed, Hands, IInv, Functions
    <3>2. CASE ~ Withdrawn(r) BY <1>5, <3>2 DEF Put, Handed, Hands, IInv, Functions
    <3>3. QED BY <3>1, <3>2
  <2>4. MovesOn(r, "done") \/ MovesOn(r, "inspect")
    BY <1>5 DEF Put, Ends, Goes, AtEnd, MovesOn, Stages
  <2>5. QED BY <2>1, <2>2, <2>3, <2>4 DEF Requests, Armed, MovesOn
<1>6. CASE Eof(r)
  <2>1. CASE buffer[r].held
    <3>1. Armed(r) BY <1>6, <2>1 DEF Eof, Arm, Armed
    <3>2. QED BY <1>6, <2>1, <3>1, NothingFades, GoesStep DEF Eof
  <2>2. CASE ~ buffer[r].held BY <1>6, <2>2, NothingFades, EndsStep DEF Eof
  <2>3. QED BY <2>1, <2>2
<1>7. CASE Tell(r) \/ NoRoom(r)
  <2>1. /\ stage[r] = "failing" /\ Goes(r, "done")
        /\ UNCHANGED <<slots, access, armed, late>>
    BY <1>7 DEF Tell, NoRoom, Moves
  <2>2. MovesOn(r, "done") BY <2>1 DEF MovesOn, Goes, Stages
  <2>3. Armed(r) /\ Hands(r) BY <2>1 DEF Armed, Hands
  <2>4. QED BY <2>1, <2>2, <2>3, NothingFades DEF Requests, MovesOn
<1>8. QED BY <1>1, <1>2, <1>3, <1>4, <1>5, <1>6, <1>7

LEMMA Clients ==
    ASSUME IInv, NEW r \in Request,
           \/ Read(r) \/ Close(r) \/ ClientIsGone(r)
           \/ \E a \in {"yes", "no"} : Decide(r, a)
    PROVE  Fades /\ Requests(r)
<1> USE DEF Holding, Upstream, Streaming
<1>1. CASE Read(r) \/ \E a \in {"yes", "no"} : Decide(r, a)
  <2>1. UNCHANGED <<slots, access, stage, armed, late>> BY <1>1 DEF Read, Decide
  <2>2. QED BY <2>1, NothingFades DEF Requests, Stays, Armed, Hands
<1>2. CASE Close(r)
  <2>1. CASE stage[r] \in Dropped BY <1>2, <2>1, NothingFades, EndsStep DEF Close
  <2>2. CASE stage[r] \notin Dropped
    <3>1. UNCHANGED <<slots, access, stage, armed, late>> BY <1>2, <2>2 DEF Close
    <3>2. QED BY <3>1, NothingFades DEF Requests, Stays, Armed, Hands
  <2>3. QED BY <2>1, <2>2
<1>3. CASE ClientIsGone(r) BY <1>3, NothingFades, RefuseStep DEF ClientIsGone, Waits
<1>4. QED BY <1>1, <1>2, <1>3

(* What ends access lets every request stand where it is.                     *)
LEMMA Outside ==
    ASSUME IInv,
           \/ RequestLock \/ Watch \/ StopSession \/ FreshnessEnds
           \/ \E c \in Cap : Revoke(c) \/ LeaseEnds(c)
    PROVE  Fades /\ UNCHANGED <<slots, stage, armed, late>>
<1>1. UNCHANGED <<slots, stage, armed, late>>
  BY DEF RequestLock, Watch, StopSession, FreshnessEnds, Revoke, LeaseEnds
<1>2. CASE RequestLock BY <1>2 DEF RequestLock, IInv, LeasesStay, Fades
<1>3. CASE Watch \/ StopSession
  <2>1. Lock BY <1>3 DEF Watch, StopSession
  <2>2. QED BY <1>3, <2>1, LockFades DEF Watch, StopSession
<1>4. CASE FreshnessEnds BY <1>4 DEF FreshnessEnds, IInv, LeasesStay, Fades
<1>5. CASE \E c \in Cap : Revoke(c) BY <1>5 DEF Revoke, IInv, LeasesStay, Fades
<1>6. CASE \E c \in Cap : LeaseEnds(c) BY <1>6 DEF LeaseEnds, IInv, LeasesStay, Fades
<1>7. QED BY <1>1, <1>2, <1>3, <1>4, <1>5, <1>6

LEMMA StandStill ==
    ASSUME IInv, Fades, UNCHANGED <<slots, stage, armed, late>> PROVE IInv'
<1>1. Functions' BY DEF IInv, Functions
<1>2. SlotsAddUp' BY DEF IInv, SlotsAddUp, Holders
<1>3. LeasesStay' BY LeasesStayStep DEF IInv
<1>4. LateOnce'
  <2>1. \A r \in Request : Withdrawn(r) => Withdrawn(r)' BY WithdrawnStays
  <2>2. QED BY <2>1 DEF IInv, LateOnce
<1>5. QED BY <1>1, <1>2, <1>3, <1>4 DEF IInv

-----------------------------------------------------------------------------
LEMMA InitIInv == Init => IInv
<1> SUFFICES ASSUME Init PROVE IInv
  OBVIOUS
<1>1. Functions BY DEF Init, Functions, Stages
<1>2. SlotsAddUp
  <2>1. Holders = {} BY DEF Init, Holders, Holding, Upstream, Streaming
  <2>2. QED BY <2>1, FS_EmptySet, ModelProxyAssumption DEF Init, SlotsAddUp
<1>3. LeasesStay BY DEF Init, LeasesStay
<1>4. LateOnce BY DEF Init, LateOnce
<1>5. QED BY <1>1, <1>2, <1>3, <1>4 DEF IInv

LEMMA StepIInv == IInv /\ [Next]_vars => IInv'
<1> SUFFICES ASSUME IInv, [Next]_vars PROVE IInv'
  OBVIOUS
<1>1. CASE \E r \in Request :
             \/ Enter(r) \/ Step(r) \/ Service(r) \/ Read(r) \/ Close(r)
             \/ \E a \in {"yes", "no"} : Decide(r, a)
  <2>1. PICK r \in Request :
             \/ Enter(r) \/ Step(r) \/ Service(r) \/ Read(r) \/ Close(r)
             \/ \E a \in {"yes", "no"} : Decide(r, a)
    BY <1>1
  <2>2. Fades /\ Requests(r)
    BY <2>1, BeforeSending, FromSendingOn, TheStream, Clients DEF Step, Service
  <2>3. QED BY <2>2, RequestStep
<1>2. CASE \/ RequestLock \/ Watch \/ StopSession \/ FreshnessEnds
           \/ \E c \in Cap : Revoke(c) \/ LeaseEnds(c)
  BY <1>2, Outside, StandStill
<1>3. CASE UNCHANGED vars
  <2>1. UNCHANGED access /\ UNCHANGED <<slots, stage, armed, late>> BY <1>3 DEF vars
  <2>2. QED BY <2>1, NothingFades, StandStill
<1>4. QED BY <1>1, <1>2, <1>3 DEF Next

LEMMA Inductive == Spec => []IInv
BY InitIInv, StepIInv, PTL DEF Spec

(* However many requests are under way, whatever the service sends and        *)
(* whenever its clients read: once the access of a client has ended, it is    *)
(* handed one event at most (pump of ai_proxy.rs).                            *)
THEOREM LittleIsHandedAfterTheEnd == Spec => []LittleAfterTheEnd
<1>1. IInv => LittleAfterTheEnd BY DEF IInv, LateOnce, LittleAfterTheEnd
<1>2. QED BY Inductive, <1>1, PTL

(* No more connections to the service are open than there are slots, those    *)
(* of streams included whose handler has returned (handle of ai_proxy.rs).    *)
THEOREM SlotsAreEnough == Spec => []NoMoreThanSlots
<1>1. IInv => NoMoreThanSlots
  <2> SUFFICES ASSUME IInv PROVE NoMoreThanSlots
    OBVIOUS
  <2>1. Connected \subseteq Holders BY DEF Connected, Holders, Holding
  <2>2. Cardinality(Connected) <= Cardinality(Holders)
    BY <2>1, HoldersFinite, FS_Subset
  <2>3. Cardinality(Connected) \in Nat
    BY <2>1, HoldersFinite, FS_Subset, FS_CardinalityType
  <2>4. QED BY <2>2, <2>3, HoldersFinite, ModelProxyAssumption DEF IInv, SlotsAddUp, NoMoreThanSlots
<1>2. QED BY Inductive, <1>1, PTL

=============================================================================
