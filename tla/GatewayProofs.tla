--------------------------- MODULE GatewayProofs ---------------------------
(* Theorems about Gateway for every number of attempts, grants, request ids,  *)
(* calls, budgets and restarts.                                               *)
EXTENDS Gateway, FiniteSetTheorems, TLAPS

(* The stages in which an attempt holds the execution lock.                   *)
Locked == {"holding", "resumed", "ready", "charged", "authorized", "cleared", "sent"}

(* The execution lock is exclusive.                                           *)
OneHolder == \A a \in Attempts : stage[a] \in Locked => holder = a

(* A process that is gone has no calls.                                       *)
DownIsQuiet == broker = "down" => InFlight = {}

(* What a call is, is known from its arrival on.                              *)
CallKnown == \A a \in Attempts : stage[a] # "idle" => call[a] \in Shapes

(* A request leaves late in the life of its attempt.                          *)
SentIsLate == \A a \in sent : stage[a] \in {"sent", "closing", "done", "lost"}

(* A write on its way to be sent is not in the journal, since the verdict     *)
(* that let it pass was read under the lock it still holds.                   *)
OnItsWayIsNew ==
    \A a \in Attempts :
      stage[a] \in {"ready", "charged", "authorized"} /\ IsWrite(a) => journal[Key(a)] = Absent

(* Once it is journaled no write with the same key has been sent before it.   *)
ClearedIsNew ==
    \A a \in Attempts :
      stage[a] = "cleared" /\ IsWrite(a) =>
        \A b \in sent : IsWrite(b) => Key(b) # Key(a)

(* The record of a cleared write is in memory, that of a sent one is on disk  *)
(* too, and a live process remembers it.                                      *)
ClearedIsJournaled ==
    \A a \in Attempts : stage[a] = "cleared" /\ IsWrite(a) =>
      journal[Key(a)] # Absent /\ disk[Key(a)] # Absent
SentIsJournaled ==
    \A a \in sent : IsWrite(a) =>
      disk[Key(a)] # Absent /\ (broker # "down" => journal[Key(a)] # Absent)

TypeInv == TypeOK /\ CallKnown
LockInv == TypeInv /\ OneHolder /\ DownIsQuiet
WriteInv ==
    /\ SentIsLate
    /\ OnItsWayIsNew
    /\ ClearedIsNew
    /\ ClearedIsJournaled
    /\ SentIsJournaled
    /\ AtMostOnce
-----------------------------------------------------------------------------
(* A call that has arrived names a grant; a write names a record too.         *)
LEMMA KnownCall ==
    ASSUME CallKnown, NEW a \in Attempts, stage[a] # "idle"
    PROVE  Cap(a) \in Caps /\ (IsWrite(a) => Key(a) \in Keys)
  BY ShapesAssumption DEF CallKnown, Cap, IsWrite, Key, Keys, Shape

(* What the checks of prepare, dispatch and the journal answer with.          *)
LEMMA VerdictsAreResults ==
    ASSUME TypeOK, NEW a \in Attempts, call[a] \in Shapes
    PROVE  /\ EarlyRefusal(a) \in Results
           /\ Denial(a) \in Results
           /\ JournalVerdict(a) \in Results
           /\ LateVerdict(a) \in Results
           /\ ResumeVerdict(a) \in Results
  BY DEF EarlyRefusal, Denial, JournalVerdict, LateVerdict, ResumeVerdict, Results, Definite

(* What a step writes to the journal is a journal.                            *)
LEMMA JournalsAreRecords ==
    ASSUME TypeOK, NEW a \in Attempts, call[a] \in Shapes
    PROVE  /\ Started(a) \in [Keys -> Record]
           /\ \A outcome \in Outcomes : Finished(a, outcome) \in [Keys -> Record]
  BY ShapesAssumption DEF TypeOK, Started, Finished, Record, Outcomes, Shape

LEMMA TypeInit == Init => TypeInv
  <1> SUFFICES ASSUME Init PROVE TypeInv
    OBVIOUS
  <1>1. [k \in Keys |-> Absent] \in [Keys -> Record]
    BY DEF Record, Absent, Outcomes
  <1>2. [c \in Caps |-> 0] \in [Caps -> Nat]
    OBVIOUS
  <1>3. restarts \in 0..MaxRestarts
    BY BoundsAssumption DEF Init
  <1> QED
    BY <1>1, <1>2, <1>3 DEF Init, TypeInv, TypeOK, CallKnown, Stages, Results

LEMMA TypeStep == TypeInv /\ [Next]_vars => TypeInv'
  <1> SUFFICES ASSUME TypeInv, [Next]_vars PROVE TypeInv'
    OBVIOUS
  <1> USE DEF TypeInv, TypeOK, CallKnown, lifecycle, calls, memory, approvals, files, history,
              Stages, Settle, GoTo
  <1>1. ASSUME NEW a \in Attempts, TurnComes(a) \/ TurnTimesOut(a) PROVE TypeInv'
    BY <1>1 DEF TurnComes, TurnTimesOut, Results, Definite
  <1>2. ASSUME NEW a \in Attempts, PrepareRefused(a) PROVE TypeInv'
    BY <1>2, VerdictsAreResults DEF PrepareRefused, ObserveLock
  <1>3. ASSUME NEW a \in Attempts, PrepareAnswered(a) PROVE TypeInv'
    <2>1. rate' \in [Caps -> Nat]
      BY <1>3, KnownCall DEF PrepareAnswered, ChargeRate
    <2> QED
      BY <1>3, <2>1, VerdictsAreResults DEF PrepareAnswered, ObserveLock
  <1>4. ASSUME NEW a \in Attempts, PrepareReady(a) PROVE TypeInv'
    <2>1. rate' \in [Caps -> Nat]
      BY <1>4, KnownCall DEF PrepareReady, ChargeRate
    <2> QED
      BY <1>4, <2>1 DEF PrepareReady
  <1>5. ASSUME NEW a \in Attempts, PrepareGated(a) PROVE TypeInv'
    <2>1. rate' \in [Caps -> Nat]
      BY <1>5, KnownCall DEF PrepareGated, ChargeRate
    <2> QED
      BY <1>5, <2>1 DEF PrepareGated, Ask
  <1>6. ASSUME NEW a \in Attempts, Approved(a) \/ Denied(a) \/ ApprovalTimesOut(a) PROVE TypeInv'
    BY <1>6 DEF Approved, Denied, ApprovalTimesOut, Results, Definite
  <1>7. ASSUME NEW a \in Attempts, LockedWhileAsking(a) PROVE TypeInv'
    BY <1>7 DEF LockedWhileAsking, DenyEverything, Results, Definite
  <1>8. ASSUME NEW a \in Attempts, Resume(a) PROVE TypeInv'
    <2>1. vaultOpen' \in BOOLEAN
      BY <1>8 DEF Resume, ObserveLock
    <2> QED
      BY <1>8, <2>1, VerdictsAreResults DEF Resume
  <1>9. ASSUME NEW a \in Attempts, TooLate(a) \/ OverBudget(a) PROVE TypeInv'
    BY <1>9 DEF TooLate, OverBudget, Results, Definite
  <1>10. ASSUME NEW a \in Attempts, NEW save \in Saves, ChargeCalls(a, save) PROVE TypeInv'
    BY <1>10 DEF ChargeCalls, Results, Definite
  <1>11. ASSUME NEW a \in Attempts, NEW save \in Saves, Authorize(a, save) PROVE TypeInv'
    BY <1>11 DEF Authorize, Results, Definite
  <1>12. ASSUME NEW a \in Attempts, ClearDenied(a) PROVE TypeInv'
    BY <1>12, VerdictsAreResults DEF ClearDenied, ObserveLock
  <1>13. ASSUME NEW a \in Attempts, ClearRead(a) PROVE TypeInv'
    BY <1>13 DEF ClearRead
  <1>14. ASSUME NEW a \in Attempts, NEW save \in Saves, ClearWrite(a, save) PROVE TypeInv'
    BY <1>14, JournalsAreRecords DEF ClearWrite, Results, Definite
  <1>15. ASSUME NEW a \in Attempts, Send(a) PROVE TypeInv'
    BY <1>15 DEF Send
  <1>16. ASSUME NEW a \in Attempts, NEW save \in Saves, NEW outcome \in Outcomes,
                stage[a] \in {"cleared", "sent"}, Conclude(a, outcome, save)
         PROVE  TypeInv'
    BY <1>16, VerdictsAreResults, JournalsAreRecords
       DEF Conclude, ReplyFor, ObserveLock, Results, Definite
  <1>17. ASSUME NEW a \in Attempts, NEW save \in Saves, Answered(a, save) \/ Unsendable(a, save)
         PROVE  TypeInv'
    BY <1>16, <1>17 DEF Answered, Unsendable, Outcomes
  <1>18. ASSUME NEW a \in Attempts, NEW save \in Saves, Close(a, save) PROVE TypeInv'
    BY <1>18 DEF Close, Results, Definite
  <1>19. ASSUME NEW a \in Attempts, Disconnect(a) PROVE TypeInv'
    BY <1>19 DEF Disconnect
  <1>20. ASSUME NEW a \in Attempts, NEW s \in Shapes, Arrive(a, s) PROVE TypeInv'
    BY <1>20 DEF Arrive, Results, Definite
  <1>21. ASSUME NEW q \in Attempts, Forget(q) \/ Decide(q, "approved") \/ Decide(q, "denied")
         PROVE  TypeInv'
    BY <1>21 DEF Forget, Decide, Unanswered
  <1>22. ASSUME NEW c \in Caps, Withdraw(c) \/ WindowEnds(c) PROVE TypeInv'
    BY <1>22 DEF Withdraw, WindowEnds, StillIn
  <1>23. CASE RequestLock \/ Drain \/ StopSession
    BY <1>23 DEF RequestLock, StillIn, Drain, StopSession, DenyEverything
  <1>24. CASE Drained \/ Crash
    <2>1. /\ [k \in Keys |-> Absent] \in [Keys -> Record]
          /\ [c \in Caps |-> 0] \in [Caps -> Nat]
      BY DEF Record, Absent, Outcomes
    <2> QED
      BY <1>24, <2>1 DEF Drained, Crash, MemoryIsGone, Results, InFlight
  <1>25. CASE Restart
    <2>1. usage' \in [Caps -> Nat]
      BY <1>25 DEF Restart, KeptUsage
    <2>2. restarts' \in 0..MaxRestarts
      BY <1>25, BoundsAssumption DEF Restart
    <2> QED
      BY <1>25, <2>1, <2>2 DEF Restart
  <1>26. CASE UNCHANGED vars
    BY <1>26 DEF vars
  <1> QED
    BY <1>1, <1>2, <1>3, <1>4, <1>5, <1>6, <1>7, <1>8, <1>9, <1>10, <1>11, <1>12, <1>13, <1>14,
       <1>15, <1>17, <1>18, <1>19, <1>20, <1>21, <1>22, <1>23, <1>24, <1>25, <1>26 DEF Next, Step

(* Every variable keeps its type, and what a call is stays known while it     *)
(* runs.                                                                      *)
THEOREM TypeCorrect == Spec => []TypeOK
  <1>1. TypeInv => TypeOK
    BY DEF TypeInv
  <1> QED
    BY <1>1, TypeInit, TypeStep, PTL DEF Spec
-----------------------------------------------------------------------------
LEMMA LockInit == Init => LockInv
  <1>1. Init => TypeInv
    BY TypeInit
  <1>2. Init => OneHolder /\ DownIsQuiet
    BY DEF Init, OneHolder, DownIsQuiet, Locked
  <1> QED
    BY <1>1, <1>2 DEF LockInv

(* An attempt takes the lock only when nobody has it, and leaves the locked   *)
(* stages when it lets go of it.                                              *)
LEMMA LockStep == LockInv /\ [Next]_vars => LockInv'
  <1> SUFFICES ASSUME LockInv, [Next]_vars PROVE OneHolder' /\ DownIsQuiet'
    BY TypeStep DEF LockInv
  <1> USE ShapesAssumption
      DEF LockInv, TypeInv, TypeOK, OneHolder, DownIsQuiet, InFlight, Locked, Stages,
          lifecycle, calls, memory, approvals, files, history, Settle, GoTo
  <1>1. ASSUME NEW a \in Attempts, TurnComes(a) \/ TurnTimesOut(a) PROVE OneHolder' /\ DownIsQuiet'
    BY <1>1 DEF TurnComes, TurnTimesOut
  <1>2. ASSUME NEW a \in Attempts,
               PrepareRefused(a) \/ PrepareAnswered(a) \/ PrepareReady(a) \/ PrepareGated(a)
        PROVE  OneHolder' /\ DownIsQuiet'
    BY <1>2 DEF PrepareRefused, PrepareAnswered, PrepareReady, PrepareGated
  <1>3. ASSUME NEW a \in Attempts,
               Approved(a) \/ Denied(a) \/ LockedWhileAsking(a) \/ ApprovalTimesOut(a)
        PROVE  OneHolder' /\ DownIsQuiet'
    BY <1>3 DEF Approved, Denied, LockedWhileAsking, ApprovalTimesOut
  <1>4. ASSUME NEW a \in Attempts,
               Resume(a) \/ TooLate(a) \/ OverBudget(a) \/ ClearDenied(a) \/ ClearRead(a) \/ Send(a)
        PROVE  OneHolder' /\ DownIsQuiet'
    BY <1>4 DEF Resume, TooLate, OverBudget, ClearDenied, ClearRead, Send
  <1>5. ASSUME NEW a \in Attempts, NEW save \in Saves,
               ChargeCalls(a, save) \/ Authorize(a, save) \/ ClearWrite(a, save)
        PROVE  OneHolder' /\ DownIsQuiet'
    BY <1>5 DEF ChargeCalls, Authorize, ClearWrite
  <1>6. ASSUME NEW a \in Attempts, NEW save \in Saves,
               Answered(a, save) \/ Unsendable(a, save) \/ Close(a, save)
        PROVE  OneHolder' /\ DownIsQuiet'
    BY <1>6 DEF Answered, Unsendable, Conclude, Close
  <1>7. ASSUME NEW a \in Attempts, Disconnect(a) PROVE OneHolder' /\ DownIsQuiet'
    BY <1>7 DEF Disconnect
  <1>8. ASSUME NEW a \in Attempts, NEW s \in Shapes, Arrive(a, s) PROVE OneHolder' /\ DownIsQuiet'
    BY <1>8 DEF Arrive
  <1>9. ASSUME NEW q \in Attempts, Forget(q) \/ Decide(q, "approved") \/ Decide(q, "denied")
        PROVE  OneHolder' /\ DownIsQuiet'
    BY <1>9 DEF Forget, Decide
  <1>10. ASSUME NEW c \in Caps, Withdraw(c) \/ WindowEnds(c) PROVE OneHolder' /\ DownIsQuiet'
    BY <1>10 DEF Withdraw, WindowEnds
  <1>11. CASE RequestLock \/ Drain \/ StopSession
    BY <1>11 DEF RequestLock, Drain, StopSession
  <1>12. CASE Drained \/ Crash \/ Restart
    BY <1>12 DEF Drained, Crash, MemoryIsGone, Restart
  <1>13. CASE UNCHANGED vars
    BY <1>13 DEF vars
  <1> QED
    BY <1>1, <1>2, <1>3, <1>4, <1>5, <1>6, <1>7, <1>8, <1>9, <1>10, <1>11, <1>12, <1>13
       DEF Next, Step
-----------------------------------------------------------------------------
(* What the journal lets pass is not in it.                                   *)
LEMMA NewWritesPass ==
    ASSUME NEW a \in Attempts, IsWrite(a), JournalVerdict(a) = "none"
    PROVE  journal[Key(a)] = Absent
  BY DEF JournalVerdict

(* A record that is written is there.                                         *)
LEMMA RecordsAreThere ==
    ASSUME TypeOK, NEW a \in Attempts
    PROVE  /\ Key(a) \in Keys => Started(a)[Key(a)] # Absent
           /\ \A k \in Keys : journal[k] # Absent => Started(a)[k] # Absent
           /\ \A outcome \in Outcomes \ {"absent"}, k \in Keys :
                journal[k] # Absent => Finished(a, outcome)[k] # Absent
  BY DEF TypeOK, Started, Finished, Absent, Outcomes, Record

(* A step that writes no record, sends nothing and starts no broker keeps     *)
(* WriteInv, if it lets only new writes on their way, clears none and brings  *)
(* back no attempt that has sent.                                             *)
LEMMA QuietStep ==
    ASSUME LockInv, WriteInv, UNCHANGED <<call, journal, disk, sent>>,
           broker = "down" => broker' = "down",
           \A a \in Attempts : stage'[a] = "cleared" /\ IsWrite(a) => stage[a] = "cleared",
           \A a \in Attempts : stage'[a] \in {"ready", "charged", "authorized"} /\ IsWrite(a)
             => journal[Key(a)] = Absent,
           \A a \in sent : stage'[a] \in {"sent", "closing", "done", "lost"}
    PROVE  WriteInv'
  <1> USE DEF LockInv, TypeInv, TypeOK, WriteInv, IsWrite, Key
  <1>1. SentIsLate'
    BY DEF SentIsLate
  <1>2. OnItsWayIsNew'
    BY DEF OnItsWayIsNew
  <1>3. ClearedIsNew' /\ ClearedIsJournaled'
    BY DEF ClearedIsNew, ClearedIsJournaled
  <1>4. SentIsJournaled'
    BY DEF SentIsJournaled
  <1>5. AtMostOnce'
    BY DEF AtMostOnce
  <1> QED
    BY <1>1, <1>2, <1>3, <1>4, <1>5

LEMMA WriteInit == Init => WriteInv
  BY DEF Init, WriteInv, SentIsLate, OnItsWayIsNew, ClearedIsNew, ClearedIsJournaled,
         SentIsJournaled, AtMostOnce

LEMMA WriteStep == LockInv /\ WriteInv /\ [Next]_vars => WriteInv'
  <1> SUFFICES ASSUME LockInv, WriteInv, [Next]_vars PROVE WriteInv'
    OBVIOUS
  <1> TypeOK /\ CallKnown /\ OneHolder /\ DownIsQuiet
    BY DEF LockInv, TypeInv
  <1> SentIsLate /\ OnItsWayIsNew /\ ClearedIsNew /\ ClearedIsJournaled /\ SentIsJournaled
      /\ AtMostOnce
    BY DEF WriteInv
  <1>a. stage \in [Attempts -> Stages] /\ sent \subseteq Attempts
    BY DEF TypeOK
  <1>b. ASSUME NEW a \in Attempts,
               UNCHANGED <<call, journal, disk, sent, broker>>,
               NEW s \in {"queued", "holding", "asking", "requeued", "resumed", "closing", "done",
                          "lost"},
               stage' = [stage EXCEPT ![a] = s],
               stage[a] \in {"sent", "closing", "done", "lost"} => s \in {"closing", "done", "lost"}
        PROVE  WriteInv'
    BY <1>a, <1>b, QuietStep DEF SentIsLate, OnItsWayIsNew
  <1> USE DEF lifecycle, calls, memory, approvals, files, history, Settle, GoTo
  <1>k. \A a \in Attempts : stage[a] # "idle" /\ IsWrite(a) => Key(a) \in Keys
    BY KnownCall
  <1>r. \A a \in Attempts :
          /\ Key(a) \in Keys => Started(a)[Key(a)] # Absent
          /\ \A k \in Keys : journal[k] # Absent => Started(a)[k] # Absent
    BY RecordsAreThere
  <1>s. \A a \in sent : IsWrite(a) => Key(a) \in Keys
    BY <1>a, <1>k DEF SentIsLate
  <1>u. \A a \in Attempts : stage[a] \in Locked => broker # "down"
    BY DEF DownIsQuiet, InFlight, Locked
  <1>1. ASSUME NEW a \in Attempts, TurnComes(a) \/ TurnTimesOut(a) PROVE WriteInv'
    BY <1>b, <1>1 DEF TurnComes, TurnTimesOut
  <1>2. ASSUME NEW a \in Attempts, PrepareRefused(a) \/ PrepareAnswered(a) \/ PrepareGated(a)
        PROVE  WriteInv'
    BY <1>b, <1>2 DEF PrepareRefused, PrepareAnswered, PrepareGated
  <1>3. ASSUME NEW a \in Attempts, PrepareReady(a) PROVE WriteInv'
    <2>1. IsWrite(a) => journal[Key(a)] = Absent
      BY <1>3, NewWritesPass DEF PrepareReady, LateVerdict
    <2> QED
      BY <1>a, <1>3, <2>1, QuietStep DEF PrepareReady, SentIsLate, OnItsWayIsNew
  <1>4. ASSUME NEW a \in Attempts,
               \/ Approved(a) \/ Denied(a) \/ LockedWhileAsking(a) \/ ApprovalTimesOut(a)
               \/ Disconnect(a)
        PROVE  WriteInv'
    BY <1>b, <1>4 DEF Approved, Denied, LockedWhileAsking, ApprovalTimesOut, Disconnect
  <1>5. ASSUME NEW a \in Attempts, Resume(a) PROVE WriteInv'
    <2>1. CASE ResumeVerdict(a) # "none"
      BY <1>b, <1>5, <2>1 DEF Resume
    <2>2. CASE ResumeVerdict(a) = "none"
      <3>1. IsWrite(a) => journal[Key(a)] = Absent
        BY <2>2, NewWritesPass DEF ResumeVerdict
      <3> QED
        BY <1>a, <1>5, <2>2, <3>1, QuietStep DEF Resume, SentIsLate, OnItsWayIsNew
    <2> QED
      BY <2>1, <2>2
  <1>6. ASSUME NEW a \in Attempts, TooLate(a) \/ OverBudget(a) \/ ClearDenied(a) PROVE WriteInv'
    BY <1>b, <1>6 DEF TooLate, OverBudget, ClearDenied
  <1>7. ASSUME NEW a \in Attempts, NEW save \in Saves, ChargeCalls(a, save) \/ Authorize(a, save)
        PROVE  WriteInv'
    BY <1>a, <1>7, QuietStep DEF ChargeCalls, Authorize, SentIsLate, OnItsWayIsNew
  <1>8. ASSUME NEW a \in Attempts, ClearRead(a) PROVE WriteInv'
    BY <1>a, <1>8, QuietStep DEF ClearRead, SentIsLate, OnItsWayIsNew
  <1>9. ASSUME NEW a \in Attempts, NEW save \in Saves, ClearWrite(a, save) PROVE WriteInv'
    <2>a. stage[a] = "authorized" /\ IsWrite(a) /\ Key(a) \in Keys /\ broker # "down"
      BY <1>9, <1>k, <1>u DEF ClearWrite, Locked
    <2>1. CASE save # "written"
      <3>1. \A b \in sent : IsWrite(b) => disk'[Key(b)] # Absent
        BY <1>9, <1>r, <1>s, <2>a DEF ClearWrite, SentIsJournaled
      <3>2. ClearedIsJournaled'
        BY <1>a, <1>9, <2>1 DEF ClearWrite, OneHolder, Locked, ClearedIsJournaled, IsWrite
      <3> QED
        BY <1>a, <1>9, <2>1, <3>1, <3>2
           DEF ClearWrite, WriteInv, SentIsLate, OnItsWayIsNew, ClearedIsNew, SentIsJournaled,
               AtMostOnce, IsWrite, Key
    <2>2. CASE save = "written"
      <3>1. journal' = Started(a) /\ disk' = Started(a)
        BY <1>9, <2>2 DEF ClearWrite, Reached
      <3>2. OnItsWayIsNew' /\ SentIsLate'
        BY <1>a, <1>9, <2>2 DEF ClearWrite, OneHolder, Locked, OnItsWayIsNew, SentIsLate
      <3>3. ClearedIsNew'
        <4>1. \A b \in sent : IsWrite(b) => Key(b) # Key(a)
          BY <2>a DEF SentIsJournaled, OnItsWayIsNew
        <4>2. \A b \in Attempts : stage'[b] = "cleared" => b = a
          BY <1>a, <1>9, <2>a DEF ClearWrite, OneHolder, Locked
        <4> QED
          BY <1>9, <4>1, <4>2 DEF ClearWrite, ClearedIsNew, IsWrite, Key
      <3>4. ClearedIsJournaled'
        BY <1>a, <1>9, <1>k, <1>r, <2>2, <3>1
           DEF ClearWrite, OneHolder, Locked, ClearedIsJournaled, IsWrite, Key
      <3>5. SentIsJournaled'
        BY <1>9, <1>r, <1>s, <2>a, <3>1 DEF ClearWrite, SentIsJournaled, IsWrite, Key
      <3>6. AtMostOnce'
        BY <1>9 DEF ClearWrite, AtMostOnce, IsWrite, Key
      <3> QED
        BY <3>2, <3>3, <3>4, <3>5, <3>6 DEF WriteInv
    <2> QED
      BY <2>1, <2>2
  <1>10. ASSUME NEW a \in Attempts, Send(a) PROVE WriteInv'
    <2>1. /\ stage[a] = "cleared" /\ stage' = [stage EXCEPT ![a] = "sent"] /\ sent' = sent \cup {a}
          /\ UNCHANGED <<call, journal, disk, broker>>
      BY <1>10 DEF Send
    <2>2. \A b \in Attempts : stage[b] \in Locked => b = a
      BY <2>1 DEF OneHolder, Locked
    <2>3. SentIsLate' /\ OnItsWayIsNew' /\ ClearedIsNew' /\ ClearedIsJournaled'
      BY <1>a, <2>1, <2>2
         DEF Locked, SentIsLate, OnItsWayIsNew, ClearedIsNew, ClearedIsJournaled
    <2>4. SentIsJournaled'
      BY <2>1 DEF SentIsJournaled, ClearedIsJournaled, IsWrite, Key
    <2>5. AtMostOnce'
      BY <2>1 DEF AtMostOnce, ClearedIsNew, IsWrite, Key
    <2> QED
      BY <2>3, <2>4, <2>5 DEF WriteInv
  <1>11. ASSUME NEW a \in Attempts, NEW save \in Saves, Answered(a, save) \/ Unsendable(a, save)
         PROVE  WriteInv'
    <2>1. PICK outcome \in Outcomes \ {"absent"} :
            stage[a] \in {"cleared", "sent"} /\ Conclude(a, outcome, save)
      BY <1>11 DEF Answered, Unsendable, Outcomes
    <2>2. /\ stage' = [stage EXCEPT ![a] = "closing"]
          /\ UNCHANGED <<call, sent, broker>>
          /\ journal' \in {journal, Finished(a, outcome)}
          /\ disk' \in {disk, Finished(a, outcome)}
      BY <2>1 DEF Conclude
    <2>3. \A k \in Keys : journal[k] # Absent => Finished(a, outcome)[k] # Absent
      BY <2>1, RecordsAreThere
    <2>4. \A b \in Attempts : stage[b] \in Locked => b = a
      BY <2>1 DEF OneHolder, Locked
    <2>5. SentIsLate' /\ OnItsWayIsNew' /\ ClearedIsNew' /\ ClearedIsJournaled'
      BY <1>a, <2>2, <2>4 DEF Locked, SentIsLate, OnItsWayIsNew, ClearedIsNew, ClearedIsJournaled
    <2>6. SentIsJournaled'
      BY <1>s, <1>u, <2>1, <2>2, <2>3 DEF SentIsJournaled, IsWrite, Key, Locked
    <2>7. AtMostOnce'
      BY <2>2 DEF AtMostOnce, IsWrite, Key
    <2> QED
      BY <2>5, <2>6, <2>7 DEF WriteInv
  <1>12. ASSUME NEW a \in Attempts, NEW save \in Saves, Close(a, save) PROVE WriteInv'
    BY <1>b, <1>12 DEF Close
  <1>13. ASSUME NEW a \in Attempts, NEW s \in Shapes, Arrive(a, s) PROVE WriteInv'
    <2>1. /\ stage[a] = "idle" /\ a \notin sent
          /\ stage'[a] \in {"done", "holding", "queued"}
          /\ \A b \in Attempts \ {a} : stage'[b] = stage[b] /\ call'[b] = call[b]
          /\ UNCHANGED <<journal, disk, sent, broker>>
      BY <1>a, <1>13 DEF Arrive, SentIsLate, TypeOK
    <2>2. SentIsLate' /\ OnItsWayIsNew'
      BY <1>a, <2>1 DEF SentIsLate, OnItsWayIsNew, IsWrite, Key
    <2>3. ClearedIsNew' /\ ClearedIsJournaled'
      BY <1>a, <2>1 DEF ClearedIsNew, ClearedIsJournaled, IsWrite, Key
    <2>4. SentIsJournaled' /\ AtMostOnce'
      BY <1>a, <2>1 DEF SentIsJournaled, AtMostOnce, IsWrite, Key
    <2> QED
      BY <2>2, <2>3, <2>4 DEF WriteInv
  <1>14. ASSUME NEW q \in Attempts, Forget(q) \/ Decide(q, "approved") \/ Decide(q, "denied")
         PROVE  WriteInv'
    BY <1>a, <1>14, QuietStep DEF Forget, Decide, SentIsLate, OnItsWayIsNew
  <1>15. ASSUME NEW c \in Caps, Withdraw(c) \/ WindowEnds(c) PROVE WriteInv'
    BY <1>a, <1>15, QuietStep DEF Withdraw, WindowEnds, SentIsLate, OnItsWayIsNew
  <1>16. CASE RequestLock \/ Drain \/ StopSession
    BY <1>a, <1>16, QuietStep DEF RequestLock, Drain, StopSession, SentIsLate, OnItsWayIsNew
  <1>17. CASE Drained \/ Crash \/ Restart
    <2>1. /\ \A a \in Attempts : stage'[a] \in {"idle", "done", "lost"}
          /\ \A a \in Attempts : stage[a] = "idle" => stage'[a] = stage[a]
          /\ \A a \in sent : stage'[a] # "idle"
          /\ UNCHANGED <<call, disk, sent>>
          /\ broker' # "down" => journal' = disk
      BY <1>a, <1>17 DEF Drained, Crash, MemoryIsGone, Restart, DownIsQuiet, InFlight, SentIsLate
    <2>2. SentIsLate' /\ OnItsWayIsNew' /\ ClearedIsNew' /\ ClearedIsJournaled'
      BY <1>a, <2>1 DEF SentIsLate, OnItsWayIsNew, ClearedIsNew, ClearedIsJournaled
    <2>3. SentIsJournaled' /\ AtMostOnce'
      BY <2>1 DEF SentIsJournaled, AtMostOnce, IsWrite, Key
    <2> QED
      BY <2>2, <2>3 DEF WriteInv
  <1>18. CASE UNCHANGED vars
    BY <1>a, <1>18, QuietStep DEF vars, SentIsLate, OnItsWayIsNew
  <1> QED
    BY <1>1, <1>2, <1>3, <1>4, <1>5, <1>6, <1>7, <1>8, <1>9, <1>10, <1>11, <1>12, <1>13, <1>14,
       <1>15, <1>16, <1>17, <1>18 DEF Next, Step

(* SECURITY.md: one creation per capability and request_id, whatever twins,   *)
(* retries, failed saves, crashes and restarts come in between.               *)
THEOREM WritesLeaveOnce == Spec => []AtMostOnce
  <1>1. Init => LockInv /\ WriteInv
    BY LockInit, WriteInit
  <1>2. LockInv /\ WriteInv /\ [Next]_vars => (LockInv /\ WriteInv)'
    BY LockStep, WriteStep
  <1>3. LockInv /\ WriteInv => AtMostOnce
    BY DEF WriteInv
  <1> QED
    BY <1>1, <1>2, <1>3, PTL DEF Spec
-----------------------------------------------------------------------------
(* A call that was overtaken by a revocation or a lock meets the refusal at   *)
(* its next look, for a grant never comes back and the marker stays until     *)
(* every call of this process is over; so it is not told the result, and it   *)
(* does not leave when it was overtaken before the last look.                 *)
OvertakenIsDenied ==
    \A a \in doomed \cup cut :
      /\ stage[a] # "idle"
      /\ stage[a] \notin {"closing", "done", "lost"} => Denial(a) # "none"
      /\ stage[a] \in {"closing", "done"} => result[a] # "ok"
DoomedIsHeld == \A a \in doomed : stage[a] \notin {"cleared", "sent"} /\ a \notin sent
AccessInv == OvertakenIsDenied /\ DoomedIsHeld

LEMMA AccessInit == Init => AccessInv
  BY DEF Init, AccessInv, OvertakenIsDenied, DoomedIsHeld

(* One attempt goes on while everybody's access stays as it is.               *)
LEMMA AccessOfOne ==
    ASSUME TypeOK, AccessInv, NEW a \in Attempts, NEW s \in Stages, NEW r \in Results,
           UNCHANGED <<granted, marker, doomed, cut, call>>,
           stage' = [stage EXCEPT ![a] = s], result' = [result EXCEPT ![a] = r],
           sent' = sent \/ (sent' = sent \cup {a} /\ stage[a] = "cleared"),
           a \in doomed \cup cut =>
             /\ s # "idle"
             /\ stage[a] \in {"closing", "done", "lost"} => s \in {"closing", "done", "lost"}
             /\ s \in {"closing", "done"} => r # "ok",
           a \in doomed => s \notin {"cleared", "sent"}
    PROVE  AccessInv'
  <1>1. \A b \in Attempts : Denial(b)' = Denial(b)
    BY DEF Denial, Cap
  <1>2. /\ \A b \in Attempts \ {a} : stage'[b] = stage[b] /\ result'[b] = result[b]
        /\ stage'[a] = s /\ result'[a] = r
    BY DEF TypeOK
  <1>3. doomed \subseteq Attempts /\ cut \subseteq Attempts
    BY DEF TypeOK
  <1>4. OvertakenIsDenied'
    BY <1>1, <1>2, <1>3 DEF AccessInv, OvertakenIsDenied
  <1>5. DoomedIsHeld'
    BY <1>2, <1>3 DEF AccessInv, DoomedIsHeld
  <1> QED
    BY <1>4, <1>5 DEF AccessInv

LEMMA AccessStep == LockInv /\ WriteInv /\ AccessInv /\ [Next]_vars => AccessInv'
  <1> SUFFICES ASSUME LockInv, WriteInv, AccessInv, [Next]_vars PROVE AccessInv'
    OBVIOUS
  <1> TypeOK /\ CallKnown /\ DownIsQuiet
    BY DEF LockInv, TypeInv
  <1> USE DEF lifecycle, calls, memory, approvals, files, history, Settle, GoTo
  <1>a. \A a \in Attempts : stage[a] \in Stages /\ result[a] \in Results
    BY DEF TypeOK
  <1>b. /\ stage = [a \in Attempts |-> stage[a]]
        /\ result = [a \in Attempts |-> result[a]]
        /\ \A a \in Attempts : result = [result EXCEPT ![a] = result[a]]
    BY DEF TypeOK
  <1>c. \A a \in doomed \cup cut :
          /\ stage[a] # "idle"
          /\ stage[a] \notin {"closing", "done", "lost"} => Denial(a) # "none"
    BY DEF AccessInv, OvertakenIsDenied
  (* One attempt goes on, to a stage that tells nothing.                      *)
  <1>d. ASSUME NEW a \in Attempts,
               NEW s \in Stages \ {"idle", "cleared", "sent", "closing", "done"},
               stage' = [stage EXCEPT ![a] = s],
               stage[a] \in {"closing", "done", "lost"} => s = "lost",
               UNCHANGED <<result, call, granted, marker, sent, doomed, cut>>
        PROVE  AccessInv'
    BY <1>a, <1>b, <1>d, AccessOfOne
  (* One attempt is over, with r.                                             *)
  <1>e. ASSUME NEW a \in Attempts, NEW r \in Results, NEW s \in {"closing", "done"},
               stage' = [stage EXCEPT ![a] = s], result' = [result EXCEPT ![a] = r],
               a \in doomed \cup cut => r # "ok",
               UNCHANGED <<call, granted, marker, sent, doomed, cut>>
        PROVE  AccessInv'
    BY <1>e, AccessOfOne DEF Stages
  <1>1. ASSUME NEW a \in Attempts, TurnComes(a) \/ TurnTimesOut(a) PROVE AccessInv'
    BY <1>d, <1>e, <1>1 DEF TurnComes, TurnTimesOut, Stages, Results, Definite
  <1>2. ASSUME NEW a \in Attempts, PrepareRefused(a) \/ PrepareAnswered(a) PROVE AccessInv'
    <2>1. PICK r \in Results :
            /\ stage' = [stage EXCEPT ![a] = "closing"] /\ result' = [result EXCEPT ![a] = r]
            /\ r = EarlyRefusal(a) \/ (EarlyRefusal(a) = "none" /\ r = LateVerdict(a))
            /\ stage[a] = "holding"
            /\ UNCHANGED <<call, granted, marker, sent, doomed, cut>>
      BY <1>2, VerdictsAreResults DEF PrepareRefused, PrepareAnswered, CallKnown
    <2>2. Denial(a) # "none" => r # "ok"
      BY <2>1 DEF Denial, EarlyRefusal, LateVerdict
    <2> QED
      BY <1>c, <1>e, <2>1, <2>2
  <1>3. ASSUME NEW a \in Attempts, PrepareReady(a) \/ PrepareGated(a) PROVE AccessInv'
    BY <1>d, <1>3 DEF PrepareReady, PrepareGated, Stages
  <1>4. ASSUME NEW a \in Attempts,
               Approved(a) \/ Denied(a) \/ LockedWhileAsking(a) \/ ApprovalTimesOut(a)
        PROVE  AccessInv'
    BY <1>d, <1>e, <1>4
       DEF Approved, Denied, LockedWhileAsking, ApprovalTimesOut, Stages, Results, Definite
  <1>5. ASSUME NEW a \in Attempts, Resume(a) PROVE AccessInv'
    <2>1. CASE ResumeVerdict(a) = "none"
      BY <1>d, <1>5, <2>1 DEF Resume, Stages
    <2>2. CASE ResumeVerdict(a) # "none"
      <3>1. ResumeVerdict(a) \in Results
        BY <1>5, VerdictsAreResults DEF Resume, CallKnown
      <3>2. Denial(a) # "none" => ResumeVerdict(a) # "ok"
        BY DEF ResumeVerdict, Denial
      <3> QED
        BY <1>c, <1>e, <1>5, <2>2, <3>1, <3>2 DEF Resume
    <2> QED
      BY <2>1, <2>2
  <1>6. ASSUME NEW a \in Attempts, TooLate(a) \/ OverBudget(a) PROVE AccessInv'
    BY <1>e, <1>6 DEF TooLate, OverBudget, Results, Definite
  <1>7. ASSUME NEW a \in Attempts, NEW save \in Saves, ChargeCalls(a, save) \/ Authorize(a, save)
        PROVE  AccessInv'
    BY <1>d, <1>e, <1>7 DEF ChargeCalls, Authorize, Stages, Results, Definite
  <1>8. ASSUME NEW a \in Attempts, ClearDenied(a) PROVE AccessInv'
    <2>1. Denial(a) \in Results /\ Denial(a) # "ok"
      BY DEF Denial, Results, Definite
    <2> QED
      BY <1>e, <1>8, <2>1 DEF ClearDenied
  (* Nobody who was overtaken passes the last look.                           *)
  <1>9. ASSUME NEW a \in Attempts, NEW save \in Saves,
               ClearRead(a) \/ (ClearWrite(a, save) /\ save = "written")
        PROVE  AccessInv'
    <2>1. stage[a] = "authorized" /\ a \notin doomed \cup cut
      BY <1>c, <1>9 DEF ClearRead, ClearWrite
    <2> QED
      BY <1>a, <1>b, <1>9, <2>1, AccessOfOne DEF ClearRead, ClearWrite, Stages
  <1>10. ASSUME NEW a \in Attempts, NEW save \in Saves, ClearWrite(a, save), save # "written"
         PROVE  AccessInv'
    BY <1>e, <1>10 DEF ClearWrite, Results, Definite
  <1>11. ASSUME NEW a \in Attempts, Send(a) PROVE AccessInv'
    <2>1. a \notin doomed
      BY <1>11 DEF Send, AccessInv, DoomedIsHeld
    <2> QED
      BY <1>a, <1>b, <1>11, <2>1, AccessOfOne DEF Send, Stages
  <1>12. ASSUME NEW a \in Attempts, NEW save \in Saves, Answered(a, save) \/ Unsendable(a, save)
         PROVE  AccessInv'
    <2>1. PICK outcome \in Outcomes :
            stage[a] \in {"cleared", "sent"} /\ Conclude(a, outcome, save)
      BY <1>12 DEF Answered, Unsendable, Outcomes
    <2>2. PICK r \in Results :
            /\ result' = [result EXCEPT ![a] = r] /\ (Denial(a) # "none" => r # "ok")
            /\ stage' = [stage EXCEPT ![a] = "closing"]
            /\ UNCHANGED <<call, granted, marker, sent, doomed, cut>>
      BY <2>1 DEF Conclude, ReplyFor, Denial, Results, Definite
    <2> QED
      BY <1>c, <1>e, <2>1, <2>2
  <1>13. ASSUME NEW a \in Attempts, NEW save \in Saves, Close(a, save) PROVE AccessInv'
    <2>1. PICK r \in Results :
            /\ result' = [result EXCEPT ![a] = r] /\ (r = "ok" => result[a] = "ok")
            /\ stage' = [stage EXCEPT ![a] = "done"] /\ stage[a] = "closing"
            /\ UNCHANGED <<call, granted, marker, sent, doomed, cut>>
      BY <1>a, <1>13 DEF Close, Results, Definite
    <2> QED
      BY <1>e, <2>1 DEF AccessInv, OvertakenIsDenied
  <1>14. ASSUME NEW a \in Attempts, Disconnect(a) PROVE AccessInv'
    BY <1>d, <1>14 DEF Disconnect, Stages
  <1>15. ASSUME NEW a \in Attempts, NEW s \in Shapes, Arrive(a, s) PROVE AccessInv'
    <2>1. a \notin doomed \cup cut
      BY <1>c, <1>15 DEF Arrive
    <2>2. /\ \A b \in Attempts \ {a} :
                stage'[b] = stage[b] /\ call'[b] = call[b] /\ result'[b] = result[b]
          /\ UNCHANGED <<granted, marker, sent, doomed, cut>>
      BY <1>15 DEF Arrive, TypeOK
    <2>3. \A b \in Attempts \ {a} : Denial(b)' = Denial(b)
      BY <2>2 DEF Denial, Cap
    <2> QED
      BY <2>1, <2>2, <2>3 DEF AccessInv, OvertakenIsDenied, DoomedIsHeld, TypeOK
  <1>f. ASSUME UNCHANGED <<stage, call, result, sent, granted, marker, doomed, cut>>
        PROVE  AccessInv'
    BY <1>f DEF AccessInv, OvertakenIsDenied, DoomedIsHeld, Denial, Cap
  <1>16. ASSUME NEW q \in Attempts, Forget(q) \/ Decide(q, "approved") \/ Decide(q, "denied")
         PROVE  AccessInv'
    BY <1>f, <1>16 DEF Forget, Decide
  (* A withdrawal or a lock overtakes those that are under way, and denies    *)
  (* them.                                                                    *)
  <1>17. ASSUME NEW caps \in SUBSET Caps,
                UNCHANGED <<stage, call, result, sent>>,
                doomed' = doomed \cup StillIn(BeforeClear, caps),
                cut' = cut \cup StillIn({"cleared", "sent"}, caps),
                \A a \in Attempts : Denial(a) # "none" \/ Cap(a) \in caps => Denial(a)' # "none",
                \A a \in Attempts : stage[a] \in BeforeClear => a \notin sent
         PROVE  AccessInv'
    BY <1>17 DEF AccessInv, OvertakenIsDenied, DoomedIsHeld, StillIn, BeforeClear, TypeOK
  <1>18. \A a \in Attempts : stage[a] \in BeforeClear => a \notin sent
    BY DEF WriteInv, SentIsLate, BeforeClear
  <1>19. ASSUME NEW c \in Caps, Withdraw(c) PROVE AccessInv'
    BY <1>17, <1>18, <1>19 DEF Withdraw, Denial, Cap
  <1>20. ASSUME NEW c \in Caps, WindowEnds(c) PROVE AccessInv'
    BY <1>f, <1>20 DEF WindowEnds
  <1>21. CASE RequestLock
    BY <1>17, <1>18, <1>21 DEF RequestLock, Denial, Cap
  <1>22. CASE Drain \/ StopSession
    BY <1>f, <1>22 DEF Drain, StopSession
  (* Access comes back only when no call is left that has lost it.            *)
  <1>23. CASE Drained
    BY <1>f, <1>23 DEF Drained, MemoryIsGone
  <1>24. CASE Crash
    <2>1. /\ \A a \in Attempts : stage'[a] = (IF a \in InFlight THEN "lost" ELSE stage[a])
          /\ \A a \in Attempts : a \notin InFlight => result'[a] = result[a]
          /\ UNCHANGED <<call, granted, marker, sent, doomed, cut>>
      BY <1>24 DEF Crash
    <2> QED
      BY <2>1 DEF AccessInv, OvertakenIsDenied, DoomedIsHeld, Denial, Cap, InFlight, TypeOK
  <1>25. CASE Restart
    <2>1. InFlight = {} /\ UNCHANGED <<stage, call, result, sent, doomed, cut>>
      BY <1>25 DEF Restart, DownIsQuiet
    <2> QED
      BY <2>1 DEF AccessInv, OvertakenIsDenied, DoomedIsHeld, InFlight, TypeOK
  <1>26. CASE UNCHANGED vars
    BY <1>f, <1>26 DEF vars
  <1> QED
    BY <1>1, <1>2, <1>3, <1>4, <1>5, <1>6, <1>7, <1>8, <1>9, <1>10, <1>11, <1>12, <1>13, <1>14,
       <1>15, <1>16, <1>19, <1>20, <1>21, <1>22, <1>23, <1>24, <1>25, <1>26
    DEF Next, Step, Saves

LEMMA AccessAlways == Spec => [](LockInv /\ WriteInv /\ AccessInv)
  <1>1. Init => LockInv /\ WriteInv /\ AccessInv
    BY LockInit, WriteInit, AccessInit
  <1>2. LockInv /\ WriteInv /\ AccessInv /\ [Next]_vars => (LockInv /\ WriteInv /\ AccessInv)'
    BY LockStep, WriteStep, AccessStep
  <1> QED
    BY <1>1, <1>2, PTL DEF Spec

(* A revocation or a lock that comes before the last look at the              *)
(* authorization stops the call, wherever it waits.                           *)
LEMMA OvertakenIsStopped == Spec => []DoomedIsNeverSent
  <1>1. AccessInv => DoomedIsNeverSent
    BY DEF AccessInv, DoomedIsHeld, DoomedIsNeverSent
  <1> QED
    BY <1>1, AccessAlways, PTL

(* Nor is the result of a call told that was overtaken on its way.            *)
LEMMA OvertakenIsNotAnswered == Spec => []OvertakenIsNeverTold
  <1>1. AccessInv => OvertakenIsNeverTold
    BY DEF AccessInv, OvertakenIsDenied, OvertakenIsNeverTold
  <1> QED
    BY <1>1, AccessAlways, PTL

(* Withdrawn access neither lets a call out nor its result back.              *)
THEOREM WithdrawalStops == Spec => []WithdrawnIsStopped
  <1>1. DoomedIsNeverSent /\ OvertakenIsNeverTold => WithdrawnIsStopped
    BY DEF WithdrawnIsStopped
  <1> QED
    BY <1>1, OvertakenIsStopped, OvertakenIsNotAnswered, PTL
-----------------------------------------------------------------------------
(* What leaves has been paid for and announced on the way.                    *)
PaidOnTheWay ==
    \A a \in Attempts :
      /\ stage[a] \in {"charged", "authorized", "cleared"} /\ MaxCalls[Cap(a)] # 0 => a \in charged
      /\ stage[a] \in {"authorized", "cleared"} => a \in authorized
SentIsPaid ==
    \A a \in sent : a \in authorized /\ (MaxCalls[Cap(a)] # 0 => a \in charged)
PaidInv == PaidOnTheWay /\ SentIsPaid

LEMMA PaidStep == LockInv /\ WriteInv /\ PaidInv /\ [Next]_vars => PaidInv'
  <1> SUFFICES ASSUME LockInv, WriteInv, PaidInv, [Next]_vars PROVE PaidInv'
    OBVIOUS
  <1> TypeOK /\ SentIsLate
    BY DEF LockInv, TypeInv, WriteInv
  <1> USE DEF lifecycle, calls, memory, approvals, files, history, Settle, GoTo
  (* One attempt goes on, to a stage that asks for nothing or with what it    *)
  (* asks for.                                                                *)
  <1>a. ASSUME NEW a \in Attempts, NEW s \in Stages, stage' = [stage EXCEPT ![a] = s],
               charged \subseteq charged', authorized \subseteq authorized',
               s \in {"charged", "authorized", "cleared"} /\ MaxCalls[Cap(a)] # 0 => a \in charged',
               s \in {"authorized", "cleared"} => a \in authorized',
               UNCHANGED <<call, sent>>
        PROVE  PaidInv'
    <2>1. PaidOnTheWay'
      BY <1>a DEF PaidInv, PaidOnTheWay, TypeOK, Cap
    <2>2. SentIsPaid'
      BY <1>a DEF PaidInv, SentIsPaid, TypeOK, Cap
    <2> QED
      BY <2>1, <2>2 DEF PaidInv
  <1>b. ASSUME NEW a \in Attempts, NEW s \in Stages \ {"charged", "authorized", "cleared"},
               stage' = [stage EXCEPT ![a] = s], UNCHANGED <<charged, authorized, call, sent>>
        PROVE  PaidInv'
    BY <1>a, <1>b
  <1>c. ASSUME UNCHANGED <<stage, charged, authorized, call, sent>> PROVE PaidInv'
    BY <1>c DEF PaidInv, PaidOnTheWay, SentIsPaid, Cap
  <1>d. {"idle", "queued", "holding", "asking", "requeued", "resumed", "ready", "sent", "closing",
         "done", "lost"} \subseteq Stages \ {"charged", "authorized", "cleared"}
    BY DEF Stages
  <1>1. ASSUME NEW a \in Attempts, NEW save \in Saves,
               \/ TurnComes(a) \/ TurnTimesOut(a)
               \/ PrepareRefused(a) \/ PrepareAnswered(a) \/ PrepareReady(a) \/ PrepareGated(a)
               \/ Approved(a) \/ Denied(a) \/ LockedWhileAsking(a) \/ ApprovalTimesOut(a)
               \/ Resume(a) \/ TooLate(a) \/ OverBudget(a) \/ ClearDenied(a)
               \/ Answered(a, save) \/ Unsendable(a, save) \/ Close(a, save) \/ Disconnect(a)
        PROVE  PaidInv'
    BY <1>b, <1>d, <1>1
       DEF TurnComes, TurnTimesOut, PrepareRefused, PrepareAnswered, PrepareReady, PrepareGated,
           Approved, Denied, LockedWhileAsking, ApprovalTimesOut, Resume, TooLate, OverBudget,
           ClearDenied, Answered, Unsendable, Conclude, Close, Disconnect
  <1>2. ASSUME NEW a \in Attempts, NEW save \in Saves, ChargeCalls(a, save) PROVE PaidInv'
    BY <1>a, <1>2 DEF ChargeCalls, Stages
  <1>3. ASSUME NEW a \in Attempts, NEW save \in Saves, Authorize(a, save) PROVE PaidInv'
    BY <1>a, <1>3 DEF Authorize, Stages, PaidInv, PaidOnTheWay
  <1>4. ASSUME NEW a \in Attempts, NEW save \in Saves, ClearRead(a) \/ ClearWrite(a, save)
        PROVE  PaidInv'
    BY <1>a, <1>4 DEF ClearRead, ClearWrite, Stages, PaidInv, PaidOnTheWay
  <1>5. ASSUME NEW a \in Attempts, Send(a) PROVE PaidInv'
    BY <1>5 DEF Send, PaidInv, PaidOnTheWay, SentIsPaid, TypeOK, Cap
  <1>6. ASSUME NEW a \in Attempts, NEW s \in Shapes, Arrive(a, s) PROVE PaidInv'
    <2>1. /\ stage'[a] \in {"done", "holding", "queued"} /\ a \notin sent
          /\ \A b \in Attempts \ {a} : stage'[b] = stage[b] /\ call'[b] = call[b]
          /\ UNCHANGED <<charged, authorized, sent>>
      BY <1>6 DEF Arrive, SentIsLate, TypeOK
    <2> QED
      BY <2>1 DEF PaidInv, PaidOnTheWay, SentIsPaid, TypeOK, Cap
  <1>7. ASSUME NEW q \in Attempts, Forget(q) \/ Decide(q, "approved") \/ Decide(q, "denied")
        PROVE  PaidInv'
    BY <1>c, <1>7 DEF Forget, Decide
  <1>8. ASSUME NEW c \in Caps, Withdraw(c) \/ WindowEnds(c) PROVE PaidInv'
    BY <1>c, <1>8 DEF Withdraw, WindowEnds
  <1>9. CASE RequestLock \/ Drain \/ StopSession \/ Drained \/ Restart \/ UNCHANGED vars
    BY <1>c, <1>9 DEF RequestLock, Drain, StopSession, Drained, MemoryIsGone, Restart, vars
  <1>10. CASE Crash
    <2>1. /\ \A a \in Attempts : stage'[a] = stage[a] \/ stage'[a] = "lost"
          /\ UNCHANGED <<charged, authorized, call, sent>>
      BY <1>10 DEF Crash
    <2> QED
      BY <2>1 DEF PaidInv, PaidOnTheWay, SentIsPaid, TypeOK, Cap
  <1> QED
    BY <1>1, <1>2, <1>3, <1>4, <1>5, <1>6, <1>7, <1>8, <1>9, <1>10 DEF Next, Step, Saves
-----------------------------------------------------------------------------
(* The record of a write that is out is the one made for it, and the last     *)
(* word on a write is the same in the file and in the memory of a process.    *)
Begun(a) == [hash |-> call[a].hash, outcome |-> "started"]
PendingIsBegun ==
    \A a \in Attempts : stage[a] \in {"cleared", "sent"} /\ IsWrite(a) =>
      journal[Key(a)] = Begun(a) /\ disk[Key(a)] = Begun(a)
SentKeepsItsHash ==
    \A a \in sent : IsWrite(a) =>
      /\ disk[Key(a)].hash = call[a].hash
      /\ broker # "down" => journal[Key(a)].hash = call[a].hash
Settled(k) == disk[k].outcome \notin {"absent", "started"}
SettledIsKnown == broker # "down" => \A k \in Keys : Settled(k) => journal[k] = disk[k]
RecordInv == PendingIsBegun /\ SentKeepsItsHash /\ SettledIsKnown

(* The one attempt at its last look adds a record that no other attempt has.  *)
LEMMA BegunIsNew ==
    ASSUME LockInv, WriteInv, RecordInv, NEW a \in Attempts, stage[a] = "authorized", IsWrite(a)
    PROVE  /\ Key(a) \in Keys /\ broker # "down" /\ ~ Settled(Key(a))
           /\ \A b \in sent : IsWrite(b) => Key(b) # Key(a)
           /\ \A k \in Keys : Started(a)[k] = IF k = Key(a) THEN Begun(a) ELSE journal[k]
           /\ \A b \in Attempts : stage[b] \in Locked => b = a
  <1>1. stage[a] \in Locked /\ stage[a] # "idle" /\ a \in InFlight
    BY DEF Locked, InFlight
  <1>2. Key(a) \in Keys
    BY <1>1, KnownCall DEF LockInv, TypeInv
  <1>3. broker # "down"
    BY <1>1 DEF LockInv, DownIsQuiet
  <1>4. journal[Key(a)] = Absent
    BY DEF WriteInv, OnItsWayIsNew
  <1>5. ~ Settled(Key(a))
    BY <1>2, <1>3, <1>4 DEF RecordInv, SettledIsKnown, Settled, Absent
  <1>6. \A b \in sent : IsWrite(b) => Key(b) # Key(a)
    BY <1>3, <1>4 DEF WriteInv, SentIsJournaled
  <1>7. \A k \in Keys : Started(a)[k] = IF k = Key(a) THEN Begun(a) ELSE journal[k]
    BY <1>2 DEF Started, Begun, LockInv, TypeInv, TypeOK
  <1>8. \A b \in Attempts : stage[b] \in Locked => b = a
    BY <1>1 DEF LockInv, OneHolder
  <1> QED
    BY <1>2, <1>3, <1>5, <1>6, <1>7, <1>8

LEMMA RecordClear ==
    ASSUME LockInv, WriteInv, RecordInv, NEW a \in Attempts, NEW save \in Saves, ClearWrite(a, save)
    PROVE  RecordInv' /\ \A k \in Keys : Settled(k) => disk'[k] = disk[k]
  <1> USE DEF lifecycle, calls, memory, approvals, files, history, Settle, GoTo
  <1>1. /\ stage[a] = "authorized" /\ IsWrite(a) /\ stage \in [Attempts -> Stages]
        /\ UNCHANGED <<call, sent, broker>>
    BY DEF ClearWrite, LockInv, TypeInv, TypeOK
  <1>2. sent \subseteq Attempts /\ \A b \in sent : IsWrite(b) => Key(b) \in Keys
    BY KnownCall DEF LockInv, TypeInv, TypeOK, WriteInv, SentIsLate
  <1>3. disk' \in {disk, Started(a)} /\ journal' \in {journal, Started(a)}
    BY DEF ClearWrite
  <1>4. /\ stage'[a] \in {"cleared", "closing"}
        /\ stage'[a] = "cleared" => disk' = Started(a) /\ journal' = Started(a)
        /\ \A b \in Attempts \ {a} : stage'[b] = stage[b]
    BY <1>1 DEF ClearWrite, Reached
  <1>5. /\ Key(a) \in Keys /\ broker # "down" /\ ~ Settled(Key(a))
        /\ \A b \in sent : IsWrite(b) => Key(b) # Key(a)
        /\ \A k \in Keys : Started(a)[k] = IF k = Key(a) THEN Begun(a) ELSE journal[k]
        /\ \A b \in Attempts : stage[b] \in Locked => b = a
    BY <1>1, BegunIsNew
  <1>6. PendingIsBegun'
    <2>1. \A b \in Attempts : stage'[b] \in {"cleared", "sent"} => b = a
      BY <1>1, <1>4, <1>5 DEF Locked
    <2> QED
      BY <1>1, <1>4, <1>5, <2>1 DEF PendingIsBegun, Begun, IsWrite, Key
  <1>7. SentKeepsItsHash'
    BY <1>1, <1>2, <1>3, <1>5 DEF RecordInv, SentKeepsItsHash, IsWrite, Key
  <1>8. \A k \in Keys : Settled(k) => disk'[k] = disk[k]
    BY <1>3, <1>5 DEF RecordInv, SettledIsKnown
  <1>9. SettledIsKnown'
    BY <1>3, <1>4, <1>5 DEF RecordInv, SettledIsKnown, Settled, Begun
  <1> QED
    BY <1>6, <1>7, <1>8, <1>9 DEF RecordInv

(* An outcome goes to the record that was begun, and to no other.             *)
LEMMA RecordConclude ==
    ASSUME LockInv, WriteInv, RecordInv, NEW a \in Attempts, NEW save \in Saves,
           NEW outcome \in Outcomes \ {"absent"}, stage[a] \in {"cleared", "sent"},
           Conclude(a, outcome, save)
    PROVE  RecordInv' /\ \A k \in Keys : Settled(k) => disk'[k] = disk[k]
  <1> USE DEF lifecycle, calls, memory, approvals, files, history, Settle, GoTo
  <1>1. /\ stage' = [stage EXCEPT ![a] = "closing"] /\ UNCHANGED <<call, sent, broker>>
        /\ \/ ~ IsWrite(a) /\ UNCHANGED <<journal, disk>>
           \/ IsWrite(a) /\ journal' = Finished(a, outcome) /\ disk' \in {disk, Finished(a, outcome)}
    BY DEF Conclude
  <1>2. sent \subseteq Attempts /\ \A b \in sent : IsWrite(b) => Key(b) \in Keys
    BY KnownCall DEF LockInv, TypeInv, TypeOK, WriteInv, SentIsLate
  <1>3. \A b \in Attempts : stage[b] \in Locked => b = a
    BY DEF LockInv, OneHolder, Locked
  <1>4. broker # "down" /\ (IsWrite(a) => Key(a) \in Keys)
    BY KnownCall DEF LockInv, TypeInv, DownIsQuiet, InFlight
  <1>5. IsWrite(a) => /\ \A k \in Keys : k # Key(a) => Finished(a, outcome)[k] = journal[k]
                      /\ Finished(a, outcome)[Key(a)] = [hash |-> call[a].hash, outcome |-> outcome]
                      /\ ~ Settled(Key(a)) /\ journal[Key(a)].hash = call[a].hash
    <2>1. SUFFICES ASSUME IsWrite(a)
          PROVE  /\ \A k \in Keys : k # Key(a) => Finished(a, outcome)[k] = journal[k]
                 /\ Finished(a, outcome)[Key(a)] = [hash |-> call[a].hash, outcome |-> outcome]
                 /\ ~ Settled(Key(a)) /\ journal[Key(a)].hash = call[a].hash
      OBVIOUS
    <2>2. journal[Key(a)] = Begun(a) /\ disk[Key(a)] = Begun(a)
      BY <2>1 DEF RecordInv, PendingIsBegun
    <2>3. journal[Key(a)].hash = call[a].hash /\ ~ Settled(Key(a))
      BY <2>2 DEF Begun, Settled
    <2>4. journal \in [Keys -> Record] /\ Key(a) \in Keys
      BY <1>4, <2>1 DEF LockInv, TypeInv, TypeOK
    <2>5. Finished(a, outcome)
            = [journal EXCEPT ![Key(a)] = [hash |-> call[a].hash, outcome |-> outcome]]
      BY <2>3 DEF Finished
    <2> QED
      BY <2>3, <2>4, <2>5
  <1>6. PendingIsBegun'
    BY <1>1, <1>3 DEF PendingIsBegun, Locked, LockInv, TypeInv, TypeOK
  <1>7. SentKeepsItsHash'
    <2>1. CASE ~ IsWrite(a)
      BY <1>1, <2>1 DEF RecordInv, SentKeepsItsHash, IsWrite, Key
    <2>2. CASE IsWrite(a)
      <3>1. ASSUME NEW b \in sent, IsWrite(b)
            PROVE  disk'[Key(b)].hash = call[b].hash /\ journal'[Key(b)].hash = call[b].hash
        <4>1. Key(b) = Key(a) => call[b].hash = call[a].hash
          BY <1>4, <1>5, <2>2, <3>1 DEF RecordInv, SentKeepsItsHash
        <4>2. /\ disk[Key(b)].hash = call[b].hash /\ journal[Key(b)].hash = call[b].hash
              /\ Key(b) \in Keys
          BY <1>2, <1>4, <3>1 DEF RecordInv, SentKeepsItsHash
        <4> QED
          BY <1>1, <1>5, <2>2, <4>1, <4>2
      <3> QED
        BY <1>1, <3>1 DEF SentKeepsItsHash, IsWrite, Key
    <2> QED
      BY <2>1, <2>2
  <1>8. \A k \in Keys : Settled(k) => disk'[k] = disk[k]
    BY <1>1, <1>4, <1>5 DEF RecordInv, SettledIsKnown
  <1>9. SettledIsKnown'
    BY <1>1, <1>4, <1>5 DEF RecordInv, SettledIsKnown, Settled, Begun
  <1> QED
    BY <1>6, <1>7, <1>8, <1>9 DEF RecordInv

LEMMA RecordQuiet ==
    ASSUME LockInv, RecordInv, UNCHANGED <<call, journal, disk, sent>>,
           broker = "down" => broker' = "down",
           \A a \in Attempts : stage'[a] \in {"cleared", "sent"} /\ IsWrite(a) =>
             stage[a] \in {"cleared", "sent"}
    PROVE  RecordInv' /\ \A k \in Keys : Settled(k) => disk'[k] = disk[k]
  <1>1. PendingIsBegun'
    BY DEF RecordInv, PendingIsBegun, Begun, IsWrite, Key
  <1>2. SentKeepsItsHash'
    BY DEF RecordInv, SentKeepsItsHash, IsWrite, Key
  <1>3. SettledIsKnown'
    BY DEF RecordInv, SettledIsKnown, Settled
  <1> QED
    BY <1>1, <1>2, <1>3 DEF RecordInv

LEMMA RecordStep ==
    ASSUME LockInv, WriteInv, RecordInv, [Next]_vars
    PROVE  RecordInv' /\ \A k \in Keys : Settled(k) => disk'[k] = disk[k]
  <1> DEFINE Goal == RecordInv' /\ \A k \in Keys : Settled(k) => disk'[k] = disk[k]
  <1> TypeOK /\ SentIsLate /\ DownIsQuiet
    BY DEF LockInv, TypeInv, WriteInv
  <1> USE DEF lifecycle, calls, memory, approvals, files, history, Settle, GoTo
  <1>a. ASSUME NEW a \in Attempts, NEW s \in Stages, stage' = [stage EXCEPT ![a] = s],
               s \in {"cleared", "sent"} /\ IsWrite(a) => stage[a] \in {"cleared", "sent"},
               UNCHANGED <<call, journal, disk, sent, broker>>
        PROVE  Goal
    BY <1>a, RecordQuiet DEF TypeOK
  <1>b. ASSUME UNCHANGED <<stage, call, journal, disk, sent, broker>> PROVE Goal
    BY <1>b, RecordQuiet
  <1>1. ASSUME NEW a \in Attempts, NEW save \in Saves,
               \/ TurnComes(a) \/ TurnTimesOut(a)
               \/ PrepareRefused(a) \/ PrepareAnswered(a) \/ PrepareReady(a) \/ PrepareGated(a)
               \/ Approved(a) \/ Denied(a) \/ LockedWhileAsking(a) \/ ApprovalTimesOut(a)
               \/ Resume(a) \/ TooLate(a) \/ OverBudget(a) \/ ClearDenied(a) \/ ClearRead(a)
               \/ Close(a, save) \/ Disconnect(a)
        PROVE  Goal
    <2>1. PICK s \in Stages : stage' = [stage EXCEPT ![a] = s] /\ (s = "cleared" => ~ IsWrite(a))
                              /\ s # "sent"
      BY <1>1
         DEF TurnComes, TurnTimesOut, PrepareRefused, PrepareAnswered, PrepareReady, PrepareGated,
             Approved, Denied, LockedWhileAsking, ApprovalTimesOut, Resume, TooLate, OverBudget,
             ClearDenied, ClearRead, Close, Disconnect, Stages
    <2>2. UNCHANGED <<call, journal, disk, sent, broker>>
      BY <1>1
         DEF TurnComes, TurnTimesOut, PrepareRefused, PrepareAnswered, PrepareReady, PrepareGated,
             Approved, Denied, LockedWhileAsking, ApprovalTimesOut, Resume, TooLate, OverBudget,
             ClearDenied, ClearRead, Close, Disconnect
    <2> QED
      BY <1>a, <2>1, <2>2
  <1>2. ASSUME NEW a \in Attempts, NEW save \in Saves, ChargeCalls(a, save) \/ Authorize(a, save)
        PROVE  Goal
    BY <1>a, <1>2 DEF ChargeCalls, Authorize, Stages
  <1>3. ASSUME NEW a \in Attempts, NEW save \in Saves, ClearWrite(a, save) PROVE Goal
    BY <1>3, RecordClear
  <1>4. ASSUME NEW a \in Attempts, NEW save \in Saves, Answered(a, save) \/ Unsendable(a, save)
        PROVE  Goal
    <2>1. PICK outcome \in Outcomes \ {"absent"} :
            stage[a] \in {"cleared", "sent"} /\ Conclude(a, outcome, save)
      BY <1>4 DEF Answered, Unsendable, Outcomes
    <2> QED
      BY <2>1, RecordConclude
  <1>5. ASSUME NEW a \in Attempts, Send(a) PROVE Goal
    <2>1. /\ stage[a] = "cleared" /\ stage' = [stage EXCEPT ![a] = "sent"] /\ sent' = sent \cup {a}
          /\ UNCHANGED <<call, journal, disk, broker>>
      BY <1>5 DEF Send
    <2>2. PendingIsBegun'
      <3>1. \A b \in Attempts : stage'[b] \in {"cleared", "sent"} => stage[b] \in {"cleared", "sent"}
        BY <2>1 DEF TypeOK
      <3> QED
        BY <2>1, <3>1 DEF RecordInv, PendingIsBegun, Begun, IsWrite, Key
    <2>3. IsWrite(a) => journal[Key(a)].hash = call[a].hash /\ disk[Key(a)].hash = call[a].hash
      <3>1. IsWrite(a) => journal[Key(a)] = Begun(a) /\ disk[Key(a)] = Begun(a)
        BY <2>1 DEF RecordInv, PendingIsBegun
      <3> QED
        BY <3>1 DEF Begun
    <2>4. SentKeepsItsHash'
      BY <2>1, <2>3 DEF RecordInv, SentKeepsItsHash, IsWrite, Key
    <2> QED
      BY <2>1, <2>2, <2>4 DEF RecordInv, SettledIsKnown, Settled
  <1>6. ASSUME NEW a \in Attempts, NEW s \in Shapes, Arrive(a, s) PROVE Goal
    <2>1. /\ stage'[a] \in {"done", "holding", "queued"} /\ a \notin sent
          /\ \A b \in Attempts \ {a} : stage'[b] = stage[b] /\ call'[b] = call[b]
          /\ UNCHANGED <<journal, disk, sent, broker>>
      BY <1>6 DEF Arrive, SentIsLate, TypeOK
    <2>2. PendingIsBegun'
      BY <2>1 DEF RecordInv, PendingIsBegun, Begun, IsWrite, Key
    <2>3. SentKeepsItsHash'
      BY <2>1 DEF RecordInv, SentKeepsItsHash, IsWrite, Key, TypeOK
    <2> QED
      BY <2>1, <2>2, <2>3 DEF RecordInv, SettledIsKnown, Settled
  <1>7. ASSUME NEW q \in Attempts, Forget(q) \/ Decide(q, "approved") \/ Decide(q, "denied")
        PROVE  Goal
    BY <1>b, <1>7 DEF Forget, Decide
  <1>8. ASSUME NEW c \in Caps, Withdraw(c) \/ WindowEnds(c) PROVE Goal
    BY <1>b, <1>8 DEF Withdraw, WindowEnds
  <1>9. CASE RequestLock \/ Drain \/ StopSession
    BY <1>9, RecordQuiet DEF RequestLock, Drain, StopSession
  (* A process that ends takes its memory along; a new one reads the file.    *)
  <1>10. CASE Drained \/ Crash \/ Restart
    <2>1. /\ \A a \in Attempts : stage'[a] \in {"idle", "done", "lost"}
          /\ UNCHANGED <<call, disk, sent>>
          /\ broker' # "down" => journal' = disk
      BY <1>10 DEF Drained, Crash, MemoryIsGone, Restart, DownIsQuiet, InFlight
    <2>2. PendingIsBegun'
      BY <2>1 DEF PendingIsBegun
    <2>3. SentKeepsItsHash'
      BY <2>1 DEF RecordInv, SentKeepsItsHash, IsWrite, Key
    <2> QED
      BY <2>1, <2>2, <2>3 DEF RecordInv, SettledIsKnown, Settled
  <1>11. CASE UNCHANGED vars
    BY <1>b, <1>11 DEF vars
  <1> QED
    BY <1>1, <1>2, <1>3, <1>4, <1>5, <1>6, <1>7, <1>8, <1>9, <1>10, <1>11 DEF Next, Step, Saves

LEMMA RecordsAlways == Spec => [](LockInv /\ WriteInv /\ PaidInv /\ RecordInv)
  <1>1. Init => PaidInv /\ RecordInv
    BY DEF Init, PaidInv, PaidOnTheWay, SentIsPaid, RecordInv, PendingIsBegun, SentKeepsItsHash,
           SettledIsKnown, Settled, Absent
  <1>2. LockInv /\ WriteInv /\ RecordInv /\ [Next]_vars => RecordInv'
    BY RecordStep
  <1> QED
    BY <1>1, <1>2, LockInit, WriteInit, LockStep, WriteStep, PaidStep, PTL DEF Spec

(* Whatever left the machine is accounted for in files that outlive a crash:  *)
(* an "authorized" audit line, a unit of the budget, a journal record with    *)
(* the arguments of the write.                                                *)
THEOREM EverySentCallIsOnRecord == Spec => []SentIsOnRecord
  <1>1. WriteInv /\ PaidInv /\ RecordInv => SentIsOnRecord
    BY DEF WriteInv, SentIsJournaled, PaidInv, SentIsPaid, RecordInv, SentKeepsItsHash,
           SentIsOnRecord
  <1> QED
    BY <1>1, RecordsAlways, PTL

(* What a file says of a write that is over is never taken back or changed,   *)
(* not by a restart and not by saves that fail in between.                    *)
THEOREM WhatIsSettledStays == Spec => SettledIsFinal
  <1>1. LockInv /\ WriteInv /\ RecordInv /\ [Next]_vars
          => [\A k \in Keys : disk[k].outcome \notin {"absent", "started"} => disk'[k] = disk[k]]_vars
    BY RecordStep DEF Settled
  <1> QED
    BY <1>1, RecordsAlways, PTL DEF Spec, SettledIsFinal
-----------------------------------------------------------------------------
(* What a caller is told of a write: done only if the service acted on these  *)
(* very arguments, and a definite error only if nothing left the machine.     *)
Done(a) == \E b \in applied : call[b] = call[a]
Acted(k, hash) == \E b \in applied : IsWrite(b) /\ Key(b) = k /\ call[b].hash = hash
ErrorsAreHonest ==
    \A a \in sent : stage[a] \in {"closing", "done"} /\ IsWrite(a) => result[a] \notin Definite
OkIsHonest ==
    \A a \in Attempts : stage[a] \in {"closing", "done"} /\ IsWrite(a) /\ result[a] = "ok" => Done(a)
OkRecordsAreTrue ==
    \A k \in Keys : /\ journal[k].outcome = "ok" => Acted(k, journal[k].hash)
                    /\ disk[k].outcome = "ok" => Acted(k, disk[k].hash)
ReplyInv == applied \subseteq sent /\ ErrorsAreHonest /\ OkIsHonest /\ OkRecordsAreTrue

(* A repeated write with the same arguments is the same call.                 *)
LEMMA ReplayIsTheSame ==
    ASSUME LockInv, WriteInv, ReplyInv, NEW a \in Attempts, stage[a] # "idle", IsWrite(a),
           journal[Key(a)].outcome = "ok", journal[Key(a)].hash = call[a].hash
    PROVE  Done(a)
  <1>1. Key(a) \in Keys /\ call[a] \in Shape
    BY KnownCall, ShapesAssumption DEF LockInv, TypeInv, CallKnown
  <1>2. PICK b \in applied : IsWrite(b) /\ Key(b) = Key(a) /\ call[b].hash = call[a].hash
    BY <1>1 DEF ReplyInv, OkRecordsAreTrue, Acted
  <1>3. b \in Attempts /\ stage[b] # "idle"
    BY DEF ReplyInv, WriteInv, SentIsLate, LockInv, TypeInv, TypeOK
  <1>4. call[b] \in Shape
    BY <1>3, ShapesAssumption DEF LockInv, TypeInv, CallKnown
  <1>5. call[b].cap = call[a].cap /\ call[b].id = call[a].id /\ call[b].kind = call[a].kind
    BY <1>2 DEF Key, IsWrite
  <1>6. call[b] = call[a]
    BY <1>1, <1>2, <1>4, <1>5 DEF Shape
  <1> QED
    BY <1>6 DEF Done

LEMMA VerdictOkIsDone ==
    ASSUME LockInv, WriteInv, ReplyInv, NEW a \in Attempts, stage[a] # "idle", IsWrite(a),
           JournalVerdict(a) = "ok"
    PROVE  Done(a)
  <1>1. journal[Key(a)].outcome = "ok" /\ journal[Key(a)].hash = call[a].hash
    BY DEF JournalVerdict
  <1> QED
    BY <1>1, ReplayIsTheSame

(* One attempt goes on while no record changes.                               *)
LEMMA ReplyOfOne ==
    ASSUME LockInv, WriteInv, ReplyInv, NEW a \in Attempts, NEW s \in Stages, NEW r \in Results,
           stage' = [stage EXCEPT ![a] = s], result' = [result EXCEPT ![a] = r],
           UNCHANGED <<call, journal, disk, sent, applied>>,
           s \in {"closing", "done"} /\ IsWrite(a) =>
             (a \in sent => r \notin Definite) /\ (r = "ok" => Done(a))
    PROVE  ReplyInv'
  <1>1. /\ stage'[a] = s /\ result'[a] = r
        /\ \A b \in Attempts \ {a} : stage'[b] = stage[b] /\ result'[b] = result[b]
        /\ sent \subseteq Attempts
    BY DEF LockInv, TypeInv, TypeOK
  <1>2. ErrorsAreHonest'
    BY <1>1 DEF ReplyInv, ErrorsAreHonest, IsWrite
  <1>3. OkIsHonest'
    BY <1>1 DEF ReplyInv, OkIsHonest, IsWrite, Done
  <1>4. OkRecordsAreTrue'
    BY DEF ReplyInv, OkRecordsAreTrue, Acted, IsWrite, Key
  <1> QED
    BY <1>2, <1>3, <1>4 DEF ReplyInv

LEMMA ReplyConclude ==
    ASSUME LockInv, WriteInv, RecordInv, ReplyInv, NEW a \in Attempts, NEW save \in Saves,
           Answered(a, save) \/ Unsendable(a, save)
    PROVE  ReplyInv'
  <1> USE DEF lifecycle, calls, memory, approvals, files, history, Settle
  <1>1. PICK outcome \in {"ok", "unknown", "refused"} :
          /\ stage[a] \in {"cleared", "sent"} /\ Conclude(a, outcome, save)
          /\ outcome = "ok" => a \in applied
          /\ outcome = "refused" => stage[a] = "cleared"
    BY DEF Answered, Unsendable
  <1>2. PICK r \in Results :
          /\ result' = [result EXCEPT ![a] = r] /\ stage' = [stage EXCEPT ![a] = "closing"]
          /\ IsWrite(a) => r \in {"WriteOutcomeUnknown"} \/ r = ReplyFor(a, outcome)
    BY <1>1 DEF Conclude, ReplyFor, Denial, Results, Definite
  <1>3. IsWrite(a) => (a \in sent => r \notin Definite) /\ (r = "ok" => Done(a))
    <2>1. stage[a] = "cleared" => a \notin sent
      BY DEF WriteInv, SentIsLate
    <2> QED
      BY <1>1, <1>2, <2>1 DEF ReplyFor, Done, Definite
  <1>4. /\ stage'[a] = "closing" /\ result'[a] = r
        /\ \A b \in Attempts \ {a} : stage'[b] = stage[b] /\ result'[b] = result[b]
        /\ sent \subseteq Attempts /\ UNCHANGED <<call, sent, applied>>
    BY <1>1, <1>2 DEF LockInv, TypeInv, TypeOK, Conclude
  <1>5. ErrorsAreHonest'
    BY <1>3, <1>4 DEF ReplyInv, ErrorsAreHonest, IsWrite
  <1>6. OkIsHonest'
    BY <1>3, <1>4 DEF ReplyInv, OkIsHonest, IsWrite, Done
  <1>7. OkRecordsAreTrue'
    <2>1. CASE ~ IsWrite(a)
      BY <1>1, <1>4, <2>1 DEF Conclude, ReplyInv, OkRecordsAreTrue, Acted, IsWrite, Key
    <2>2. CASE IsWrite(a)
      <3>1. Key(a) \in Keys /\ journal \in [Keys -> Record]
        BY <1>1, <2>2, KnownCall DEF LockInv, TypeInv, TypeOK
      <3>2. journal[Key(a)] = Begun(a)
        BY <1>1, <2>2 DEF RecordInv, PendingIsBegun
      <3>3. journal[Key(a)].hash = call[a].hash
        BY <3>2 DEF Begun
      <3>4. Finished(a, outcome)
              = [journal EXCEPT ![Key(a)] = [hash |-> call[a].hash, outcome |-> outcome]]
        BY <3>3 DEF Finished
      <3>5. outcome = "ok" => Acted(Key(a), call[a].hash)
        BY <1>1, <2>2 DEF Acted
      <3>6. \A k \in Keys : Finished(a, outcome)[k].outcome = "ok"
              => Acted(k, Finished(a, outcome)[k].hash)
        BY <3>1, <3>4, <3>5 DEF ReplyInv, OkRecordsAreTrue
      <3>7. journal' = Finished(a, outcome) /\ disk' \in {disk, Finished(a, outcome)}
        BY <1>1, <2>2 DEF Conclude
      <3>8. \A k, h : Acted(k, h)' <=> Acted(k, h)
        BY <1>4 DEF Acted, IsWrite, Key
      <3> QED
        BY <3>6, <3>7, <3>8 DEF ReplyInv, OkRecordsAreTrue
    <2> QED
      BY <2>1, <2>2
  <1> QED
    BY <1>4, <1>5, <1>6, <1>7 DEF ReplyInv

LEMMA ReplyStep ==
    ASSUME LockInv, WriteInv, RecordInv, ReplyInv, [Next]_vars
    PROVE  ReplyInv'
  <1> TypeOK /\ CallKnown /\ SentIsLate /\ DownIsQuiet
    BY DEF LockInv, TypeInv, WriteInv
  <1> USE DEF lifecycle, calls, memory, approvals, files, history, Settle, GoTo
  <1>a. \A a \in Attempts : result[a] \in Results /\ result = [result EXCEPT ![a] = result[a]]
    BY DEF TypeOK
  (* One attempt goes on and tells nothing.                                   *)
  <1>b. ASSUME NEW a \in Attempts, NEW s \in Stages \ {"closing", "done"},
               stage' = [stage EXCEPT ![a] = s],
               UNCHANGED <<call, result, journal, disk, sent, applied>>
        PROVE  ReplyInv'
    BY <1>a, <1>b, ReplyOfOne
  (* One attempt that has not sent is over.                                   *)
  <1>c. ASSUME NEW a \in Attempts, NEW s \in {"closing", "done"}, NEW r \in Results,
               stage[a] \notin {"sent", "closing", "done", "lost"},
               stage' = [stage EXCEPT ![a] = s], result' = [result EXCEPT ![a] = r],
               IsWrite(a) /\ r = "ok" => Done(a),
               UNCHANGED <<call, journal, disk, sent, applied>>
        PROVE  ReplyInv'
    BY <1>c, ReplyOfOne DEF SentIsLate, Stages
  <1>d. ASSUME UNCHANGED <<stage, call, result, journal, disk, sent, applied>> PROVE ReplyInv'
    BY <1>d DEF ReplyInv, ErrorsAreHonest, OkIsHonest, OkRecordsAreTrue, Acted, Done, IsWrite, Key
  <1>1. ASSUME NEW a \in Attempts, TurnComes(a) \/ TurnTimesOut(a) PROVE ReplyInv'
    BY <1>b, <1>c, <1>1 DEF TurnComes, TurnTimesOut, Stages, Results, Definite
  <1>2. ASSUME NEW a \in Attempts, PrepareRefused(a) \/ PrepareAnswered(a) PROVE ReplyInv'
    <2>1. PICK r \in Results :
            /\ stage' = [stage EXCEPT ![a] = "closing"] /\ result' = [result EXCEPT ![a] = r]
            /\ r = EarlyRefusal(a) \/ r = LateVerdict(a)
            /\ stage[a] = "holding"
            /\ UNCHANGED <<call, journal, disk, sent, applied>>
      BY <1>2, VerdictsAreResults DEF PrepareRefused, PrepareAnswered, CallKnown
    <2>2. IsWrite(a) /\ r = "ok" => JournalVerdict(a) = "ok"
      BY <2>1 DEF EarlyRefusal, LateVerdict, IsWrite
    <2> QED
      BY <1>c, <2>1, <2>2, VerdictOkIsDone
  <1>3. ASSUME NEW a \in Attempts, PrepareReady(a) \/ PrepareGated(a) \/ Disconnect(a)
        PROVE  ReplyInv'
    BY <1>b, <1>3 DEF PrepareReady, PrepareGated, Disconnect, Stages
  <1>4. ASSUME NEW a \in Attempts,
               Approved(a) \/ Denied(a) \/ LockedWhileAsking(a) \/ ApprovalTimesOut(a)
        PROVE  ReplyInv'
    BY <1>b, <1>c, <1>4
       DEF Approved, Denied, LockedWhileAsking, ApprovalTimesOut, Stages, Results, Definite
  <1>5. ASSUME NEW a \in Attempts, Resume(a) PROVE ReplyInv'
    <2>1. CASE ResumeVerdict(a) = "none"
      BY <1>b, <1>5, <2>1 DEF Resume, Stages
    <2>2. CASE ResumeVerdict(a) # "none"
      <3>1. ResumeVerdict(a) \in Results
        BY <1>5, VerdictsAreResults DEF Resume, CallKnown
      <3>2. IsWrite(a) /\ ResumeVerdict(a) = "ok" => Done(a)
        BY <1>5, VerdictOkIsDone DEF Resume, ResumeVerdict, Denial
      <3> QED
        BY <1>c, <1>5, <2>2, <3>1, <3>2 DEF Resume
    <2> QED
      BY <2>1, <2>2
  <1>6. ASSUME NEW a \in Attempts, TooLate(a) \/ OverBudget(a) PROVE ReplyInv'
    BY <1>c, <1>6 DEF TooLate, OverBudget, Results, Definite
  <1>7. ASSUME NEW a \in Attempts, NEW save \in Saves, ChargeCalls(a, save) \/ Authorize(a, save)
        PROVE  ReplyInv'
    BY <1>b, <1>c, <1>7 DEF ChargeCalls, Authorize, Stages, Results, Definite
  <1>8. ASSUME NEW a \in Attempts, ClearDenied(a) PROVE ReplyInv'
    <2>1. Denial(a) \in Results /\ Denial(a) # "ok"
      BY DEF Denial, Results, Definite
    <2> QED
      BY <1>c, <1>8, <2>1 DEF ClearDenied
  <1>9. ASSUME NEW a \in Attempts, ClearRead(a) PROVE ReplyInv'
    BY <1>b, <1>9 DEF ClearRead, Stages
  <1>10. ASSUME NEW a \in Attempts, NEW save \in Saves, ClearWrite(a, save) PROVE ReplyInv'
    <2>1. /\ stage[a] = "authorized" /\ a \notin sent
          /\ stage'[a] \in {"cleared", "closing"} /\ (stage'[a] = "closing" => result'[a] # "ok")
          /\ \A b \in Attempts \ {a} : stage'[b] = stage[b] /\ result'[b] = result[b]
          /\ UNCHANGED <<call, sent, applied>>
          /\ journal' \in {journal, Started(a)} /\ disk' \in {disk, Started(a)}
      BY <1>10 DEF ClearWrite, TypeOK, SentIsLate
    <2>2. ErrorsAreHonest'
      BY <2>1 DEF ReplyInv, ErrorsAreHonest, IsWrite, TypeOK
    <2>3. OkIsHonest'
      BY <2>1 DEF ReplyInv, OkIsHonest, IsWrite, Done
    <2>4. \A k \in Keys : Started(a)[k].outcome = "ok" => Started(a)[k] = journal[k]
      <3>1. \A k \in Keys : Started(a)[k] = IF k = Key(a) THEN Begun(a) ELSE journal[k]
        BY <1>10, BegunIsNew DEF ClearWrite
      <3>2. Begun(a).outcome # "ok"
        BY DEF Begun
      <3> QED
        BY <3>1, <3>2
    <2>5. \A k, h : Acted(k, h)' <=> Acted(k, h)
      BY <2>1 DEF Acted, IsWrite, Key
    <2>6. OkRecordsAreTrue'
      BY <2>1, <2>4, <2>5 DEF ReplyInv, OkRecordsAreTrue
    <2> QED
      BY <2>1, <2>2, <2>3, <2>6 DEF ReplyInv
  <1>11. ASSUME NEW a \in Attempts, Send(a) PROVE ReplyInv'
    <2>1. /\ stage' = [stage EXCEPT ![a] = "sent"] /\ sent' = sent \cup {a}
          /\ applied \subseteq applied' /\ applied' \subseteq applied \cup {a}
          /\ UNCHANGED <<call, result, journal, disk>>
      BY <1>11 DEF Send
    <2>2. ErrorsAreHonest'
      BY <2>1 DEF ReplyInv, ErrorsAreHonest, IsWrite, TypeOK
    <2>3. OkIsHonest'
      BY <2>1 DEF ReplyInv, OkIsHonest, IsWrite, Done, TypeOK
    <2>4. OkRecordsAreTrue'
      BY <2>1 DEF ReplyInv, OkRecordsAreTrue, Acted, IsWrite, Key
    <2> QED
      BY <2>1, <2>2, <2>3, <2>4 DEF ReplyInv
  <1>12. ASSUME NEW a \in Attempts, NEW save \in Saves, Answered(a, save) \/ Unsendable(a, save)
         PROVE  ReplyInv'
    BY <1>12, ReplyConclude
  (* The closing line keeps what is told, or makes it a question.             *)
  <1>13. ASSUME NEW a \in Attempts, NEW save \in Saves, Close(a, save) PROVE ReplyInv'
    <2>1. PICK r \in Results :
            /\ result' = [result EXCEPT ![a] = r]
            /\ IsWrite(a) => r = result[a] \/ r = "WriteOutcomeUnknown"
                             \/ (result[a] = "Unauthorized" /\ r = "StateUnavailable")
            /\ stage' = [stage EXCEPT ![a] = "done"] /\ stage[a] = "closing"
            /\ UNCHANGED <<call, journal, disk, sent, applied>>
      BY <1>a, <1>13 DEF Close, Results, Definite
    <2>2. IsWrite(a) => (a \in sent => r \notin Definite) /\ (r = "ok" => Done(a))
      BY <2>1 DEF ReplyInv, ErrorsAreHonest, OkIsHonest, Definite
    <2> QED
      BY <2>1, <2>2, ReplyOfOne DEF Stages
  <1>14. ASSUME NEW a \in Attempts, NEW s \in Shapes, Arrive(a, s) PROVE ReplyInv'
    <2>1. /\ a \notin sent /\ (stage'[a] \in {"closing", "done"} => result'[a] # "ok")
          /\ \A b \in Attempts \ {a} :
                stage'[b] = stage[b] /\ call'[b] = call[b] /\ result'[b] = result[b]
          /\ UNCHANGED <<journal, disk, sent, applied>>
      BY <1>14 DEF Arrive, SentIsLate, TypeOK
    <2>2. a \notin applied /\ applied \subseteq Attempts /\ sent \subseteq Attempts
      BY <2>1 DEF ReplyInv, TypeOK
    <2>3. ErrorsAreHonest'
      BY <2>1, <2>2 DEF ReplyInv, ErrorsAreHonest, IsWrite
    <2>4. OkIsHonest'
      BY <2>1, <2>2 DEF ReplyInv, OkIsHonest, IsWrite, Done
    <2>5. \A k, h : Acted(k, h)' <=> Acted(k, h)
      BY <2>1, <2>2 DEF Acted, IsWrite, Key
    <2>6. OkRecordsAreTrue'
      BY <2>1, <2>5 DEF ReplyInv, OkRecordsAreTrue
    <2> QED
      BY <2>1, <2>3, <2>4, <2>6 DEF ReplyInv
  <1>15. ASSUME NEW q \in Attempts, Forget(q) \/ Decide(q, "approved") \/ Decide(q, "denied")
         PROVE  ReplyInv'
    BY <1>d, <1>15 DEF Forget, Decide
  <1>16. ASSUME NEW c \in Caps, Withdraw(c) \/ WindowEnds(c) PROVE ReplyInv'
    BY <1>d, <1>16 DEF Withdraw, WindowEnds
  <1>17. CASE RequestLock \/ Drain \/ StopSession \/ UNCHANGED vars
    BY <1>d, <1>17 DEF RequestLock, Drain, StopSession, vars
  <1>18. CASE Drained \/ Crash \/ Restart
    <2>1. /\ \A a \in Attempts : stage'[a] \in {"closing", "done"} =>
                stage'[a] = stage[a] /\ result'[a] = result[a]
          /\ UNCHANGED <<call, disk, sent, applied>>
          /\ \A k \in Keys : journal'[k] \in {Absent, disk[k]}
      BY <1>18 DEF Drained, Crash, MemoryIsGone, Restart, InFlight, TypeOK
    <2>2. ErrorsAreHonest' /\ OkIsHonest'
      BY <2>1 DEF ReplyInv, ErrorsAreHonest, OkIsHonest, IsWrite, Done, TypeOK
    <2>3. \A k, h : Acted(k, h)' <=> Acted(k, h)
      BY <2>1 DEF Acted, IsWrite, Key
    <2>4. OkRecordsAreTrue'
      BY <2>1, <2>3 DEF ReplyInv, OkRecordsAreTrue, Absent
    <2> QED
      BY <2>1, <2>2, <2>4 DEF ReplyInv
  <1> QED
    BY <1>1, <1>2, <1>3, <1>4, <1>5, <1>6, <1>7, <1>8, <1>9, <1>10, <1>11, <1>12, <1>13, <1>14,
       <1>15, <1>16, <1>17, <1>18 DEF Next, Step, Saves

LEMMA RepliesAlways == Spec => []ReplyInv
  <1>1. Init => ReplyInv
    BY DEF Init, ReplyInv, ErrorsAreHonest, OkIsHonest, OkRecordsAreTrue, Absent
  <1>2. LockInv /\ WriteInv /\ RecordInv /\ ReplyInv /\ [Next]_vars => ReplyInv'
    BY ReplyStep
  <1> QED
    BY <1>1, <1>2, RecordsAlways, PTL DEF Spec

(* A write that ends with any error but write_outcome_unknown has not left    *)
(* the machine, so its caller may safely try again.                           *)
LEMMA ErrorsAreDefinite == Spec => []DefiniteErrorMeansUnsent
  <1>1. TypeOK /\ ReplyInv => DefiniteErrorMeansUnsent
    BY DEF ReplyInv, ErrorsAreHonest, DefiniteErrorMeansUnsent
  <1> QED
    BY <1>1, RepliesAlways, TypeCorrect, PTL

(* A write is reported done only if the service acted on a request with these *)
(* very arguments, be it this attempt or the one it repeats.                  *)
LEMMA SuccessIsReal == Spec => []OkMeansApplied
  <1>1. ReplyInv => OkMeansApplied
    BY DEF ReplyInv, OkIsHonest, Done, OkMeansApplied
  <1> QED
    BY <1>1, RepliesAlways, PTL

(* What a caller is told of a write can be relied on either way.              *)
THEOREM RepliesCanBeTrusted == Spec => []RepliesAreHonest
  <1>1. DefiniteErrorMeansUnsent /\ OkMeansApplied => RepliesAreHonest
    BY DEF RepliesAreHonest
  <1> QED
    BY <1>1, ErrorsAreDefinite, SuccessIsReal, PTL
-----------------------------------------------------------------------------
(* The budget of a grant: no file and no process that a call could meet has   *)
(* counted less than was spent.  Of a withdrawn grant the file may forget,    *)
(* and so may a later process, in which no call has it any more.              *)
Spent(c) == {a \in charged : Cap(a) = c}
Usable(c) == broker # "down" /\ (c \in granted \/ \E a \in InFlight : Cap(a) = c)
SpentIsCounted ==
    \A c \in Caps : MaxCalls[c] # 0 =>
      /\ Cardinality(Spent(c)) <= MaxCalls[c]
      /\ c \in granted => Cardinality(Spent(c)) <= usageDisk[c]
      /\ Usable(c) => Cardinality(Spent(c)) <= usage[c]
ChargedHasArrived == \A a \in charged : stage[a] # "idle"
BudgetInv == SpentIsCounted /\ ChargedHasArrived

LEMMA SpentIsFinite ==
    ASSUME TypeOK, NEW c
    PROVE  IsFiniteSet(Spent(c)) /\ Cardinality(Spent(c)) \in Nat
  BY BoundsAssumption, FS_Subset, FS_CardinalityType DEF TypeOK, Spent

(* A step that spends nothing and brings no call of a withdrawn grant.        *)
LEMMA BudgetQuiet ==
    ASSUME TypeOK, BudgetInv, UNCHANGED <<charged, usage, usageDisk>>,
           \A a \in charged : call'[a] = call[a] /\ stage'[a] # "idle",
           \A c \in Caps : c \in granted' => c \in granted,
           \A c \in Caps : Usable(c)' => Usable(c)
    PROVE  BudgetInv'
  <1>1. \A c : Spent(c)' = Spent(c)
    BY DEF Spent, Cap
  <1>2. SpentIsCounted'
    BY <1>1 DEF BudgetInv, SpentIsCounted
  <1>3. ChargedHasArrived'
    BY DEF ChargedHasArrived
  <1> QED
    BY <1>2, <1>3 DEF BudgetInv

LEMMA BudgetCharge ==
    ASSUME TypeOK, BudgetInv, DownIsQuiet, CallKnown,
           NEW a \in Attempts, NEW save \in Saves, ChargeCalls(a, save)
    PROVE  BudgetInv'
  <1> USE DEF lifecycle, calls, memory, approvals, files, history, Settle, GoTo
  <1> DEFINE spent == [usage EXCEPT ![Cap(a)] = usage[Cap(a)] + 1]
  <1>1. /\ stage[a] = "ready" /\ a \in InFlight /\ Cap(a) \in Caps /\ broker # "down"
        /\ MaxCalls \in [Caps -> Nat] /\ usage \in [Caps -> Nat] /\ usageDisk \in [Caps -> Nat]
    BY KnownCall, GrantsAssumption DEF ChargeCalls, InFlight, DownIsQuiet, TypeOK
  <1>2. /\ stage'[a] \in {"charged", "closing"}
        /\ \A b \in Attempts \ {a} : stage'[b] = stage[b]
        /\ UNCHANGED <<broker, call, granted>>
    BY DEF ChargeCalls, TypeOK
  <1>3. InFlight' = InFlight
    BY <1>1, <1>2 DEF InFlight
  <1>4. \A c \in Caps : Usable(c)' <=> Usable(c)
    BY <1>2, <1>3 DEF Usable, Cap
  <1>5. Usable(Cap(a)) /\ \A c \in Caps : c \in granted => Usable(c)
    BY <1>1 DEF Usable
  <1>6. spent \in [Caps -> Nat] /\ \A c \in Caps : usage[c] <= spent[c]
    BY <1>1
  <1>7. CASE UNCHANGED <<charged, usage>>
    <2>1. usageDisk' \in {usageDisk, spent}
      BY <1>7 DEF ChargeCalls
    <2>2. \A c : Spent(c)' = Spent(c)
      BY <1>2, <1>7 DEF Spent, Cap
    <2>3. \A c \in Caps : Cardinality(Spent(c)) \in Nat
      BY SpentIsFinite
    <2>4. SpentIsCounted'
      <3>1. ASSUME NEW c \in Caps, MaxCalls[c] # 0
            PROVE  /\ Cardinality(Spent(c)) <= MaxCalls[c]
                   /\ c \in granted => Cardinality(Spent(c)) <= usageDisk'[c]
                   /\ Usable(c) => Cardinality(Spent(c)) <= usage[c]
        <4>1. /\ Cardinality(Spent(c)) <= MaxCalls[c]
              /\ c \in granted => Cardinality(Spent(c)) <= usageDisk[c]
              /\ Usable(c) => Cardinality(Spent(c)) <= usage[c]
          BY <3>1 DEF BudgetInv, SpentIsCounted
        <4>2. c \in granted => Cardinality(Spent(c)) <= spent[c]
          BY <1>1, <1>5, <1>6, <2>3, <4>1
        <4> QED
          BY <2>1, <4>1, <4>2
      <3> QED
        BY <1>2, <1>4, <1>7, <2>2, <3>1 DEF SpentIsCounted
    <2>5. ChargedHasArrived'
      BY <1>1, <1>2, <1>7 DEF BudgetInv, ChargedHasArrived, TypeOK
    <2> QED
      BY <2>4, <2>5 DEF BudgetInv
  <1>8. CASE ~ UNCHANGED <<charged, usage>>
    <2>1. /\ MaxCalls[Cap(a)] # 0 /\ ~ BudgetSpent(Cap(a))
          /\ usageDisk' = spent /\ usage' = spent /\ charged' = charged \cup {a}
      BY <1>8 DEF ChargeCalls, Reached
    <2>2. \A c : c # Cap(a) => Spent(c)' = Spent(c)
      BY <1>2, <2>1 DEF Spent, Cap
    <2>3. Spent(Cap(a))' \subseteq Spent(Cap(a)) \cup {a}
      BY <1>2, <2>1 DEF Spent, Cap
    <2>4. Cardinality(Spent(Cap(a)) \cup {a}) <= Cardinality(Spent(Cap(a))) + 1
          /\ IsFiniteSet(Spent(Cap(a)) \cup {a})
      <3> DEFINE old == Spent(Cap(a))
      <3>1. IsFiniteSet(old) /\ Cardinality(old) \in Nat
        BY SpentIsFinite
      <3> HIDE DEF old
      <3>2. /\ IsFiniteSet(old \cup {a})
            /\ Cardinality(old \cup {a}) = IF a \in old THEN Cardinality(old) ELSE Cardinality(old) + 1
        BY <3>1, FS_AddElement
      <3>3. Cardinality(old \cup {a}) <= Cardinality(old) + 1
        BY <3>1, <3>2
      <3> QED
        BY <3>2, <3>3 DEF old
    <2> DEFINE more == Spent(Cap(a))'
    <2>5. Cardinality(more) <= Cardinality(Spent(Cap(a))) + 1 /\ Cardinality(more) \in Nat
      <3> HIDE DEF more
      <3>1. Cardinality(more) <= Cardinality(Spent(Cap(a)) \cup {a}) /\ IsFiniteSet(more)
        BY <2>3, <2>4, FS_Subset DEF more
      <3> QED
        BY <2>4, <3>1, SpentIsFinite, FS_CardinalityType
    <2>6. Cap(a)' = Cap(a)
      BY <1>2 DEF Cap
    <2>7. SpentIsCounted'
      <3>1. ASSUME NEW c \in Caps, MaxCalls[c] # 0
            PROVE  /\ Cardinality(Spent(c)') <= MaxCalls[c]
                   /\ c \in granted => Cardinality(Spent(c)') <= usageDisk'[c]
                   /\ Usable(c) => Cardinality(Spent(c)') <= usage'[c]
        <4>1. /\ Cardinality(Spent(c)) <= MaxCalls[c]
              /\ Usable(c) => Cardinality(Spent(c)) <= usage[c]
              /\ Cardinality(Spent(c)) \in Nat
          BY <3>1, SpentIsFinite DEF BudgetInv, SpentIsCounted
        <4>2. CASE c # Cap(a)
          BY <1>1, <1>5, <1>6, <2>1, <2>2, <4>1, <4>2
        <4>3. CASE c = Cap(a)
          <5>1. Cardinality(Spent(c)) <= usage[c] /\ usage[c] < MaxCalls[c]
            BY <1>1, <1>5, <2>1, <4>1, <4>3 DEF BudgetSpent
          <5>2. spent[c] = usage[c] + 1
            BY <1>1, <4>3
          <5> HIDE DEF spent
          <5>3. Cardinality(Spent(c)') <= Cardinality(Spent(c)) + 1 /\ Cardinality(Spent(c)') \in Nat
            BY <2>5, <2>6, <4>3
          <5> QED
            BY <1>1, <2>1, <4>1, <5>1, <5>2, <5>3
        <4> QED
          BY <4>2, <4>3
      <3> QED
        BY <1>2, <1>4, <3>1 DEF SpentIsCounted
    <2>8. ChargedHasArrived'
      BY <1>1, <1>2, <2>1 DEF BudgetInv, ChargedHasArrived, TypeOK
    <2> QED
      BY <2>7, <2>8 DEF BudgetInv
  <1> QED
    BY <1>7, <1>8

LEMMA BudgetStep == LockInv /\ BudgetInv /\ [Next]_vars => BudgetInv'
  <1> SUFFICES ASSUME LockInv, BudgetInv, [Next]_vars PROVE BudgetInv'
    OBVIOUS
  <1> TypeOK /\ CallKnown /\ DownIsQuiet /\ ChargedHasArrived
    BY DEF LockInv, TypeInv, BudgetInv
  <1> USE DEF lifecycle, calls, memory, approvals, files, history, Settle, GoTo
  <1>a. charged \subseteq Attempts
    BY DEF TypeOK
  (* One attempt that has arrived goes on.                                    *)
  <1>b. ASSUME NEW a \in Attempts, NEW s \in Stages \ {"idle"}, stage' = [stage EXCEPT ![a] = s],
               stage[a] \in {"idle", "done", "lost"} => s \in {"done", "lost"},
               UNCHANGED <<call, charged, usage, usageDisk, granted, broker>>
        PROVE  BudgetInv'
    <2>1. \A b \in charged : call'[b] = call[b] /\ stage'[b] # "idle"
      BY <1>a, <1>b DEF ChargedHasArrived, TypeOK
    <2>2. InFlight' \subseteq InFlight
      BY <1>b DEF InFlight, TypeOK
    <2>3. \A c \in Caps : Usable(c)' => Usable(c)
      BY <1>b, <2>2 DEF Usable, Cap
    <2> QED
      BY <1>b, <2>1, <2>3, BudgetQuiet
  <1>c. ASSUME UNCHANGED <<stage, call, charged, usage, usageDisk>>,
               granted' \subseteq granted, broker = "down" => broker' = "down"
        PROVE  BudgetInv'
    <2>1. \A c \in Caps : Usable(c)' => Usable(c)
      BY <1>c DEF Usable, InFlight, Cap
    <2> QED
      BY <1>a, <1>c, <2>1, BudgetQuiet DEF ChargedHasArrived
  <1>1. ASSUME NEW a \in Attempts, NEW save \in Saves,
               \/ TurnComes(a) \/ TurnTimesOut(a)
               \/ PrepareRefused(a) \/ PrepareAnswered(a) \/ PrepareReady(a) \/ PrepareGated(a)
               \/ Approved(a) \/ Denied(a) \/ LockedWhileAsking(a) \/ ApprovalTimesOut(a)
               \/ Resume(a) \/ TooLate(a) \/ OverBudget(a)
        PROVE  BudgetInv'
    <2>1. PICK s \in Stages \ {"idle"} :
            /\ stage' = [stage EXCEPT ![a] = s] /\ stage[a] \notin {"idle", "done", "lost"}
      BY <1>1
         DEF TurnComes, TurnTimesOut, PrepareRefused, PrepareAnswered, PrepareReady, PrepareGated,
             Approved, Denied, LockedWhileAsking, ApprovalTimesOut, Resume, TooLate, OverBudget,
             Stages
    <2>2. UNCHANGED <<call, charged, usage, usageDisk, granted, broker>>
      BY <1>1
         DEF TurnComes, TurnTimesOut, PrepareRefused, PrepareAnswered, PrepareReady, PrepareGated,
             Approved, Denied, LockedWhileAsking, ApprovalTimesOut, Resume, TooLate, OverBudget
    <2> QED
      BY <1>b, <2>1, <2>2
  <1>2. ASSUME NEW a \in Attempts, NEW save \in Saves,
               \/ Authorize(a, save) \/ ClearDenied(a) \/ ClearRead(a) \/ ClearWrite(a, save)
               \/ Send(a) \/ Answered(a, save) \/ Unsendable(a, save) \/ Close(a, save)
               \/ Disconnect(a)
        PROVE  BudgetInv'
    <2>1. PICK s \in Stages \ {"idle"} :
            /\ stage' = [stage EXCEPT ![a] = s] /\ stage[a] \notin {"idle", "done", "lost"}
      BY <1>2
         DEF Authorize, ClearDenied, ClearRead, ClearWrite, Send, Answered, Unsendable, Conclude,
             Close, Disconnect, Stages
    <2>2. UNCHANGED <<call, charged, usage, usageDisk, granted, broker>>
      BY <1>2
         DEF Authorize, ClearDenied, ClearRead, ClearWrite, Send, Answered, Unsendable, Conclude,
             Close, Disconnect
    <2> QED
      BY <1>b, <2>1, <2>2
  <1>3. ASSUME NEW a \in Attempts, NEW save \in Saves, ChargeCalls(a, save) PROVE BudgetInv'
    BY <1>3, BudgetCharge
  (* Only a call of a live grant is let in.                                   *)
  <1>4. ASSUME NEW a \in Attempts, NEW s \in Shapes, Arrive(a, s) PROVE BudgetInv'
    <2>1. /\ stage[a] = "idle" /\ stage'[a] \in {"done", "holding", "queued"}
          /\ stage'[a] # "done" => call'[a].cap \in granted
          /\ \A b \in Attempts \ {a} : stage'[b] = stage[b] /\ call'[b] = call[b]
          /\ UNCHANGED <<charged, usage, usageDisk, granted, broker>>
      BY <1>4 DEF Arrive, TypeOK
    <2>2. a \notin charged
      BY <2>1 DEF ChargedHasArrived
    <2>3. \A b \in InFlight' : (b \in InFlight /\ call'[b] = call[b]) \/ call'[b].cap \in granted
      BY <2>1 DEF InFlight
    <2>4. \A c \in Caps : Usable(c)' => Usable(c)
      BY <2>1, <2>3 DEF Usable, Cap
    <2> QED
      BY <1>a, <2>1, <2>2, <2>4, BudgetQuiet DEF ChargedHasArrived
  <1>5. ASSUME NEW q \in Attempts, Forget(q) \/ Decide(q, "approved") \/ Decide(q, "denied")
        PROVE  BudgetInv'
    BY <1>c, <1>5 DEF Forget, Decide
  <1>6. ASSUME NEW c \in Caps, Withdraw(c) \/ WindowEnds(c) PROVE BudgetInv'
    BY <1>c, <1>6 DEF Withdraw, WindowEnds
  <1>7. CASE RequestLock \/ Drain \/ StopSession
    BY <1>c, <1>7 DEF RequestLock, Drain, StopSession
  <1>8. CASE Drained \/ Crash
    <2>1. /\ broker' = "down" /\ UNCHANGED <<call, charged, usageDisk, granted>>
          /\ \A a \in Attempts : stage[a] # "idle" => stage'[a] # "idle"
      BY <1>8 DEF Drained, Crash, MemoryIsGone
    <2>2. \A c : Spent(c)' = Spent(c)
      BY <2>1 DEF Spent, Cap
    <2>3. SpentIsCounted'
      BY <2>1, <2>2 DEF BudgetInv, SpentIsCounted, Usable
    <2>4. ChargedHasArrived'
      BY <1>a, <2>1 DEF ChargedHasArrived
    <2> QED
      BY <2>3, <2>4 DEF BudgetInv
  (* A new process counts on from the file, and meets no older call.          *)
  <1>9. CASE Restart
    <2>1. /\ UNCHANGED <<stage, call, charged, usageDisk, granted>>
          /\ usage' = [c \in Caps |-> KeptUsage(c)] /\ InFlight = {}
      BY <1>9 DEF Restart, DownIsQuiet
    <2>2. \A c : Spent(c)' = Spent(c)
      BY <2>1 DEF Spent, Cap
    <2>3. \A c \in Caps : Usable(c)' => c \in granted
      BY <2>1 DEF Usable, InFlight
    <2>4. SpentIsCounted'
      BY <2>1, <2>2, <2>3 DEF BudgetInv, SpentIsCounted, KeptUsage
    <2>5. ChargedHasArrived'
      BY <2>1 DEF ChargedHasArrived
    <2> QED
      BY <2>4, <2>5 DEF BudgetInv
  <1>10. CASE UNCHANGED vars
    BY <1>c, <1>10 DEF vars
  <1> QED
    BY <1>1, <1>2, <1>3, <1>4, <1>5, <1>6, <1>7, <1>8, <1>9, <1>10 DEF Next, Step, Saves

LEMMA BudgetInit == Init => BudgetInv
  <1> SUFFICES ASSUME Init PROVE BudgetInv
    OBVIOUS
  <1>1. \A c : Spent(c) = {}
    BY DEF Init, Spent
  <1>2. \A c : Cardinality(Spent(c)) = 0
    BY <1>1, FS_EmptySet
  <1>3. \A c \in Caps : usage[c] = 0 /\ usageDisk[c] = 0 /\ MaxCalls[c] \in Nat
    BY GrantsAssumption DEF Init
  <1>4. SpentIsCounted
    BY <1>2, <1>3 DEF SpentIsCounted
  <1>5. ChargedHasArrived
    BY DEF Init, ChargedHasArrived
  <1> QED
    BY <1>4, <1>5 DEF BudgetInv

(* max_calls bounds what leaves under a capability, whatever number of broker *)
(* processes served it and whatever saves of the count failed.                *)
THEOREM BudgetsAreKept == Spec => []BudgetHolds
  <1>1. LockInv /\ PaidInv /\ BudgetInv => BudgetHolds
    <2> SUFFICES ASSUME LockInv, PaidInv, BudgetInv, NEW c \in Caps, MaxCalls[c] # 0
                 PROVE  Cardinality({a \in sent : Cap(a) = c}) <= MaxCalls[c]
      BY DEF BudgetHolds
    <2> DEFINE gone == {a \in sent : Cap(a) = c}
    <2>1. gone \subseteq Spent(c)
      BY DEF PaidInv, SentIsPaid, Spent
    <2>2. IsFiniteSet(Spent(c)) /\ Cardinality(Spent(c)) \in Nat
      BY SpentIsFinite DEF LockInv, TypeInv
    <2>3. Cardinality(gone) <= Cardinality(Spent(c)) /\ IsFiniteSet(gone)
      BY <2>1, <2>2, FS_Subset
    <2>4. Cardinality(gone) \in Nat
      BY <2>3, FS_CardinalityType
    <2>5. Cardinality(Spent(c)) <= MaxCalls[c] /\ MaxCalls[c] \in Nat
      BY GrantsAssumption DEF BudgetInv, SpentIsCounted
    <2> QED
      BY <2>2, <2>3, <2>4, <2>5
  <1>2. Spec => []BudgetInv
    BY BudgetInit, BudgetStep, RecordsAlways, PTL DEF Spec
  <1> QED
    BY <1>1, <1>2, RecordsAlways, PTL
-----------------------------------------------------------------------------
(* A call waits on a question about the very same call, and one that a person *)
(* has to allow goes on with a yes, which nobody takes back.                  *)
Late == {"requeued", "resumed", "ready", "charged", "authorized", "cleared"}
Asked(a) == ticket[a] \in Attempts /\ stage[ticket[a]] # "idle" /\ call[ticket[a]] = call[a]
Allowed(a) == Asked(a) /\ answer[ticket[a]] = "approved"
AskInv ==
    /\ \A q \in open : stage[q] # "idle"
    /\ \A a \in Attempts : stage[a] = "asking" => Asked(a)
    /\ \A a \in Attempts : stage[a] \in Late /\ IsGated(a) => Allowed(a)
    /\ \A a \in sent : IsGated(a) => Allowed(a)

LEMMA AskQuiet ==
    ASSUME LockInv, WriteInv, AskInv, UNCHANGED ticket, open' \subseteq open,
           sent' \subseteq sent \cup {a \in Attempts : stage[a] = "cleared"},
           \A q \in Attempts : answer[q] = "approved" => answer'[q] = "approved",
           \A a \in Attempts : stage[a] # "idle" => stage'[a] # "idle" /\ call'[a] = call[a],
           \A a \in Attempts : stage'[a] = "asking" => stage[a] = "asking",
           \A a \in Attempts : stage'[a] \in Late /\ stage[a] \notin Late =>
             stage[a] # "idle" /\ (IsGated(a) => Allowed(a))
    PROVE  AskInv'
  <1>1. /\ open \subseteq Attempts /\ sent \subseteq Attempts
        /\ \A a \in sent : stage[a] # "idle"
    BY DEF LockInv, TypeInv, TypeOK, WriteInv, SentIsLate
  <1>2. \A a \in Attempts : stage[a] # "idle" =>
          (Asked(a) => Asked(a)') /\ (Allowed(a) => Allowed(a)') /\ (IsGated(a)' => IsGated(a))
    BY DEF Asked, Allowed, IsGated
  <1>3. \A q \in open' : stage'[q] # "idle"
    BY <1>1 DEF AskInv
  <1>4. \A a \in Attempts : stage'[a] = "asking" => Asked(a)'
    BY <1>2 DEF AskInv
  <1>5. \A a \in Attempts : stage'[a] \in Late /\ IsGated(a)' => Allowed(a)'
    BY <1>2 DEF AskInv, Late
  <1>6. \A a \in sent' : IsGated(a)' => Allowed(a)'
    BY <1>1, <1>2 DEF AskInv, Late
  <1> QED
    BY <1>3, <1>4, <1>5, <1>6 DEF AskInv

LEMMA AskStep == LockInv /\ WriteInv /\ AskInv /\ [Next]_vars => AskInv'
  <1> SUFFICES ASSUME LockInv, WriteInv, AskInv, [Next]_vars PROVE AskInv'
    OBVIOUS
  <1> TypeOK /\ SentIsLate
    BY DEF LockInv, TypeInv, WriteInv
  <1> USE DEF lifecycle, calls, memory, approvals, files, history, Settle, GoTo
  <1>a. ASSUME NEW a \in Attempts, NEW s \in Stages \ {"idle", "asking"}, stage[a] # "idle",
               stage' = [stage EXCEPT ![a] = s],
               s \in Late => stage[a] \in Late \/ ~ IsGated(a) \/ Allowed(a),
               UNCHANGED <<call, ticket, open, answer>>,
               sent' \subseteq sent \cup {b \in Attempts : stage[b] = "cleared"}
        PROVE  AskInv'
    BY <1>a, AskQuiet DEF TypeOK
  <1>b. ASSUME UNCHANGED <<stage, call, ticket, sent>>, open' \subseteq open,
               \A q \in Attempts : answer[q] = "approved" => answer'[q] = "approved"
        PROVE  AskInv'
    BY <1>b, AskQuiet
  <1>1. ASSUME NEW a \in Attempts, NEW save \in Saves,
               \/ TurnComes(a) \/ TurnTimesOut(a)
               \/ PrepareRefused(a) \/ PrepareAnswered(a) \/ PrepareReady(a)
               \/ Denied(a) \/ ApprovalTimesOut(a) \/ Resume(a) \/ TooLate(a) \/ OverBudget(a)
        PROVE  AskInv'
    <2>1. PICK s \in Stages \ {"idle", "asking"} :
            /\ stage' = [stage EXCEPT ![a] = s] /\ stage[a] # "idle"
            /\ s \in Late => stage[a] \in Late \/ ~ IsGated(a)
      BY <1>1
         DEF TurnComes, TurnTimesOut, PrepareRefused, PrepareAnswered, PrepareReady, Denied,
             ApprovalTimesOut, Resume, TooLate, OverBudget, Stages, Late
    <2>2. UNCHANGED <<call, ticket, open, answer, sent>>
      BY <1>1
         DEF TurnComes, TurnTimesOut, PrepareRefused, PrepareAnswered, PrepareReady, Denied,
             ApprovalTimesOut, Resume, TooLate, OverBudget
    <2> QED
      BY <1>a, <2>1, <2>2
  <1>2. ASSUME NEW a \in Attempts, NEW save \in Saves,
               \/ ChargeCalls(a, save) \/ Authorize(a, save)
               \/ ClearDenied(a) \/ ClearRead(a) \/ ClearWrite(a, save) \/ Send(a)
               \/ Answered(a, save) \/ Unsendable(a, save) \/ Close(a, save) \/ Disconnect(a)
        PROVE  AskInv'
    <2>1. PICK s \in Stages \ {"idle", "asking"} :
            /\ stage' = [stage EXCEPT ![a] = s] /\ stage[a] # "idle"
            /\ s \in Late => stage[a] \in Late
      BY <1>2
         DEF ChargeCalls, Authorize, ClearDenied, ClearRead, ClearWrite, Send, Answered,
             Unsendable, Conclude, Close, Disconnect, Stages, Late
    <2>2. /\ UNCHANGED <<call, ticket, open, answer>>
          /\ sent' = sent \/ (stage[a] = "cleared" /\ sent' = sent \cup {a})
      BY <1>2
         DEF ChargeCalls, Authorize, ClearDenied, ClearRead, ClearWrite, Send, Answered,
             Unsendable, Conclude, Close, Disconnect
    <2> QED
      BY <1>a, <2>1, <2>2
  <1>3. ASSUME NEW a \in Attempts, Approved(a) PROVE AskInv'
    <2>1. Allowed(a)
      BY <1>3 DEF Approved, AskInv, Allowed
    <2>2. /\ stage[a] # "idle" /\ UNCHANGED <<call, ticket, open, answer, sent>>
          /\ \E s \in Stages \ {"idle", "asking"} : stage' = [stage EXCEPT ![a] = s]
      BY <1>3 DEF Approved, Stages
    <2> QED
      BY <1>a, <2>1, <2>2
  <1>4. ASSUME NEW a \in Attempts, LockedWhileAsking(a) PROVE AskInv'
    <2>1. /\ stage[a] = "asking" /\ stage' = [stage EXCEPT ![a] = "closing"] /\ open' = {}
          /\ \A q \in Attempts : answer[q] = "approved" => answer'[q] = "approved"
          /\ UNCHANGED <<call, ticket, sent>>
      BY <1>4 DEF LockedWhileAsking, DenyEverything, Unanswered
    <2> QED
      BY <2>1, AskQuiet DEF Late, TypeOK
  (* Asking: the question is one's own, or that of the same call.             *)
  <1>5. ASSUME NEW a \in Attempts, PrepareGated(a) PROVE AskInv'
    <2>1. /\ stage[a] = "holding" /\ stage' = [stage EXCEPT ![a] = "asking"]
          /\ UNCHANGED <<call, sent>> /\ Ask(a) /\ a \notin sent
      BY <1>5 DEF PrepareGated, SentIsLate
    <2>2. PICK q \in Attempts :
            /\ ticket' = [ticket EXCEPT ![a] = q] /\ stage[q] # "idle" /\ call[q] = call[a]
      BY <2>1 DEF Ask, SameQuestion, AskInv, TypeOK
    <2>3. open' \subseteq open \cup {a}
      BY <2>1 DEF Ask
    <2>4. \A r \in Attempts : answer[r] = "approved" => answer'[r] = "approved"
      BY <2>1 DEF Ask, Unanswered, TypeOK
    <2>5. /\ stage'[a] = "asking" /\ ticket'[a] = q
          /\ \A b \in Attempts \ {a} : stage'[b] = stage[b] /\ ticket'[b] = ticket[b]
          /\ \A b \in Attempts : stage[b] # "idle" => stage'[b] # "idle"
          /\ open \subseteq Attempts /\ sent \subseteq Attempts
      BY <2>1, <2>2 DEF TypeOK
    <2>6. \A b \in Attempts \ {a} : (Asked(b) => Asked(b)') /\ (Allowed(b) => Allowed(b)')
                                     /\ (IsGated(b)' => IsGated(b))
      BY <2>1, <2>4, <2>5 DEF Asked, Allowed, IsGated
    <2>7. Asked(a)'
      BY <2>1, <2>2, <2>5 DEF Asked
    <2>8. \A r \in open' : stage'[r] # "idle"
      BY <2>1, <2>3, <2>5 DEF AskInv
    <2> QED
      BY <2>1, <2>5, <2>6, <2>7, <2>8 DEF AskInv, Late
  <1>6. ASSUME NEW a \in Attempts, NEW s \in Shapes, Arrive(a, s) PROVE AskInv'
    <2>1. /\ stage[a] = "idle" /\ stage'[a] \in {"done", "holding", "queued"}
          /\ \A b \in Attempts \ {a} : stage'[b] = stage[b] /\ call'[b] = call[b]
          /\ UNCHANGED <<ticket, open, answer, sent>>
      BY <1>6 DEF Arrive, TypeOK
    <2> QED
      BY <2>1, AskQuiet DEF Late
  <1>7. ASSUME NEW q \in Attempts, Forget(q) \/ Decide(q, "approved") \/ Decide(q, "denied")
        PROVE  AskInv'
    <2>1. /\ UNCHANGED <<stage, call, ticket, sent>> /\ open' \subseteq open
          /\ \A r \in Attempts : answer[r] = "approved" => answer'[r] = "approved"
      BY <1>7 DEF Forget, Decide, Unanswered, TypeOK
    <2> QED
      BY <1>b, <2>1
  <1>8. ASSUME NEW c \in Caps, Withdraw(c) \/ WindowEnds(c) PROVE AskInv'
    BY <1>b, <1>8 DEF Withdraw, WindowEnds
  <1>9. CASE RequestLock \/ Drain \/ Drained \/ Restart \/ UNCHANGED vars
    BY <1>b, <1>9 DEF RequestLock, Drain, Drained, MemoryIsGone, Restart, vars
  <1>10. CASE StopSession
    BY <1>b, <1>10 DEF StopSession, DenyEverything, Unanswered
  <1>11. CASE Crash
    <2>1. /\ \A a \in Attempts : stage'[a] = (IF a \in InFlight THEN "lost" ELSE stage[a])
          /\ open' = {} /\ UNCHANGED <<call, ticket, answer, sent>>
      BY <1>11 DEF Crash, MemoryIsGone
    <2> QED
      BY <2>1, AskQuiet DEF Late, InFlight
  <1> QED
    BY <1>1, <1>2, <1>3, <1>4, <1>5, <1>6, <1>7, <1>8, <1>9, <1>10, <1>11 DEF Next, Step, Saves

(* A gated call leaves only on a person's yes to exactly this call.           *)
THEOREM AYesIsNeeded == Spec => []GatedNeedsAYes
  <1>1. AskInv => GatedNeedsAYes
    BY ShapesAssumption DEF AskInv, Allowed, Asked, IsGated, Cap, GatedNeedsAYes
  <1>2. Init => AskInv
    BY DEF Init, AskInv, Late
  <1> QED
    BY <1>1, <1>2, AskStep, RecordsAlways, PTL DEF Spec
-----------------------------------------------------------------------------
(* Every step of the gateway is one of the approval queue, or none.           *)
AskedOf == [a \in Attempts |-> IF ticket[a] = NoAttempt THEN NoShape ELSE call[a]]
NotYet == {"idle", "queued", "holding"}
TicketInv ==
    /\ \A a \in Attempts : stage[a] \in NotYet => ticket[a] = NoAttempt
    /\ \A q \in open : ticket[q] # NoAttempt

(* A step that asks nothing: the questions stay as they are but for those     *)
(* that are forgotten.                                                        *)
LEMMA TicketQuiet ==
    ASSUME LockInv, TicketInv, UNCHANGED <<ticket, answer>>, open' \subseteq open,
           \A a \in Attempts : stage'[a] \in NotYet => stage[a] \in NotYet,
           \A a \in Attempts : stage[a] \notin NotYet => call'[a] = call[a]
    PROVE  TicketInv' /\ (ApprovalPart!Forget \/ UNCHANGED <<AskedOf, ticket, open, answer>>)
  <1>1. TicketInv'
    BY DEF TicketInv
  <1>2. AskedOf' = AskedOf
    BY DEF TicketInv, AskedOf
  <1>3. open' = open \ (open \ open')
    OBVIOUS
  <1> QED
    BY <1>1, <1>2, <1>3 DEF ApprovalPart!Forget, AskedOf

LEMMA TicketAsk ==
    ASSUME LockInv, TicketInv, NEW a \in Attempts, NEW k \in Shapes, call[a] = k,
           PrepareGated(a)
    PROVE  TicketInv' /\ ApprovalPart!Ask(a, k)
  <1> USE DEF lifecycle, calls, memory, approvals, files, history, Settle, GoTo
  <1>1. /\ stage[a] = "holding" /\ stage' = [stage EXCEPT ![a] = "asking"] /\ Ask(a)
        /\ UNCHANGED call
    BY DEF PrepareGated
  <1>2. /\ ticket \in [Attempts -> Attempts \cup {NoAttempt}] /\ open \subseteq Attempts
        /\ ticket[a] = NoAttempt /\ stage \in [Attempts -> Stages]
    BY <1>1 DEF TicketInv, NotYet, LockInv, TypeInv, TypeOK
  <1>3. /\ {q \in open : AskedOf[q] = k} = {q \in open : SameQuestion(q, a)}
    BY <1>2 DEF TicketInv, AskedOf, SameQuestion
  <1>4. PICK q \in Attempts : ticket' = [ticket EXCEPT ![a] = q]
    BY <1>1, <1>2 DEF Ask
  <1>5. AskedOf' = [AskedOf EXCEPT ![a] = k]
    BY <1>1, <1>2, <1>4, ShapesAssumption DEF AskedOf
  <1>6. TicketInv'
    <2>1. open' \subseteq open \cup {a}
      BY <1>1 DEF Ask
    <2> QED
      BY <1>1, <1>2, <1>4, <2>1, ShapesAssumption DEF TicketInv, NotYet
  <1>7. ApprovalPart!Ask(a, k)
    <2> DEFINE same(held) == {r \in held : AskedOf[r] = k}
               Joins(held) == \E r \in same(held) :
                 /\ ticket' = [ticket EXCEPT ![a] = r]
                 /\ open' = IF answer[r] = "none" THEN held ELSE held \ {r}
                 /\ UNCHANGED answer
               Raises(held) ==
                 /\ same(held) = {}
                 /\ ticket' = [ticket EXCEPT ![a] = a]
                 /\ \/ open' = held \cup {a} /\ UNCHANGED answer
                    \/ \E r \in Unanswered(held \cup {a}) :
                         /\ open' = (held \cup {a}) \ {r}
                         /\ answer' = [answer EXCEPT ![r] = "denied"]
    <2>1. Joins(open) \/ Raises(open)
      BY <1>1, <1>3 DEF Ask
    <2>2. \E gone \in SUBSET open : Joins(open \ gone) \/ Raises(open \ gone)
      <3>1. {} \in SUBSET open /\ open \ {} = open
        OBVIOUS
      <3> HIDE DEF Joins, Raises
      <3> QED
        BY <2>1, <3>1
    <2> QED
      BY <1>2, <1>5, <2>2
         DEF Unanswered, ApprovalPart!Ask, ApprovalPart!Unanswered, AskedOf
  <1> QED
    BY <1>6, <1>7

LEMMA TicketStep ==
    ASSUME LockInv, TicketInv, [Next]_vars
    PROVE  TicketInv' /\ (ApprovalPart!Next \/ UNCHANGED <<AskedOf, ticket, open, answer>>)
  <1> DEFINE Goal == /\ TicketInv'
                     /\ ApprovalPart!Next \/ UNCHANGED <<AskedOf, ticket, open, answer>>
  <1> TypeOK /\ CallKnown
    BY DEF LockInv, TypeInv
  <1> USE DEF lifecycle, calls, memory, approvals, files, history, Settle, GoTo
  <1>a. ASSUME UNCHANGED <<ticket, answer>>, open' \subseteq open,
               \A a \in Attempts : stage'[a] \in NotYet => stage[a] \in NotYet,
               \A a \in Attempts : stage[a] \notin NotYet => call'[a] = call[a]
        PROVE  Goal
    BY <1>a, TicketQuiet DEF ApprovalPart!Next
  <1>b. ASSUME NEW a \in Attempts, NEW s \in Stages, stage' = [stage EXCEPT ![a] = s],
               s \in NotYet => stage[a] \in NotYet,
               UNCHANGED <<call, ticket, open, answer>>
        PROVE  Goal
    BY <1>a, <1>b DEF TypeOK
  <1>c. ASSUME DenyEverything, UNCHANGED call,
               \A a \in Attempts : stage'[a] \in NotYet => stage[a] \in NotYet
        PROVE  Goal
    <2>1. TicketInv' /\ AskedOf' = AskedOf
      BY <1>c DEF DenyEverything, TicketInv, AskedOf
    <2> QED
      BY <1>c, <2>1
         DEF DenyEverything, Unanswered, AskedOf, ApprovalPart!Next, ApprovalPart!DenyAll,
             ApprovalPart!Unanswered
  <1>1. ASSUME NEW a \in Attempts, NEW save \in Saves,
               \/ TurnComes(a) \/ TurnTimesOut(a)
               \/ PrepareRefused(a) \/ PrepareAnswered(a) \/ PrepareReady(a)
               \/ Approved(a) \/ Denied(a) \/ ApprovalTimesOut(a)
               \/ Resume(a) \/ TooLate(a) \/ OverBudget(a)
        PROVE  Goal
    <2>1. PICK s \in Stages :
            stage' = [stage EXCEPT ![a] = s] /\ (s \in NotYet => stage[a] \in NotYet)
      BY <1>1
         DEF TurnComes, TurnTimesOut, PrepareRefused, PrepareAnswered, PrepareReady, Approved,
             Denied, ApprovalTimesOut, Resume, TooLate, OverBudget, Stages, NotYet
    <2>2. UNCHANGED <<call, ticket, open, answer>>
      BY <1>1
         DEF TurnComes, TurnTimesOut, PrepareRefused, PrepareAnswered, PrepareReady, Approved,
             Denied, ApprovalTimesOut, Resume, TooLate, OverBudget
    <2> QED
      BY <1>b, <2>1, <2>2
  <1>2. ASSUME NEW a \in Attempts, NEW save \in Saves,
               \/ ChargeCalls(a, save) \/ Authorize(a, save)
               \/ ClearDenied(a) \/ ClearRead(a) \/ ClearWrite(a, save) \/ Send(a)
               \/ Answered(a, save) \/ Unsendable(a, save) \/ Close(a, save) \/ Disconnect(a)
        PROVE  Goal
    <2>1. PICK s \in Stages : stage' = [stage EXCEPT ![a] = s] /\ s \notin NotYet
      BY <1>2
         DEF ChargeCalls, Authorize, ClearDenied, ClearRead, ClearWrite, Send, Answered,
             Unsendable, Conclude, Close, Disconnect, Stages, NotYet
    <2>2. UNCHANGED <<call, ticket, open, answer>>
      BY <1>2
         DEF ChargeCalls, Authorize, ClearDenied, ClearRead, ClearWrite, Send, Answered,
             Unsendable, Conclude, Close, Disconnect
    <2> QED
      BY <1>b, <2>1, <2>2
  <1>3. ASSUME NEW a \in Attempts, LockedWhileAsking(a) PROVE Goal
    <2>1. /\ DenyEverything /\ UNCHANGED call
          /\ \A b \in Attempts : stage'[b] \in NotYet => stage[b] \in NotYet
      BY <1>3 DEF LockedWhileAsking, NotYet, TypeOK
    <2> QED
      BY <1>c, <2>1
  <1>4. ASSUME NEW a \in Attempts, PrepareGated(a) PROVE Goal
    <2>1. PICK k \in Shapes : call[a] = k
      BY <1>4 DEF PrepareGated, CallKnown
    <2> QED
      BY <1>4, <2>1, TicketAsk DEF ApprovalPart!Next
  <1>5. ASSUME NEW a \in Attempts, NEW s \in Shapes, Arrive(a, s) PROVE Goal
    <2>1. /\ stage[a] = "idle" /\ UNCHANGED <<ticket, open, answer>>
          /\ \A b \in Attempts \ {a} : stage'[b] = stage[b] /\ call'[b] = call[b]
      BY <1>5 DEF Arrive, TypeOK
    <2> QED
      BY <1>a, <2>1 DEF NotYet
  <1>6. ASSUME NEW q \in Attempts, Forget(q) PROVE Goal
    BY <1>a, <1>6 DEF Forget
  <1>7. ASSUME NEW q \in Attempts, NEW d \in {"approved", "denied"}, Decide(q, d) PROVE Goal
    <2>1. /\ q \in Unanswered(open) /\ answer' = [answer EXCEPT ![q] = d]
          /\ UNCHANGED <<stage, call, open, ticket>>
      BY <1>7 DEF Decide
    <2>2. TicketInv' /\ AskedOf' = AskedOf
      BY <2>1 DEF TicketInv, AskedOf
    <2>3. \E gone \in SUBSET (open \ {q}) : open' = open \ gone
      <3>1. {} \in SUBSET (open \ {q}) /\ open' = open \ {}
        BY <2>1
      <3> QED
        BY <3>1
    <2>4. ApprovalPart!Decide(q, d)
      BY <2>1, <2>2, <2>3
         DEF Unanswered, AskedOf, ApprovalPart!Decide, ApprovalPart!Unanswered
    <2> QED
      BY <2>2, <2>4 DEF ApprovalPart!Next, ApprovalPart!Decisions
  <1>8. ASSUME NEW c \in Caps, Withdraw(c) \/ WindowEnds(c) PROVE Goal
    BY <1>a, <1>8 DEF Withdraw, WindowEnds
  <1>9. CASE RequestLock \/ Drain \/ Drained \/ Restart \/ UNCHANGED vars
    BY <1>a, <1>9 DEF RequestLock, Drain, Drained, MemoryIsGone, Restart, vars
  <1>10. CASE StopSession
    BY <1>c, <1>10 DEF StopSession
  <1>11. CASE Crash
    <2>1. /\ \A a \in Attempts : stage'[a] = (IF a \in InFlight THEN "lost" ELSE stage[a])
          /\ open' = {} /\ UNCHANGED <<call, ticket, answer>>
      BY <1>11 DEF Crash, MemoryIsGone
    <2> QED
      BY <1>a, <2>1 DEF NotYet
  <1> QED
    BY <1>1, <1>2, <1>3, <1>4, <1>5, <1>6, <1>7, <1>8, <1>9, <1>10, <1>11 DEF Next, Step, Saves

(* The gateway uses the approval queue only as Approvals allows: it never     *)
(* answers a question itself, and no attempt asks twice.                      *)
THEOREM ApprovalsAreUsedAsPromised == Spec => ApprovalsUsedAsPromised
  <1>1. Init => TicketInv /\ ApprovalPart!Init
    BY DEF Init, TicketInv, ApprovalPart!Init
  <1>2. LockInv /\ TicketInv /\ [Next]_vars => TicketInv' /\ [ApprovalPart!Next]_(ApprovalPart!vars)
    BY TicketStep DEF AskedOf, ApprovalPart!vars
  <1> QED
    BY <1>1, <1>2, RecordsAlways, PTL DEF Spec, ApprovalsUsedAsPromised, ApprovalPart!Spec
=============================================================================
