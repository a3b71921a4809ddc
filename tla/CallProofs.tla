----------------------------- MODULE CallProofs -----------------------------
(* What a call meets on its way, proved: the queue of approvals for any       *)
(* number of callers and any size, and the bridge for any lengths of the      *)
(* waits.                                                                     *)
EXTENDS ApprovalQueue, Bridge, TLAPS

-----------------------------------------------------------------------------
(* The queue.                                                                 *)

(* A question that the queue holds was raised by the attempt it is named      *)
(* after, and its slot says whether it has an answer.                         *)
SlotsAgree ==
    \A q \in DOMAIN slots :
      /\ ticket[q] = q
      /\ slots[q].answered <=> answer[q] # "none"

(* Who has not asked has no ticket, and nobody reads or answers it.           *)
IdleIsBlank ==
    \A a \in Attempts :
      phase[a] = "idle" => ticket[a] = NoAttempt /\ answer[a] = "none" /\ a \notin DOMAIN slots

(* Who has asked holds the ticket of an attempt that asked about the same.    *)
TicketsMatch ==
    \A a \in Attempts :
      phase[a] # "idle" =>
        /\ ticket[a] \in Attempts /\ phase[ticket[a]] # "idle"
        /\ key[ticket[a]] = key[a]

(* A yes in the cell of a question is a person's, and what a call came back   *)
(* with is still in the cell it was read from.                                *)
AnswersStand ==
    /\ \A q \in Attempts : answer[q] = "approved" => said[q] = "approved"
    /\ \A a \in Attempts : phase[a] \in Decisions => answer[ticket[a]] = phase[a]

(* The slot a call waits on is no older than the call has waited.             *)
WaitersAreHeld ==
    \A a \in Attempts :
      Asking(a) /\ answer[ticket[a]] = "none" =>
        /\ ticket[a] \in DOMAIN slots
        /\ slots[ticket[a]].age + left[a] <= Wait

(* The queue holds one question about a call at most.                         *)
KeysDiffer ==
    \A p, q \in DOMAIN slots : key[p] = key[q] => p = q

(* An answer that is owed is in the queue, as old as the debt, or a call that *)
(* spent it is about to read it.                                              *)
OwedIsHeld ==
    \A q \in Attempts :
      owed[q] < AnswerTtl =>
        /\ answer[q] # "none" /\ answer[q] = said[q]
        /\ \/ q \in DOMAIN slots /\ slots[q].age = owed[q]
           \/ \E b \in Attempts : ticket[b] = q /\ phase[b] = "waiting"

QueueInv ==
    /\ TypeOK /\ SlotsAgree /\ IdleIsBlank /\ TicketsMatch /\ AnswersStand
    /\ WaitersAreHeld /\ KeysDiffer /\ OwedIsHeld

-----------------------------------------------------------------------------
(* The queue after pruning: some of the slots, as they were, and among them   *)
(* every unanswered one that is young enough.                                 *)
LEMMA PruneShape ==
    ASSUME TypeOK
    PROVE  LET s == Prune(slots)
           IN  /\ DOMAIN s \subseteq DOMAIN slots /\ s \in [DOMAIN s -> Slot]
               /\ \A q \in DOMAIN s : s[q] = slots[q]
               /\ \A q \in DOMAIN slots :
                    ~ slots[q].answered /\ slots[q].age < Linger => q \in DOMAIN s
BY DEF Prune, Restrict, Fresh, TypeOK

LEMMA WithoutShape ==
    ASSUME NEW s, NEW q
    PROVE  /\ DOMAIN Without(s, q) = DOMAIN s \ {q}
           /\ \A p \in DOMAIN s \ {q} : Without(s, q)[p] = s[p]
           /\ s \in [DOMAIN s -> Slot] => Without(s, q) \in [DOMAIN s \ {q} -> Slot]
BY DEF Without, Restrict

LEMMA RefreshShape ==
    ASSUME NEW s, s \in [DOMAIN s -> Slot], NEW q \in DOMAIN s
    PROVE  LET r == RefreshSlot(s, q)
           IN  /\ DOMAIN r = DOMAIN s /\ r \in [DOMAIN s -> Slot]
               /\ \A p \in DOMAIN s \ {q} : r[p] = s[p]
               /\ r[q].age = 0 /\ r[q].answered = s[q].answered /\ r[q].id = s[q].id
BY DEF RefreshSlot, Slot

(* A slot that somebody waits on survives the pruning.                        *)
LEMMA WaitedOnIsKept ==
    ASSUME QueueInv, NEW a \in Attempts, Asking(a), answer[ticket[a]] = "none"
    PROVE  /\ ticket[a] \in DOMAIN Prune(slots)
           /\ ~ slots[ticket[a]].answered
<1> DEFINE q == ticket[a]
<1>1. q \in DOMAIN slots /\ slots[q].age + left[a] <= Wait BY DEF QueueInv, WaitersAreHeld
<1>2. ~ slots[q].answered BY <1>1 DEF QueueInv, SlotsAgree
<1>3. slots[q].age \in Nat /\ left[a] \in 0..Wait BY <1>1 DEF QueueInv, TypeOK, Slot
<1>4. slots[q].age < Linger BY <1>1, <1>3, BoundsAssumption
<1>5. QED BY <1>1, <1>2, <1>4, PruneShape DEF QueueInv

(* So does one that holds an answer still owed.                               *)
LEMMA OwedIsKept ==
    ASSUME QueueInv, NEW q \in DOMAIN slots, slots[q].age = owed[q], owed[q] < AnswerTtl
    PROVE  q \in DOMAIN Prune(slots) /\ slots[q].answered
<1>1. q \in Attempts BY DEF QueueInv, TypeOK
<1>2. slots[q].answered BY <1>1 DEF QueueInv, OwedIsHeld, SlotsAgree
<1>3. QED BY <1>2 DEF Prune, Restrict, Fresh

LEMMA InitQueueInv == Init => QueueInv
<1> SUFFICES ASSUME Init PROVE QueueInv
  OBVIOUS
<1> USE DEF Init
<1>1. TypeOK
  <2>1. DOMAIN slots = {} /\ slots \in [DOMAIN slots -> Slot] OBVIOUS
  <2>2. left \in [Attempts -> 0..Wait] BY BoundsAssumption
  <2>3. owed \in [Attempts -> 0..AnswerTtl] BY BoundsAssumption
  <2>4. QED BY <2>1, <2>2, <2>3 DEF TypeOK, Answers, Phases
<1>2. SlotsAgree BY DEF SlotsAgree
<1>3. IdleIsBlank BY DEF IdleIsBlank
<1>4. TicketsMatch BY DEF TicketsMatch
<1>5. AnswersStand BY DEF AnswersStand, Decisions
<1>6. WaitersAreHeld BY DEF WaitersAreHeld, Asking, Turns
<1>7. KeysDiffer BY DEF KeysDiffer
<1>8. OwedIsHeld BY BoundsAssumption DEF OwedIsHeld
<1>9. QED BY <1>1, <1>2, <1>3, <1>4, <1>5, <1>6, <1>7, <1>8 DEF QueueInv

(* ask finds the question it would put: it shares the slot, or spends it.     *)
LEMMA ReuseStep ==
    ASSUME QueueInv, NEW a \in Attempts, NEW k \in Keys, NEW t \in 0..Wait,
           NEW q \in DOMAIN Prune(slots), SameCall(q, k), Reuse(a, Prune(slots), q),
           phase[a] = "idle",
           key' = [key EXCEPT ![a] = k], left' = [left EXCEPT ![a] = t],
           phase' = [phase EXCEPT ![a] = "waiting"], UNCHANGED <<marker, said, owed>>
    PROVE  QueueInv'
<1> DEFINE s == Prune(slots)
<1> USE DEF QueueInv, Reuse
<1>0. TypeOK OBVIOUS
<1>1. /\ DOMAIN s \subseteq DOMAIN slots /\ s \in [DOMAIN s -> Slot]
      /\ \A p \in DOMAIN s : s[p] = slots[p]
  BY <1>0, PruneShape
<1>2. q \in DOMAIN s /\ q \in Attempts /\ q \in DOMAIN slots BY <1>1 DEF TypeOK
<1>3. /\ DOMAIN slots' \subseteq DOMAIN s /\ slots' \in [DOMAIN slots' -> Slot]
      /\ \A p \in DOMAIN slots' : slots'[p].answered = slots[p].answered
      /\ \A p \in DOMAIN slots' : p # q => slots'[p] = slots[p]
      /\ \A p \in DOMAIN s : p # q => p \in DOMAIN slots'
      /\ ~ slots[q].answered => q \in DOMAIN slots' /\ slots'[q].age = 0
  <2>1. CASE s[q].answered
    <3>1. slots' = Without(s, q) BY <2>1
    <3> HIDE DEF s, QueueInv, Reuse
    <3>2. /\ DOMAIN slots' = DOMAIN s \ {q} /\ slots' \in [DOMAIN s \ {q} -> Slot]
          /\ \A p \in DOMAIN s \ {q} : slots'[p] = s[p]
      BY <1>1, <3>1, WithoutShape
    <3>3. QED BY <1>1, <1>2, <2>1, <3>2
  <2>2. CASE ~ s[q].answered
    <3>1. slots' = RefreshSlot(s, q) BY <2>2
    <3> HIDE DEF s, QueueInv, Reuse
    <3>2. /\ DOMAIN slots' = DOMAIN s /\ slots' \in [DOMAIN s -> Slot]
          /\ \A p \in DOMAIN s \ {q} : slots'[p] = s[p]
          /\ slots'[q].age = 0 /\ slots'[q].answered = s[q].answered
      BY <1>1, <1>2, <3>1, RefreshShape
    <3>3. QED BY <1>1, <1>2, <2>2, <3>2
  <2>3. QED BY <2>1, <2>2
<1>4. ticket[a] = NoAttempt /\ answer[a] = "none" /\ a \notin DOMAIN slots BY DEF IdleIsBlank
<1>5. a # q /\ phase[q] # "idle" BY <1>2, <1>4 DEF IdleIsBlank
<1>6. key[q] = k BY DEF SameCall
<1>7. TypeOK'
  BY <1>1, <1>2, <1>3 DEF TypeOK, Phases, Turns
<1>8. SlotsAgree' BY <1>1, <1>3, <1>4 DEF SlotsAgree, TypeOK
<1>9. IdleIsBlank' BY <1>1, <1>3 DEF IdleIsBlank, TypeOK
<1>10. TicketsMatch' BY <1>2, <1>5, <1>6 DEF TicketsMatch, TypeOK
<1>11. AnswersStand' BY <1>4 DEF AnswersStand, TypeOK, Decisions
<1>12. WaitersAreHeld'
  <2> SUFFICES ASSUME NEW b \in Attempts, Asking(b)', answer[ticket'[b]] = "none"
               PROVE  ticket'[b] \in DOMAIN slots' /\ slots'[ticket'[b]].age + left'[b] <= Wait
    BY DEF WaitersAreHeld
  <2>0. left'[b] \in 0..Wait /\ Wait \in Nat BY BoundsAssumption DEF TypeOK
  <2>1. CASE ticket'[b] = q
    <3>1. ~ slots[q].answered BY <1>2, <2>1 DEF SlotsAgree
    <3>2. QED BY <1>3, <2>0, <2>1, <3>1
  <2>2. CASE ticket'[b] # q
    <3>1. b # a BY <2>2 DEF TypeOK
    <3>2. Asking(b) /\ ticket'[b] = ticket[b] /\ left'[b] = left[b] BY <3>1 DEF TypeOK, Asking
    <3>3. ticket[b] \in DOMAIN s BY <3>2, WaitedOnIsKept
    <3>4. slots[ticket[b]].age + left[b] <= Wait BY <3>2 DEF WaitersAreHeld
    <3>5. QED BY <1>3, <2>2, <3>2, <3>3, <3>4
  <2>3. QED BY <2>1, <2>2
<1>13. KeysDiffer' BY <1>1, <1>3, <1>4 DEF KeysDiffer, TypeOK
<1>14. OwedIsHeld'
  <2> SUFFICES ASSUME NEW p \in Attempts, owed[p] < AnswerTtl
               PROVE  /\ answer[p] # "none" /\ answer[p] = said[p]
                      /\ \/ p \in DOMAIN slots' /\ slots'[p].age = owed[p]
                         \/ \E b \in Attempts : ticket'[b] = p /\ phase'[b] = "waiting"
    BY DEF OwedIsHeld
  <2>1. answer[p] # "none" /\ answer[p] = said[p] BY DEF OwedIsHeld
  <2>2. ticket'[a] = q /\ phase'[a] = "waiting" BY DEF TypeOK
  <2>3. CASE p = q BY <2>1, <2>2, <2>3
  <2>4. CASE p # q /\ p \in DOMAIN slots /\ slots[p].age = owed[p]
    <3>1. p \in DOMAIN s BY <2>4, OwedIsKept
    <3>2. QED BY <1>3, <2>1, <2>4, <3>1
  <2>5. ASSUME NEW b \in Attempts, ticket[b] = p, phase[b] = "waiting"
        PROVE  ticket'[b] = p /\ phase'[b] = "waiting"
    BY <2>5 DEF TypeOK
  <2>6. QED BY <2>1, <2>3, <2>4, <2>5 DEF OwedIsHeld
<1>15. QED BY <1>7, <1>8, <1>9, <1>10, <1>11, <1>12, <1>13, <1>14

(* ask raises a question of its own; who loses his place for it is told so.   *)
LEMMA RaiseStep ==
    ASSUME QueueInv, NEW a \in Attempts, NEW k \in Keys, NEW t \in 0..Wait,
           Raise(a, Pushed(Prune(slots), a)),
           \A q \in DOMAIN Prune(slots) : ~ SameCall(q, k),
           phase[a] = "idle",
           key' = [key EXCEPT ![a] = k], left' = [left EXCEPT ![a] = t],
           phase' = [phase EXCEPT ![a] = "waiting"], UNCHANGED <<marker, said, owed>>
    PROVE  QueueInv'
<1> DEFINE s == Prune(slots)
           r == Pushed(s, a)
<1> USE DEF QueueInv
<1>0. TypeOK OBVIOUS
<1>1. /\ DOMAIN s \subseteq DOMAIN slots /\ s \in [DOMAIN s -> Slot]
      /\ \A p \in DOMAIN s : s[p] = slots[p]
  BY <1>0, PruneShape
<1>2. ticket[a] = NoAttempt /\ answer[a] = "none" /\ a \notin DOMAIN slots BY DEF IdleIsBlank
<1>3. /\ DOMAIN r = DOMAIN s \cup {a} /\ r \in [DOMAIN s \cup {a} -> Slot]
      /\ \A p \in DOMAIN s : r[p] = slots[p]
      /\ r[a].age = 0 /\ ~ r[a].answered
  <2>1. a \notin DOMAIN s /\ next_id \in Nat BY <1>1, <1>2 DEF TypeOK
  <2>2. r = Pushed(s, a) OBVIOUS
  <2> HIDE DEF s, r, QueueInv
  <2>3. /\ DOMAIN r = DOMAIN s \cup {a} /\ r \in [DOMAIN s \cup {a} -> Slot]
        /\ \A p \in DOMAIN s : r[p] = s[p]
        /\ r[a].age = 0 /\ ~ r[a].answered
    BY <1>1, <2>1, <2>2 DEF Pushed, Slot
  <2>4. QED BY <1>1, <2>3
<1>4. /\ next_id' = next_id + 1 /\ ticket' = [ticket EXCEPT ![a] = a]
      /\ DOMAIN slots' \subseteq DOMAIN r /\ slots' \in [DOMAIN slots' -> Slot]
      /\ \A p \in DOMAIN slots' : slots'[p] = r[p]
      /\ answer' \in [Attempts -> Answers]
      /\ \A p \in DOMAIN r : p \in DOMAIN slots' \/ answer'[p] = "denied"
      /\ \A p \in DOMAIN slots' : answer'[p] = answer[p]
      /\ \A p \in Attempts :
           answer'[p] # answer[p] => p \in DOMAIN r /\ ~ r[p].answered /\ answer'[p] = "denied"
  <2> HIDE DEF r
  <2>0. DOMAIN r \subseteq Attempts BY <1>1, <1>3 DEF TypeOK
  <2>1. CASE slots' = r /\ answer' = answer
    <3>1. answer \in [Attempts -> Answers] BY <1>0 DEF TypeOK
    <3>2. next_id' = next_id + 1 /\ ticket' = [ticket EXCEPT ![a] = a] BY DEF Raise, r
    <3> HIDE DEF QueueInv
    <3>3. QED BY <1>3, <2>1, <3>1, <3>2
  <2>2. ASSUME NEW q \in Victims(r), slots' = Without(r, q), answer' = [answer EXCEPT ![q] = "denied"]
        PROVE  <1>4
    <3>1. q \in DOMAIN r /\ ~ r[q].answered BY DEF Victims, Unanswered
    <3> HIDE DEF QueueInv
    <3>2. /\ DOMAIN slots' = DOMAIN r \ {q} /\ slots' \in [DOMAIN r \ {q} -> Slot]
          /\ \A p \in DOMAIN r \ {q} : slots'[p] = r[p]
      BY <1>3, <2>2, WithoutShape
    <3>3. answer \in [Attempts -> Answers] BY <1>0 DEF TypeOK
    <3>4. next_id' = next_id + 1 /\ ticket' = [ticket EXCEPT ![a] = a] BY DEF Raise, r
    <3>5. QED BY <2>0, <2>2, <3>1, <3>2, <3>3, <3>4 DEF Answers, Decisions
  <2>3. QED BY <2>1, <2>2 DEF Raise, r
<1>5. TypeOK'
  <2>1. DOMAIN slots' \subseteq Attempts BY <1>1, <1>3, <1>4 DEF TypeOK
  <2>2. QED BY <1>4, <2>1 DEF TypeOK, Phases, Turns
<1>6. \A p \in DOMAIN r : answer[p] # "none" <=> r[p].answered
  BY <1>1, <1>2, <1>3 DEF SlotsAgree
<1>7. SlotsAgree'
  <2> SUFFICES ASSUME NEW q \in DOMAIN slots'
               PROVE  ticket'[q] = q /\ (slots'[q].answered <=> answer'[q] # "none")
    BY DEF SlotsAgree
  <2>1. slots'[q] = r[q] /\ answer'[q] = answer[q] /\ q \in DOMAIN r BY <1>4
  <2>2. ticket'[q] = q BY <1>1, <1>3, <1>4, <2>1 DEF SlotsAgree, TypeOK
  <2>3. QED BY <1>6, <2>1, <2>2
<1>8. IdleIsBlank'
  <2> SUFFICES ASSUME NEW b \in Attempts, phase'[b] = "idle"
               PROVE  ticket'[b] = NoAttempt /\ answer'[b] = "none" /\ b \notin DOMAIN slots'
    BY DEF IdleIsBlank
  <2>1. b # a /\ phase[b] = "idle" BY DEF TypeOK
  <2>2. ticket[b] = NoAttempt /\ answer[b] = "none" /\ b \notin DOMAIN r
    BY <1>1, <1>3, <2>1 DEF IdleIsBlank
  <2>3. ticket'[b] = ticket[b] BY <1>4, <2>1 DEF TypeOK
  <2>4. answer'[b] = answer[b] BY <1>4, <2>2
  <2>5. QED BY <1>4, <2>2, <2>3, <2>4
<1>9. TicketsMatch'
  <2> SUFFICES ASSUME NEW b \in Attempts, phase'[b] # "idle"
               PROVE  /\ ticket'[b] \in Attempts /\ phase'[ticket'[b]] # "idle"
                      /\ key'[ticket'[b]] = key'[b]
    BY DEF TicketsMatch
  <2>1. CASE b = a BY <1>4, <2>1 DEF TypeOK
  <2>2. CASE b # a
    <3>1. ticket'[b] = ticket[b] /\ phase[b] # "idle" BY <1>4, <2>2 DEF TypeOK
    <3>2. ticket[b] \in Attempts /\ phase[ticket[b]] # "idle" /\ key[ticket[b]] = key[b]
      BY <3>1 DEF TicketsMatch
    <3>3. QED BY <2>2, <3>1, <3>2 DEF TypeOK
  <2>3. QED BY <2>1, <2>2
<1>10. AnswersStand'
  <2>1. \A q \in Attempts : answer'[q] = "approved" => said'[q] = "approved"
    BY <1>4 DEF AnswersStand
  <2>2. ASSUME NEW b \in Attempts, phase'[b] \in Decisions
        PROVE  answer'[ticket'[b]] = phase'[b]
    <3>1. b # a /\ phase[b] = phase'[b] BY <2>2 DEF TypeOK, Decisions
    <3>2. ticket'[b] = ticket[b] /\ ticket[b] \in Attempts /\ answer[ticket[b]] = phase[b]
      BY <1>4, <2>2, <3>1 DEF TypeOK, AnswersStand, TicketsMatch, Decisions
    <3>3. answer[ticket[b]] # "none" BY <2>2, <3>1, <3>2 DEF Decisions
    <3>4. answer'[ticket[b]] = answer[ticket[b]] BY <1>4, <1>6, <3>2, <3>3
    <3>5. QED BY <3>1, <3>2, <3>4
  <2>3. QED BY <2>1, <2>2 DEF AnswersStand
<1>11. WaitersAreHeld'
  <2> SUFFICES ASSUME NEW b \in Attempts, Asking(b)', answer'[ticket'[b]] = "none"
               PROVE  ticket'[b] \in DOMAIN slots' /\ slots'[ticket'[b]].age + left'[b] <= Wait
    BY DEF WaitersAreHeld
  <2>1. CASE b = a
    <3>1. ticket'[b] = a /\ left'[b] = t BY <1>4, <2>1 DEF TypeOK
    <3>2. a \in DOMAIN slots' /\ slots'[a].age = 0 BY <1>3, <1>4, <3>1
    <3>3. t <= Wait /\ t \in Int OBVIOUS
    <3>4. QED BY <3>1, <3>2, <3>3
  <2>2. CASE b # a
    <3>1. ticket'[b] = ticket[b] /\ Asking(b) /\ left'[b] = left[b]
      BY <1>4, <2>2 DEF TypeOK, Asking
    <3>2. ticket[b] \in Attempts BY <3>1 DEF TicketsMatch, Asking, Turns
    <3>3. answer[ticket[b]] = "none" BY <1>4, <3>1, <3>2
    <3>4. ticket[b] \in DOMAIN s BY <3>1, <3>3, WaitedOnIsKept
    <3>5. slots[ticket[b]].age + left[b] <= Wait BY <3>1, <3>3 DEF WaitersAreHeld
    <3>6. ticket[b] \in DOMAIN slots' BY <1>3, <1>4, <3>1, <3>4
    <3>7. slots'[ticket[b]] = slots[ticket[b]] BY <1>3, <1>4, <3>4, <3>6
    <3>8. QED BY <3>1, <3>5, <3>6, <3>7
  <2>3. QED BY <2>1, <2>2
<1>12. KeysDiffer'
  <2>1. \A q \in DOMAIN s : key'[q] = key[q] /\ key[q] # k BY <1>1, <1>2 DEF SameCall, TypeOK
  <2>2. key'[a] = k BY DEF TypeOK
  <2>3. \A p, q \in DOMAIN s : key[p] = key[q] => p = q BY <1>1 DEF KeysDiffer
  <2>4. DOMAIN slots' \subseteq DOMAIN s \cup {a} BY <1>3, <1>4
  <2>5. QED BY <2>1, <2>2, <2>3, <2>4 DEF KeysDiffer
<1>13. OwedIsHeld'
  <2> SUFFICES ASSUME NEW p \in Attempts, owed[p] < AnswerTtl
               PROVE  /\ answer'[p] # "none" /\ answer'[p] = said[p]
                      /\ \/ p \in DOMAIN slots' /\ slots'[p].age = owed[p]
                         \/ \E b \in Attempts : ticket'[b] = p /\ phase'[b] = "waiting"
    BY DEF OwedIsHeld
  <2>1. answer[p] # "none" /\ answer[p] = said[p] BY DEF OwedIsHeld
  <2>2. answer'[p] = answer[p] BY <1>4, <1>6, <2>1
  <2>3. CASE p \in DOMAIN slots /\ slots[p].age = owed[p]
    <3>1. p \in DOMAIN s BY <2>3, OwedIsKept
    <3>2. p \in DOMAIN r /\ r[p] = slots[p] BY <1>3, <3>1
    <3>3. p \in DOMAIN slots'
      <4>1. CASE answer[p] = "denied" BY <1>4, <1>6, <2>1, <3>2, <4>1 DEF Raise, Victims, Unanswered, Without, Restrict
      <4>2. CASE answer[p] # "denied" BY <1>4, <2>2, <3>2, <4>2
      <4>3. QED BY <4>1, <4>2
    <3>4. slots'[p].age = owed[p] BY <1>4, <2>3, <3>2, <3>3
    <3>5. QED BY <2>1, <2>2, <3>3, <3>4
  <2>4. ASSUME NEW b \in Attempts, ticket[b] = p, phase[b] = "waiting"
        PROVE  ticket'[b] = p /\ phase'[b] = "waiting"
    BY <1>4, <2>4 DEF TypeOK
  <2>5. QED BY <2>1, <2>2, <2>3, <2>4 DEF OwedIsHeld
<1>14. QED BY <1>5, <1>7, <1>8, <1>9, <1>10, <1>11, <1>12, <1>13

LEMMA AskStep ==
    ASSUME QueueInv, NEW a \in Attempts, NEW k \in Keys, NEW t \in 0..Wait, Ask(a, k, t)
    PROVE  QueueInv'
<1> DEFINE s == Prune(slots)
<1>1. /\ phase[a] = "idle"
      /\ key' = [key EXCEPT ![a] = k] /\ left' = [left EXCEPT ![a] = t]
      /\ phase' = [phase EXCEPT ![a] = "waiting"] /\ UNCHANGED <<marker, said, owed>>
  BY DEF Ask
<1>2. \/ \E q \in DOMAIN s : SameCall(q, k) /\ Reuse(a, s, q)
      \/ Raise(a, Pushed(s, a)) /\ \A q \in DOMAIN s : ~ SameCall(q, k)
  BY DEF Ask
<1>3. QED BY <1>1, <1>2, ReuseStep, RaiseStep

(* The queue loses slots that nobody waits on, and nothing else changes.      *)
LEMMA LookStep == ASSUME QueueInv, Look PROVE QueueInv'
<1> DEFINE s == Prune(slots)
<1> USE DEF QueueInv
<1>0. TypeOK OBVIOUS
<1>1. /\ DOMAIN slots' \subseteq DOMAIN slots /\ slots' \in [DOMAIN slots' -> Slot]
      /\ \A p \in DOMAIN slots' : slots'[p] = slots[p]
  BY <1>0, PruneShape DEF Look
<1>2. UNCHANGED <<next_id, answer, key, ticket, left, phase, marker, said, owed>>
  BY DEF Look, callers
<1>3. TypeOK' BY <1>1, <1>2 DEF TypeOK
<1>4. SlotsAgree' BY <1>1, <1>2 DEF SlotsAgree
<1>5. IdleIsBlank' BY <1>1, <1>2 DEF IdleIsBlank
<1>6. TicketsMatch' BY <1>2 DEF TicketsMatch
<1>7. AnswersStand' BY <1>2 DEF AnswersStand
<1>8. WaitersAreHeld'
  <2> SUFFICES ASSUME NEW b \in Attempts, Asking(b), answer[ticket[b]] = "none"
               PROVE  ticket[b] \in DOMAIN slots' /\ slots'[ticket[b]].age + left[b] <= Wait
    BY <1>2 DEF WaitersAreHeld, Asking
  <2>1. ticket[b] \in DOMAIN slots' BY WaitedOnIsKept DEF Look
  <2>2. QED BY <1>1, <2>1 DEF WaitersAreHeld
<1>9. KeysDiffer' BY <1>1, <1>2 DEF KeysDiffer
<1>10. OwedIsHeld'
  <2>1. \A q \in DOMAIN slots :
          slots[q].age = owed[q] /\ owed[q] < AnswerTtl => q \in DOMAIN slots'
    BY OwedIsKept DEF Look
  <2>2. QED BY <1>1, <1>2, <2>1 DEF OwedIsHeld
<1>11. QED BY <1>3, <1>4, <1>5, <1>6, <1>7, <1>8, <1>9, <1>10

LEMMA DecideStep ==
    ASSUME QueueInv, NEW q \in Attempts, NEW d \in Decisions, Decide(q, d)
    PROVE  QueueInv'
<1> DEFINE s == Prune(slots)
<1> USE DEF QueueInv
<1>0. TypeOK OBVIOUS
<1>1. /\ DOMAIN s \subseteq DOMAIN slots /\ s \in [DOMAIN s -> Slot]
      /\ \A p \in DOMAIN s : s[p] = slots[p]
  BY <1>0, PruneShape
<1>2. /\ q \in DOMAIN s /\ answer[q] = "none"
      /\ answer' = [answer EXCEPT ![q] = d] /\ said' = [said EXCEPT ![q] = d]
      /\ slots' = [s EXCEPT ![q].answered = TRUE, ![q].age = 0]
      /\ owed' = [owed EXCEPT ![q] = 0]
      /\ UNCHANGED <<next_id, key, ticket, left, phase, marker>>
  BY DEF Decide, Unanswered, callers
<1>3. /\ DOMAIN slots' = DOMAIN s /\ slots' \in [DOMAIN s -> Slot]
      /\ \A p \in DOMAIN s \ {q} : slots'[p] = slots[p]
      /\ slots'[q].answered /\ slots'[q].age = 0
  <2> HIDE DEF s, QueueInv
  <2>1. QED BY <1>1, <1>2 DEF Slot
<1>4. d # "none" BY DEF Decisions
<1>5. TypeOK' BY <1>1, <1>2, <1>3, BoundsAssumption DEF TypeOK, Answers
<1>6. SlotsAgree' BY <1>1, <1>2, <1>3, <1>4 DEF SlotsAgree, TypeOK
<1>7. phase[q] # "idle" BY <1>1, <1>2 DEF IdleIsBlank
<1>8. IdleIsBlank' BY <1>1, <1>2, <1>3, <1>7 DEF IdleIsBlank, TypeOK
<1>9. TicketsMatch' BY <1>2 DEF TicketsMatch
<1>10. AnswersStand' BY <1>2 DEF AnswersStand, TypeOK, Decisions
<1>11. WaitersAreHeld'
  <2> SUFFICES ASSUME NEW b \in Attempts, Asking(b), answer'[ticket[b]] = "none"
               PROVE  ticket[b] \in DOMAIN slots' /\ slots'[ticket[b]].age + left[b] <= Wait
    BY <1>2 DEF WaitersAreHeld, Asking
  <2>1. ticket[b] # q /\ answer[ticket[b]] = "none"
    BY <1>0, <1>2, <1>4 DEF TypeOK, TicketsMatch, Asking, Turns
  <2>2. ticket[b] \in DOMAIN s BY <2>1, WaitedOnIsKept
  <2>3. slots[ticket[b]].age + left[b] <= Wait BY <2>1 DEF WaitersAreHeld
  <2>4. slots'[ticket[b]] = slots[ticket[b]] BY <1>3, <2>1, <2>2
  <2>5. QED BY <1>3, <2>2, <2>3, <2>4
<1>12. KeysDiffer' BY <1>1, <1>2, <1>3 DEF KeysDiffer
<1>13. OwedIsHeld'
  <2> SUFFICES ASSUME NEW p \in Attempts, owed'[p] < AnswerTtl
               PROVE  /\ answer'[p] # "none" /\ answer'[p] = said'[p]
                      /\ \/ p \in DOMAIN slots' /\ slots'[p].age = owed'[p]
                         \/ \E b \in Attempts : ticket[b] = p /\ phase[b] = "waiting"
    BY <1>2 DEF OwedIsHeld
  <2>1. CASE p = q BY <1>0, <1>2, <1>3, <1>4, <2>1 DEF TypeOK
  <2>2. CASE p # q
    <3>1. owed[p] < AnswerTtl /\ owed'[p] = owed[p] /\ answer'[p] = answer[p] /\ said'[p] = said[p]
      BY <1>0, <1>2, <2>2 DEF TypeOK
    <3>2. CASE p \in DOMAIN slots /\ slots[p].age = owed[p]
      <4>1. p \in DOMAIN s BY <3>1, <3>2, OwedIsKept
      <4>2. QED BY <1>3, <2>2, <3>1, <3>2, <4>1 DEF OwedIsHeld
    <3>3. QED BY <3>1, <3>2 DEF OwedIsHeld
  <2>3. QED BY <2>1, <2>2
<1>14. QED BY <1>5, <1>6, <1>8, <1>9, <1>10, <1>11, <1>12, <1>13

(* deny_all empties the queue; whoever waits on it has his answer.            *)
LEMMA ClearStep ==
    ASSUME QueueInv, ClearQueue, UNCHANGED <<key, ticket, left, marker, said>>,
           \/ phase' = phase
           \/ \E a \in Attempts : phase[a] = "unanswered" /\ phase' = [phase EXCEPT ![a] = "locked"]
    PROVE  QueueInv'
<1> USE DEF QueueInv
<1>0. TypeOK OBVIOUS
<1>1. /\ DOMAIN slots' = {} /\ slots' \in [DOMAIN slots' -> Slot] /\ next_id' = next_id
      /\ answer' \in [Attempts -> Answers]
      /\ \A q \in Attempts : answer[q] # "none" => answer'[q] = answer[q]
      /\ \A q \in Attempts : answer'[q] # answer[q] => answer'[q] = "denied" /\ q \in DOMAIN slots
      /\ \A q \in DOMAIN slots : answer'[q] # "none"
      /\ owed' \in [Attempts -> 0..AnswerTtl] /\ \A q \in Attempts : owed'[q] = AnswerTtl
  BY <1>0, BoundsAssumption DEF ClearQueue, DeniedUnlessAnswered, TypeOK, Answers, Decisions
<1>2. /\ phase' \in [Attempts -> Phases]
      /\ \A b \in Attempts : phase'[b] = phase[b] \/ (phase[b] = "unanswered" /\ phase'[b] = "locked")
  BY <1>0 DEF TypeOK, Phases
<1> HIDE DEF ClearQueue
<1>3. TypeOK' BY <1>1, <1>2 DEF TypeOK
<1>4. SlotsAgree' BY <1>1 DEF SlotsAgree
<1>5. IdleIsBlank'
  <2> SUFFICES ASSUME NEW b \in Attempts, phase'[b] = "idle"
               PROVE  ticket'[b] = NoAttempt /\ answer'[b] = "none" /\ b \notin DOMAIN slots'
    BY DEF IdleIsBlank
  <2>1. phase[b] = "idle" BY <1>2
  <2>2. QED BY <1>1, <2>1 DEF IdleIsBlank
<1>6. TicketsMatch'
  <2> SUFFICES ASSUME NEW b \in Attempts, phase'[b] # "idle"
               PROVE  /\ ticket[b] \in Attempts /\ phase'[ticket[b]] # "idle"
                      /\ key[ticket[b]] = key[b]
    BY DEF TicketsMatch
  <2>1. phase[b] # "idle" BY <1>2
  <2>2. QED BY <1>2, <2>1 DEF TicketsMatch
<1>7. AnswersStand'
  <2>1. \A q \in Attempts : answer'[q] = "approved" => said'[q] = "approved"
    BY <1>1 DEF AnswersStand
  <2>2. ASSUME NEW b \in Attempts, phase'[b] \in Decisions
        PROVE  answer'[ticket'[b]] = phase'[b]
    <3>1. phase[b] = phase'[b] BY <1>2, <2>2 DEF Decisions
    <3>2. ticket[b] \in Attempts /\ answer[ticket[b]] = phase[b]
      BY <2>2, <3>1 DEF AnswersStand, TicketsMatch, Decisions
    <3>3. answer'[ticket[b]] = answer[ticket[b]] BY <1>1, <2>2, <3>1, <3>2 DEF Decisions
    <3>4. QED BY <3>1, <3>2, <3>3
  <2>3. QED BY <2>1, <2>2 DEF AnswersStand
<1>8. WaitersAreHeld'
  <2> SUFFICES ASSUME NEW b \in Attempts, Asking(b)'
               PROVE  answer'[ticket[b]] # "none"
    BY DEF WaitersAreHeld
  <2>1. Asking(b) /\ ticket[b] \in Attempts BY <1>2 DEF TicketsMatch, Asking, Turns
  <2>2. CASE answer[ticket[b]] = "none"
    <3>1. ticket[b] \in DOMAIN slots BY <2>1, <2>2 DEF WaitersAreHeld
    <3>2. QED BY <1>1, <3>1
  <2>3. CASE answer[ticket[b]] # "none" BY <1>1, <2>1, <2>3
  <2>4. QED BY <2>2, <2>3
<1>9. KeysDiffer' BY <1>1 DEF KeysDiffer
<1>10. OwedIsHeld' BY <1>0, <1>1, BoundsAssumption DEF OwedIsHeld
<1>11. QED BY <1>3, <1>4, <1>5, <1>6, <1>7, <1>8, <1>9, <1>10

(* A call looks at its answer, at the marker without finding it, or at the    *)
(* clock: nothing changes for the queue.                                      *)
LEMMA PollStep ==
    ASSUME QueueInv, NEW a \in Attempts,
           SeeAnswer(a) \/ SeeNoAnswer(a) \/ SeeNoLock(a) \/ GiveUp(a) \/ Sleep(a)
    PROVE  QueueInv'
<1> USE DEF QueueInv
<1>0. TypeOK OBVIOUS
<1>1. /\ Asking(a)
      /\ UNCHANGED <<next_id, slots, answer, key, ticket, left, marker, said>>
      /\ \E to \in (Answers \ {"none"}) \cup Turns \cup {"timeout"} :
            phase' = [phase EXCEPT ![a] = to] /\ (to \in Decisions => to = answer[ticket[a]])
  <2>1. phase[a] # "idle" /\ ticket[a] \in Attempts
    BY DEF TicketsMatch, SeeAnswer, SeeNoAnswer, SeeNoLock, GiveUp, Sleep, Turn
  <2>2. answer[ticket[a]] \in Answers BY <2>1 DEF TypeOK
  <2>3. QED
    BY <2>2 DEF SeeAnswer, SeeNoAnswer, SeeNoLock, GiveUp, Sleep, Turn, queue, Asking, Turns,
                Answers, Decisions
<1>2. /\ phase' \in [Attempts -> Phases]
      /\ \A b \in Attempts \ {a} : phase'[b] = phase[b]
      /\ phase'[a] # "idle"
      /\ phase'[a] \in Decisions => phase'[a] = answer[ticket[a]]
  BY <1>0, <1>1 DEF TypeOK, Phases, Answers, Decisions, Turns
<1>3. \/ /\ answer[ticket[a]] # "none"
         /\ ticket[a] \in Attempts /\ owed' = [owed EXCEPT ![ticket[a]] = AnswerTtl]
      \/ phase[a] = "waiting" /\ answer[ticket[a]] = "none" /\ owed' = owed
      \/ phase[a] # "waiting" /\ owed' = owed
  BY DEF SeeAnswer, SeeNoAnswer, SeeNoLock, GiveUp, Sleep, Turn, TicketsMatch
<1>4. owed' \in [Attempts -> 0..AnswerTtl] BY <1>0, <1>3, BoundsAssumption DEF TypeOK
<1>5. TypeOK' BY <1>1, <1>2, <1>4 DEF TypeOK
<1>6. SlotsAgree' BY <1>1 DEF SlotsAgree
<1>7. IdleIsBlank' BY <1>1, <1>2 DEF IdleIsBlank
<1>8. TicketsMatch'
  <2> SUFFICES ASSUME NEW b \in Attempts, phase'[b] # "idle"
               PROVE  /\ ticket[b] \in Attempts /\ phase'[ticket[b]] # "idle"
                      /\ key[ticket[b]] = key[b]
    BY <1>1 DEF TicketsMatch
  <2>1. phase[b] # "idle" BY <1>1, <1>2 DEF Asking, Turns
  <2>2. QED BY <1>2, <2>1 DEF TicketsMatch
<1>9. AnswersStand' BY <1>1, <1>2 DEF AnswersStand
<1>10. WaitersAreHeld' BY <1>1, <1>2 DEF WaitersAreHeld, Asking
<1>11. KeysDiffer' BY <1>1 DEF KeysDiffer
<1>12. OwedIsHeld'
  <2> SUFFICES ASSUME NEW q \in Attempts, owed'[q] < AnswerTtl
               PROVE  /\ answer[q] # "none" /\ answer[q] = said[q]
                      /\ \/ q \in DOMAIN slots /\ slots[q].age = owed'[q]
                         \/ \E b \in Attempts : ticket[b] = q /\ phase'[b] = "waiting"
    BY <1>1 DEF OwedIsHeld
  <2>1. owed'[q] = owed[q] /\ (answer[ticket[a]] # "none" /\ owed' # owed => ticket[a] # q)
    BY <1>0, <1>3, BoundsAssumption DEF TypeOK
  <2>2. answer[q] # "none" /\ answer[q] = said[q] BY <2>1 DEF OwedIsHeld
  <2>3. CASE q \in DOMAIN slots /\ slots[q].age = owed[q] BY <2>1, <2>2, <2>3
  <2>4. ASSUME NEW b \in Attempts, ticket[b] = q, phase[b] = "waiting", b = a PROVE FALSE
    BY <1>0, <1>3, <2>1, <2>2, <2>4, BoundsAssumption DEF TypeOK
  <2>5. QED BY <1>2, <2>1, <2>2, <2>3, <2>4 DEF OwedIsHeld
<1>13. QED BY <1>5, <1>6, <1>7, <1>8, <1>9, <1>10, <1>11, <1>12

LEMMA TickStep == ASSUME QueueInv, Tick PROVE QueueInv'
<1> USE DEF QueueInv
<1>0. TypeOK OBVIOUS
<1>1. UNCHANGED <<next_id, answer, key, ticket, phase, marker, said>> BY DEF Tick
<1>2. /\ DOMAIN slots' = DOMAIN slots /\ slots' \in [DOMAIN slots -> Slot]
      /\ \A q \in DOMAIN slots :
           /\ slots'[q].answered = slots[q].answered
           /\ slots'[q].age <= slots[q].age + 1
           /\ slots[q].age < AnswerTtl => slots'[q].age = slots[q].age + 1
  <2>1. slots' = [q \in DOMAIN slots |-> [slots[q] EXCEPT !.age = Older(@)]] BY DEF Tick
  <2>2. ASSUME NEW q \in DOMAIN slots
        PROVE  /\ slots'[q] \in Slot /\ slots'[q].answered = slots[q].answered
               /\ slots'[q].age = Older(slots[q].age) /\ slots[q].age \in Nat
    <3>1. slots[q] \in Slot BY <1>0 DEF TypeOK
    <3>2. Older(slots[q].age) \in Nat BY <3>1 DEF Older, Slot
    <3>3. QED BY <2>1, <3>1, <3>2 DEF Slot
  <2>3. \A n \in Nat : Older(n) <= n + 1 /\ (n < AnswerTtl => Older(n) = n + 1)
    BY BoundsAssumption DEF Older
  <2>4. QED BY <2>1, <2>2, <2>3
<1>3. /\ left' \in [Attempts -> 0..Wait]
      /\ \A b \in Attempts : Asking(b) => left'[b] = left[b] - 1
      /\ owed' \in [Attempts -> 0..AnswerTtl]
      /\ \A q \in Attempts : owed'[q] < AnswerTtl => owed[q] < AnswerTtl /\ owed'[q] = owed[q] + 1
  BY <1>0, BoundsAssumption DEF Tick, TypeOK
<1>4. TypeOK' BY <1>1, <1>2, <1>3 DEF TypeOK
<1>5. SlotsAgree' BY <1>1, <1>2 DEF SlotsAgree
<1>6. IdleIsBlank' BY <1>1, <1>2 DEF IdleIsBlank
<1>7. TicketsMatch' BY <1>1 DEF TicketsMatch
<1>8. AnswersStand' BY <1>1 DEF AnswersStand
<1>9. WaitersAreHeld'
  <2> SUFFICES ASSUME NEW b \in Attempts, Asking(b), answer[ticket[b]] = "none"
               PROVE  ticket[b] \in DOMAIN slots' /\ slots'[ticket[b]].age + left'[b] <= Wait
    BY <1>1 DEF WaitersAreHeld, Asking
  <2>1. ticket[b] \in DOMAIN slots /\ slots[ticket[b]].age + left[b] <= Wait BY DEF WaitersAreHeld
  <2>2. slots[ticket[b]].age \in Nat /\ slots'[ticket[b]].age \in Nat BY <1>2, <2>1 DEF TypeOK, Slot
  <2>3. left[b] \in Nat /\ left'[b] = left[b] - 1 /\ Wait \in Nat BY <1>3, BoundsAssumption DEF TypeOK
  <2>4. slots'[ticket[b]].age <= slots[ticket[b]].age + 1 BY <1>2, <2>1
  <2>5. QED BY <1>2, <2>1, <2>2, <2>3, <2>4
<1>10. KeysDiffer' BY <1>1, <1>2 DEF KeysDiffer
<1>11. OwedIsHeld' BY <1>1, <1>2, <1>3 DEF OwedIsHeld
<1>12. QED BY <1>4, <1>5, <1>6, <1>7, <1>8, <1>9, <1>10, <1>11

LEMMA QueueInvStep == QueueInv /\ [Next]_vars => QueueInv'
<1> SUFFICES ASSUME QueueInv, [Next]_vars PROVE QueueInv'
  OBVIOUS
<1>1. ASSUME NEW a \in Attempts, NEW k \in Keys, NEW t \in 0..Wait, Ask(a, k, t) PROVE QueueInv'
  BY <1>1, AskStep
<1>2. ASSUME NEW q \in Attempts, NEW d \in Decisions, Decide(q, d) PROVE QueueInv'
  BY <1>2, DecideStep
<1>3. ASSUME NEW a \in Attempts, Poll(a) PROVE QueueInv'
  <2>1. CASE SeeAnswer(a) \/ SeeNoAnswer(a) \/ SeeNoLock(a) \/ GiveUp(a) \/ Sleep(a)
    BY <2>1, PollStep
  <2>2. CASE SeeLock(a) BY <2>2, ClearStep DEF SeeLock, Turn
  <2>3. QED BY <1>3, <2>1, <2>2 DEF Poll
<1>4. CASE Look BY <1>4, LookStep
<1>5. CASE DenyAll BY <1>5, ClearStep DEF DenyAll, callers
<1>6. CASE RequestLock
  <2>1. marker' = TRUE /\ UNCHANGED <<next_id, slots, answer, key, ticket, left, phase, said, owed>>
    BY <1>6 DEF RequestLock, queue, callers
  <2>2. QED
    BY <2>1 DEF QueueInv, TypeOK, SlotsAgree, IdleIsBlank, TicketsMatch, AnswersStand, WaitersAreHeld,
                Asking, KeysDiffer, OwedIsHeld
<1>7. CASE Tick BY <1>7, TickStep
<1>8. CASE UNCHANGED vars
  <2>1. UNCHANGED <<next_id, slots, answer, key, ticket, left, phase, marker, said, owed>>
    BY <1>8 DEF vars, queue, callers
  <2>2. QED
    BY <2>1 DEF QueueInv, TypeOK, SlotsAgree, IdleIsBlank, TicketsMatch, AnswersStand, WaitersAreHeld,
                Asking, KeysDiffer, OwedIsHeld
<1>9. QED BY <1>1, <1>2, <1>3, <1>4, <1>5, <1>6, <1>7, <1>8 DEF Next

LEMMA QueueInvHolds == Spec => []QueueInv
<1>1. QED BY InitQueueInv, QueueInvStep, PTL DEF Spec

(* The queue never invents a yes: a call that goes ahead holds the ticket of  *)
(* a question about the same capability and arguments, and a person said yes  *)
(* to that question.                                                          *)
THEOREM OnlyAPersonApproves == Spec => []ApprovalIsAPersons
<1>1. QueueInv => ApprovalIsAPersons
  BY DEF QueueInv, TicketsMatch, AnswersStand, ApprovalIsAPersons, Decisions
<1>2. QED BY QueueInvHolds, <1>1, PTL

(* Whoever waits without an answer waits on a question a person still sees.   *)
THEOREM WaitersAreOnScreen == Spec => []WaiterCanBeAnswered
<1>1. QueueInv => WaiterCanBeAnswered
  <2> SUFFICES ASSUME QueueInv, NEW a \in Attempts, Asking(a), answer[ticket[a]] = "none"
               PROVE  ticket[a] \in Unanswered(Prune(slots))
    BY DEF WaiterCanBeAnswered
  <2>1. ticket[a] \in DOMAIN Prune(slots) /\ ~ slots[ticket[a]].answered BY WaitedOnIsKept
  <2>2. Prune(slots)[ticket[a]] = slots[ticket[a]] BY <2>1, PruneShape DEF QueueInv
  <2>3. QED BY <2>1, <2>2 DEF Unanswered
<1>2. QED BY QueueInvHolds, <1>1, PTL

(* What a call that asks finds, when an answer about the same is still owed   *)
(* and nobody is about to read it: that answer.                               *)
LEMMA AskFindsTheAnswer ==
    ASSUME QueueInv, NEW a \in Attempts, NEW k \in Keys, NEW t \in 0..Wait, Ask(a, k, t),
           NEW q \in Attempts, key[q] = k, owed[q] < AnswerTtl,
           \A b \in Attempts : ticket[b] = q => phase[b] # "waiting"
    PROVE  ticket'[a] = q /\ answer'[q] = said[q]
<1> DEFINE s == Prune(slots)
<1>1. answer[q] = said[q] /\ q \in DOMAIN slots /\ slots[q].age = owed[q]
  BY DEF QueueInv, OwedIsHeld
<1>2. q \in DOMAIN s BY <1>1, OwedIsKept
<1>3. SameCall(q, k) BY DEF SameCall
<1>4. PICK p \in DOMAIN s : SameCall(p, k) /\ Reuse(a, s, p) BY <1>2, <1>3 DEF Ask
<1>5. p \in DOMAIN slots BY PruneShape DEF QueueInv
<1>6. p = q BY <1>1, <1>3, <1>4, <1>5 DEF SameCall, QueueInv, KeysDiffer
<1>7. QED BY <1>1, <1>4, <1>6 DEF Reuse, QueueInv, TypeOK

(* An answer that came too late for the call that asked for it is what the    *)
(* next call about the same finds, for as long as answers are kept.           *)
THEOREM LateAnswersAreKept == Spec => LateAnswerIsHonoured
<1>1. QueueInv /\ [Next]_vars =>
        \A a, q \in Attempts :
          /\ phase[a] = "idle" /\ phase'[a] # "idle" /\ key'[a] = key[q]
          /\ owed[q] < AnswerTtl
          /\ \A b \in Attempts : ticket[b] = q => phase[b] # "waiting"
          => ticket'[a] = q /\ answer'[q] = said[q]
  <2> SUFFICES ASSUME QueueInv, [Next]_vars, NEW a \in Attempts, NEW q \in Attempts,
                      phase[a] = "idle", phase'[a] # "idle", key'[a] = key[q],
                      owed[q] < AnswerTtl,
                      \A b \in Attempts : ticket[b] = q => phase[b] # "waiting"
               PROVE  ticket'[a] = q /\ answer'[q] = said[q]
    OBVIOUS
  <2>0. phase \in [Attempts -> Phases] /\ key \in [Attempts -> Keys \cup {NoKey}]
    BY DEF QueueInv, TypeOK
  <2>1. ASSUME NEW b \in Attempts, NEW k \in Keys, NEW t \in 0..Wait, Ask(b, k, t)
        PROVE  ticket'[a] = q /\ answer'[q] = said[q]
    <3>0. phase' = [phase EXCEPT ![b] = "waiting"] /\ key' = [key EXCEPT ![b] = k] BY <2>1 DEF Ask
    <3>1. b = a /\ key'[a] = k BY <2>0, <3>0
    <3>2. Ask(a, k, t) /\ key[q] = k BY <2>1, <3>1
    <3>3. QED BY <3>2, AskFindsTheAnswer
  <2>2. ASSUME NEW b \in Attempts, Poll(b) PROVE FALSE
    <3>1. phase[b] # "idle" /\ \E to : phase' = [phase EXCEPT ![b] = to]
      BY <2>2 DEF Poll, SeeAnswer, SeeNoAnswer, SeeLock, SeeNoLock, GiveUp, Sleep, Turn
    <3>2. QED BY <2>0, <3>1
  <2>3. phase' # phase OBVIOUS
  <2>4. QED
    BY <2>1, <2>2, <2>3 DEF Next, Decide, Look, DenyAll, RequestLock, Tick, vars, callers
<1>2. QED BY QueueInvHolds, <1>1, PTL DEF Spec, LateAnswerIsHonoured
-----------------------------------------------------------------------------
(* The queue implements Approvals: slot by slot, the questions it holds are   *)
(* the open ones.                                                             *)

LEMMA UnansweredIsOpen == ASSUME QueueInv PROVE Unanswered(slots) = Promise!Unanswered(DOMAIN slots)
BY DEF QueueInv, SlotsAgree, Unanswered, Promise!Unanswered

LEMMA PromisedAsk ==
    ASSUME QueueInv, NEW a \in Attempts, NEW k \in Keys, NEW t \in 0..Wait, Ask(a, k, t)
    PROVE  Promise!Ask(a, k)
<1> DEFINE s == Prune(slots)
           gone == DOMAIN slots \ DOMAIN s
           held == DOMAIN slots \ gone
           same == {q \in held : key[q] = k}
<1> USE DEF QueueInv
<1>1. /\ DOMAIN s \subseteq DOMAIN slots /\ s \in [DOMAIN s -> Slot]
      /\ \A p \in DOMAIN s : s[p] = slots[p]
  BY PruneShape
<1>2. held = DOMAIN s /\ gone \in SUBSET DOMAIN slots BY <1>1
<1>3. phase[a] = "idle" /\ key' = [key EXCEPT ![a] = k] BY DEF Ask
<1>4. ticket[a] = NoAttempt /\ answer[a] = "none" /\ a \notin DOMAIN slots BY <1>3 DEF IdleIsBlank
<1>5. \A q \in DOMAIN s : s[q].answered <=> answer[q] # "none" BY <1>1 DEF SlotsAgree
<1>6. ASSUME NEW q \in DOMAIN s, SameCall(q, k), Reuse(a, s, q)
      PROVE  \E p \in same :
               /\ ticket' = [ticket EXCEPT ![a] = p]
               /\ DOMAIN slots' = IF answer[p] = "none" THEN held ELSE held \ {p}
               /\ UNCHANGED answer
  <2>1. q \in same BY <1>2, <1>6 DEF SameCall
  <2>2. ticket' = [ticket EXCEPT ![a] = q] /\ UNCHANGED answer BY <1>6 DEF Reuse
  <2>3. DOMAIN slots' = IF answer[q] = "none" THEN held ELSE held \ {q}
    <3>1. CASE s[q].answered
      <4>1. DOMAIN slots' = DOMAIN s \ {q} BY <1>6, <3>1, WithoutShape DEF Reuse
      <4>2. QED BY <1>2, <1>5, <3>1, <4>1
    <3>2. CASE ~ s[q].answered
      <4>1. DOMAIN slots' = DOMAIN s BY <1>6, <3>2 DEF Reuse, RefreshSlot
      <4>2. QED BY <1>2, <1>5, <3>2, <4>1
    <3>3. QED BY <3>1, <3>2
  <2>4. QED BY <2>1, <2>2, <2>3
<1>7. ASSUME Raise(a, Pushed(s, a))
      PROVE  /\ ticket' = [ticket EXCEPT ![a] = a]
             /\ \/ DOMAIN slots' = held \cup {a} /\ UNCHANGED answer
                \/ \E q \in Promise!Unanswered(held \cup {a}) :
                     /\ DOMAIN slots' = (held \cup {a}) \ {q}
                     /\ answer' = [answer EXCEPT ![q] = "denied"]
  <2> DEFINE r == Pushed(s, a)
  <2>1. ticket' = [ticket EXCEPT ![a] = a] BY <1>7 DEF Raise
  <2>2. DOMAIN r = held \cup {a} /\ \A p \in DOMAIN s : p # a => r[p] = s[p] BY <1>2 DEF Pushed
  <2>3. CASE Victims(r) = {} /\ slots' = r /\ UNCHANGED answer BY <2>1, <2>2, <2>3
  <2>4. CASE \E q \in Victims(r) : slots' = Without(r, q) /\ answer' = [answer EXCEPT ![q] = "denied"]
    <3>1. PICK q \in Victims(r) : slots' = Without(r, q) /\ answer' = [answer EXCEPT ![q] = "denied"]
      BY <2>4
    <3>2. q \in DOMAIN r /\ ~ r[q].answered BY DEF Victims, Unanswered
    <3>3. q \in held \cup {a} /\ answer[q] = "none" BY <1>2, <1>4, <1>5, <2>2, <3>2
    <3>4. DOMAIN slots' = (held \cup {a}) \ {q} BY <2>2, <3>1, WithoutShape
    <3>5. QED BY <2>1, <3>1, <3>3, <3>4 DEF Promise!Unanswered
  <2>5. QED BY <1>7, <2>3, <2>4 DEF Raise
<1>8. CASE \E q \in DOMAIN s : SameCall(q, k) /\ Reuse(a, s, q)
  BY <1>2, <1>3, <1>4, <1>6, <1>8 DEF Promise!Ask
<1>9. CASE {q \in DOMAIN s : SameCall(q, k)} = {} /\ Raise(a, Pushed(s, a))
  <2>1. same = {} BY <1>2, <1>9 DEF SameCall
  <2>2. QED BY <1>2, <1>3, <1>4, <1>7, <1>9, <2>1 DEF Promise!Ask
<1>10. QED BY <1>8, <1>9 DEF Ask

LEMMA PromisedDecide ==
    ASSUME QueueInv, NEW q \in Attempts, NEW d \in Decisions, Decide(q, d)
    PROVE  Promise!Decide(q, d)
<1> DEFINE s == Prune(slots)
           gone == DOMAIN slots \ DOMAIN s
<1>1. DOMAIN s \subseteq DOMAIN slots /\ DOMAIN slots' = DOMAIN s /\ q \in DOMAIN s
  BY PruneShape DEF Decide, Unanswered, QueueInv
<1>2. gone \in SUBSET (DOMAIN slots \ {q}) /\ DOMAIN slots' = DOMAIN slots \ gone BY <1>1
<1>3. q \in Promise!Unanswered(DOMAIN slots) BY <1>1 DEF Decide, Promise!Unanswered
<1>4. answer' = [answer EXCEPT ![q] = d] /\ UNCHANGED <<key, ticket>> BY DEF Decide, callers
<1>5. QED BY <1>2, <1>3, <1>4 DEF Promise!Decide

LEMMA PromisedLook == ASSUME QueueInv, Look PROVE Promise!Forget
<1> DEFINE gone == DOMAIN slots \ DOMAIN slots'
<1>1. DOMAIN slots' \subseteq DOMAIN slots BY PruneShape DEF Look, QueueInv
<1>2. gone \in SUBSET DOMAIN slots /\ DOMAIN slots' = DOMAIN slots \ gone BY <1>1
<1>3. QED BY <1>2 DEF Look, callers, Promise!Forget

LEMMA PromisedClear == ASSUME QueueInv, ClearQueue, UNCHANGED <<key, ticket>> PROVE Promise!DenyAll
<1>1. DOMAIN slots' = {} BY DEF ClearQueue
<1>2. answer' = [q \in Attempts |->
                   IF q \in Promise!Unanswered(DOMAIN slots) THEN "denied" ELSE answer[q]]
  BY DEF ClearQueue, DeniedUnlessAnswered, Promise!Unanswered
<1>3. QED BY <1>1, <1>2 DEF Promise!DenyAll

(* Every step of the queue is one its callers were promised, or concerns      *)
(* nothing they see.                                                          *)
LEMMA PromisedStep == QueueInv /\ [Next]_vars => [Promise!Next]_(Promise!vars)
<1> SUFFICES ASSUME QueueInv, [Next]_vars PROVE Promise!Next \/ UNCHANGED Promise!vars
  OBVIOUS
<1> USE DEF Promise!vars
<1>1. ASSUME NEW a \in Attempts, NEW k \in Keys, NEW t \in 0..Wait, Ask(a, k, t) PROVE Promise!Next
  BY <1>1, PromisedAsk DEF Promise!Next
<1>2. ASSUME NEW q \in Attempts, NEW d \in Decisions, Decide(q, d) PROVE Promise!Next
  BY <1>2, PromisedDecide DEF Promise!Next, Promise!Decisions, Decisions
<1>3. ASSUME NEW a \in Attempts, Poll(a) PROVE Promise!Next \/ UNCHANGED Promise!vars
  <2>1. CASE SeeLock(a) BY <2>1, PromisedClear DEF SeeLock, Turn, Promise!Next
  <2>2. CASE SeeAnswer(a) \/ SeeNoAnswer(a) \/ SeeNoLock(a) \/ GiveUp(a) \/ Sleep(a)
    BY <2>2 DEF SeeAnswer, SeeNoAnswer, SeeNoLock, GiveUp, Sleep, Turn, queue
  <2>3. QED BY <1>3, <2>1, <2>2 DEF Poll
<1>4. CASE Look BY <1>4, PromisedLook DEF Promise!Next
<1>5. CASE DenyAll BY <1>5, PromisedClear DEF DenyAll, callers, Promise!Next
<1>6. CASE RequestLock BY <1>6 DEF RequestLock, queue, callers
<1>7. CASE Tick
  <2>1. DOMAIN slots' = DOMAIN slots BY <1>7 DEF Tick
  <2>2. QED BY <1>7, <2>1 DEF Tick
<1>8. CASE UNCHANGED vars BY <1>8 DEF vars, queue, callers
<1>9. QED BY <1>1, <1>2, <1>3, <1>4, <1>5, <1>6, <1>7, <1>8 DEF Next

(* The queue of src/approval.rs implements what Approvals promises.           *)
THEOREM QueueKeepsThePromise == Spec => PromiseKept
<1>1. Init => Promise!Init BY DEF Init, Promise!Init
<1>2. QED BY QueueInvHolds, PromisedStep, <1>1, PTL DEF Spec, PromiseKept, Promise!Spec

-----------------------------------------------------------------------------
(* The bridge.                                                                *)

(* The waits add up to this, whatever else costs a second: the connection of  *)
(* the bridge and the budget of the broker.                                   *)
Limit == ConnectTimeout + CALL_BUDGET
Reserved == Deadline - UPSTREAM_RESERVE

Seconds ==
    /\ age \in Nat /\ began \in Nat /\ until \in Nat /\ slow \in Nat
    /\ asked \in BOOLEAN /\ stage \in Stages

(* What a call may still take: the limits of the waits it has gone through,   *)
(* and the seconds it lost besides.                                           *)
InTime ==
    /\ stage \in {"idle", "told"} => age = 0 /\ ~ asked
    /\ stage = "connect" => until = ConnectTimeout /\ age <= ConnectTimeout + slow /\ ~ asked
    /\ began <= ConnectTimeout + slow
    /\ age <= Limit + slow
    /\ stage \in Waits => until <= Limit + slow
    /\ stage = "turn" => until = began + QUEUE_WAIT
    /\ stage \in {"turn", "prepare"} => age <= began + QUEUE_WAIT + slow /\ ~ asked
    /\ stage = "asking" => until <= Reserved
    /\ stage = "again" => until <= Reserved + slow
    /\ stage \in {"asking", "again"} => asked
    /\ stage \in {"asking", "again", "dispatch", "send"} /\ asked => age <= Reserved + slow

(* A request that has left is on its way, answered, or told of.               *)
Honest ==
    /\ sent => stage \in {"service", "close", "reply", "told"}
    /\ sent /\ Writes(call.tool) =>
         /\ stage \in {"close", "reply"} => reply \in {"ok", "unknown"}
         /\ stage = "told" => verdict \in {"ok", "unknown"}

(* Before the arguments are used the call is one of those considered, and     *)
(* there is no answer.                                                        *)
Unused ==
    /\ grant \in Grants /\ ValidGrant(grant)
    /\ stage \in {"connect", "turn", "prepare"} => call \in Arguments
    /\ stage \notin {"close", "reply"} => reply = "none"

BridgeInv == Seconds /\ InTime /\ Honest /\ Unused
-----------------------------------------------------------------------------
LEMMA MinOfTwo == ASSUME NEW m \in Int, NEW n \in Int PROVE Min({m, n}) = IF m <= n THEN m ELSE n
BY DEF Min

LEMMA LimitsAreNat ==
    /\ ConnectTimeout \in Nat /\ CALL_TIMEOUT \in Nat /\ CALL_BUDGET \in Nat /\ QUEUE_WAIT \in Nat
    /\ WAIT \in Nat /\ UPSTREAM_RESERVE \in Nat /\ TIMEOUT \in Nat
    /\ QUEUE_WAIT + UPSTREAM_RESERVE <= CALL_BUDGET
    /\ UPSTREAM_RESERVE <= TIMEOUT
BY SecondsAssumption

LEMMA InitBridgeInv == BridgeInit => BridgeInv
<1> SUFFICES ASSUME BridgeInit PROVE BridgeInv
  OBVIOUS
<1> USE DEF BridgeInit
<1>1. Seconds BY DEF Seconds, Stages
<1>2. InTime BY LimitsAreNat DEF InTime, Limit, Waits
<1>3. Honest BY DEF Honest
<1>4. Unused BY DEF Unused
<1>5. QED BY <1>1, <1>2, <1>3, <1>4 DEF BridgeInv

(* The steps that take no wait up: nothing of the time changes.               *)
LEMMA GoesOn ==
    ASSUME Seconds, InTime, UNCHANGED <<age, began, until, slow, asked>>, stage' \in Stages,
           \/ stage' = stage
           \/ stage = "turn" /\ stage' = "prepare"
           \/ stage' \in {"close", "reply"}
           \/ stage \in {"again", "dispatch"} /\ stage' \in {"dispatch", "send"}
    PROVE  Seconds' /\ InTime'
BY LimitsAreNat DEF Seconds, InTime, Waits, Reserved, Limit, Deadline

LEMMA CallTime == ASSUME Seconds, InTime, NEW c \in Arguments, Call(c) PROVE Seconds' /\ InTime'
BY LimitsAreNat DEF Call, Seconds, InTime, Waits, Limit, Stages, Reserved, Deadline

LEMMA ArriveTime == ASSUME Seconds, InTime, Arrive PROVE Seconds' /\ InTime'
<1>1. CASE granted
  BY <1>1, LimitsAreNat DEF Arrive, Goes, Seconds, InTime, Waits, Limit, Stages, Reserved, Deadline
<1>2. CASE ~ granted
  BY <1>2, GoesOn DEF Arrive, Replies, Stages
<1>3. QED BY <1>1, <1>2

LEMMA PrepareTime == ASSUME Seconds, InTime, Prepare PROVE Seconds' /\ InTime'
<1> USE LimitsAreNat
<1>1. CASE stage' = "reply" /\ UNCHANGED <<until, asked>>
  BY <1>1, GoesOn DEF Prepare, Stages
<1>2. CASE ~ (stage' = "reply" /\ UNCHANGED <<until, asked>>)
  <2>1. /\ stage = "prepare" /\ asked' = Requires(grant, call.tool)
        /\ stage' = IF asked' THEN "asking" ELSE "dispatch"
        /\ until' = IF asked' THEN AskUntil ELSE until
        /\ UNCHANGED <<age, began, slow>>
    BY <1>2 DEF Prepare, Replies, Settled, Goes
  <2>2. asked' \in BOOLEAN BY <2>1 DEF Requires, Writes
  <2>3. age + WAIT \in Int /\ Reserved \in Int BY DEF Seconds, Reserved, Deadline
  <2>4. AskUntil = IF age + WAIT <= Reserved THEN age + WAIT ELSE Reserved
    BY <2>3, MinOfTwo DEF AskUntil, Reserved
  <2>5. Reserved \in Nat BY DEF Reserved, Deadline, Seconds
  <2>6. Seconds' BY <2>1, <2>2, <2>4, <2>5 DEF Seconds, Stages
  <2>7. age <= Reserved + slow BY <2>1 DEF InTime, Seconds, Reserved, Deadline
  <2>8. Reserved <= Limit + slow BY DEF InTime, Seconds, Reserved, Deadline, Limit
  <2>9. InTime'
    BY <2>1, <2>2, <2>4, <2>5, <2>7, <2>8 DEF InTime, Seconds, Waits, Reserved, Deadline, Limit
  <2>10. QED BY <2>6, <2>9
<1>3. QED BY <1>1, <1>2

LEMMA PersonTime ==
    ASSUME Seconds, InTime, NEW yes \in BOOLEAN, PersonSays(yes) PROVE Seconds' /\ InTime'
<1> USE LimitsAreNat
<1>1. CASE ~ yes BY <1>1, GoesOn DEF PersonSays, Replies, Stages
<1>2. CASE yes
  <2> DEFINE rest == IF Reserved > age THEN Reserved - age ELSE 0
  <2>1. /\ stage = "asking" /\ stage' = "again" /\ until' = age + Min({QUEUE_WAIT, rest})
        /\ UNCHANGED <<age, began, slow, asked>>
    BY <1>2 DEF PersonSays, Goes, Reserved
  <2>2. Reserved \in Int BY DEF Seconds, Reserved, Deadline
  <2>3. rest \in Int BY <2>2 DEF Seconds
  <2>4. Min({QUEUE_WAIT, rest}) \in Nat /\ Min({QUEUE_WAIT, rest}) <= rest
    BY <2>2, <2>3, MinOfTwo DEF Seconds
  <2>5. age <= Reserved + slow BY <2>1 DEF InTime
  <2>6. until' \in Nat /\ (until' <= Reserved \/ until' <= age)
    BY <2>1, <2>2, <2>4 DEF Seconds
  <2>7. Reserved <= Limit + slow BY DEF InTime, Seconds, Reserved, Deadline, Limit
  <2>8. until' <= Limit + slow /\ until' <= Reserved + slow
    BY <2>2, <2>5, <2>6, <2>7 DEF InTime, Seconds, Limit
  <2>9. Reserved' = Reserved BY <2>1 DEF Reserved, Deadline
  <2>10. InTime' BY <2>1, <2>5, <2>8, <2>9 DEF InTime, Seconds, Waits
  <2>11. QED BY <2>1, <2>6, <2>10 DEF Seconds, Stages
<1>3. QED BY <1>1, <1>2

LEMMA SendTime ==
    ASSUME Seconds, InTime, Send
    PROVE  Seconds' /\ InTime' /\ (stage' = "service" /\ asked => until' + slow >= age + UPSTREAM_RESERVE)
<1> USE LimitsAreNat
<1>1. CASE ~ granted BY <1>1, GoesOn DEF Send, Replies, Stages
<1>2. CASE granted
  <2>1. /\ stage = "send" /\ stage' = "service" /\ until' = age + Min({TimeLeft, TIMEOUT})
        /\ UNCHANGED <<age, began, slow, asked>>
    BY <1>2 DEF Send, Goes, Replies
  <2>2. Deadline \in Nat /\ TimeLeft \in Nat BY DEF Seconds, Deadline, TimeLeft
  <2>3. Min({TimeLeft, TIMEOUT}) = IF TimeLeft <= TIMEOUT THEN TimeLeft ELSE TIMEOUT
    BY <2>2, MinOfTwo
  <2>4. until' \in Nat BY <2>1, <2>2, <2>3 DEF Seconds
  <2>5. until' <= Limit + slow
    BY <2>1, <2>2, <2>3 DEF Seconds, InTime, Limit, TimeLeft, Deadline
  <2>6. asked => until' + slow >= age + UPSTREAM_RESERVE
    BY <2>1, <2>2, <2>3 DEF Seconds, InTime, TimeLeft, Reserved
  <2>7. QED
    BY <2>1, <2>4, <2>5, <2>6 DEF InTime, Seconds, Waits, Limit, Stages
<1>3. QED BY <1>1, <1>2

LEMMA ToldTime == ASSUME Seconds, InTime, NEW v, Told(v) PROVE Seconds' /\ InTime'
<1>1. /\ stage' = "told" /\ age' = 0 /\ began' = 0 /\ until' = 0 /\ slow' = 0 /\ asked' = FALSE
  BY DEF Told
<1>2. Seconds' BY <1>1 DEF Seconds, Stages
<1>3. InTime' BY <1>1, LimitsAreNat DEF InTime, Waits, Limit
<1>4. QED BY <1>2, <1>3

LEMMA SecondTime == ASSUME Seconds, InTime, Second PROVE Seconds' /\ InTime'
<1> USE LimitsAreNat
<1>1. /\ age' = age + 1 /\ UNCHANGED <<stage, began, until, asked>> /\ stage \notin {"idle", "told"}
      /\ \/ stage \in Waits /\ age < until /\ slow' = slow
         \/ slow' = slow + 1
  BY DEF Second
<1>2. Seconds' BY <1>1 DEF Seconds
<1>3. InTime' BY <1>1 DEF Seconds, InTime, Waits, Limit, Reserved, Deadline
<1>4. QED BY <1>2, <1>3

(* Every step keeps to the seconds.                                           *)
LEMMA TimeStep == Seconds /\ InTime /\ [BridgeNext]_gvars => Seconds' /\ InTime'
<1> SUFFICES ASSUME Seconds, InTime, [BridgeNext]_gvars PROVE Seconds' /\ InTime'
  OBVIOUS
<1>1. CASE Revoke BY <1>1, GoesOn DEF Revoke, request, Seconds
<1>2. CASE Arrive BY <1>2, ArriveTime
<1>3. CASE Enter BY <1>3, GoesOn DEF Enter, Goes, request, Stages
<1>4. CASE TurnedAway BY <1>4, GoesOn DEF TurnedAway, Replies, request, Stages
<1>5. CASE Prepare BY <1>5, PrepareTime
<1>6. CASE NobodyAnswers BY <1>6, GoesOn DEF NobodyAnswers, Replies, request, Stages
<1>7. CASE Resume BY <1>7, GoesOn DEF Resume, Goes, Settled, Replies, request, Stages
<1>8. CASE Dispatch BY <1>8, GoesOn DEF Dispatch, Goes, Replies, request, Stages
<1>9. CASE Send BY <1>9, SendTime
<1>10. CASE NotSent BY <1>10, GoesOn DEF NotSent, request, Stages
<1>11. CASE Close BY <1>11, GoesOn DEF Close, Replies, request, Stages
<1>12. CASE Hear BY <1>12, ToldTime DEF Hear
<1>13. CASE Lose BY <1>13, ToldTime DEF Lose
<1>14. CASE StopListening BY <1>14, ToldTime DEF StopListening
<1>15. CASE Second BY <1>15, SecondTime
<1>16. ASSUME NEW c \in Arguments, Call(c) PROVE Seconds' /\ InTime' BY <1>16, CallTime
<1>17. ASSUME NEW yes \in BOOLEAN, PersonSays(yes) PROVE Seconds' /\ InTime' BY <1>17, PersonTime
<1>18. ASSUME NEW k \in Answer, ServiceAnswers(k) PROVE Seconds' /\ InTime'
  BY <1>18, GoesOn DEF ServiceAnswers, request, Stages
<1>19. CASE UNCHANGED gvars BY <1>19, GoesOn DEF gvars, Seconds
<1>20. QED
  BY <1>1, <1>2, <1>3, <1>4, <1>5, <1>6, <1>7, <1>8, <1>9, <1>10, <1>11, <1>12, <1>13, <1>14,
     <1>15, <1>16, <1>17, <1>18, <1>19
  DEF BridgeNext

(* Every step keeps what is answered and told true.                           *)
LEMMA HonestStep == Honest /\ [BridgeNext]_gvars => Honest'
<1> SUFFICES ASSUME Honest, [BridgeNext]_gvars PROVE Honest'
  OBVIOUS
<1> USE DEF Honest
<1>1. CASE Revoke BY <1>1 DEF Revoke, request
<1>2. CASE Arrive BY <1>2 DEF Arrive, Goes, Replies
<1>3. CASE Enter \/ TurnedAway \/ Resume \/ Dispatch \/ NobodyAnswers
  BY <1>3 DEF Enter, TurnedAway, Resume, Dispatch, NobodyAnswers, Goes, Replies, Settled, request
<1>4. CASE Prepare BY <1>4 DEF Prepare, Goes, Replies, Settled
<1>5. CASE Send BY <1>5 DEF Send, Goes, Replies
<1>6. CASE NotSent BY <1>6 DEF NotSent, request
<1>7. CASE Close BY <1>7 DEF Close, Closed, Replies, request
<1>8. CASE Hear BY <1>8 DEF Hear, Told
<1>9. CASE Lose \/ StopListening
  BY <1>9 DEF Lose, StopListening, Told, TransportError, Uncertain
<1>10. CASE Second BY <1>10 DEF Second
<1>11. ASSUME NEW c \in Arguments, Call(c) PROVE Honest' BY <1>11 DEF Call
<1>12. ASSUME NEW yes \in BOOLEAN, PersonSays(yes) PROVE Honest'
  BY <1>12 DEF PersonSays, Goes, Replies
<1>13. ASSUME NEW k \in Answer, ServiceAnswers(k) PROVE Honest'
  BY <1>13 DEF ServiceAnswers, Outcome, request
<1>14. CASE UNCHANGED gvars BY <1>14 DEF gvars
<1>15. QED
  BY <1>1, <1>2, <1>3, <1>4, <1>5, <1>6, <1>7, <1>8, <1>9, <1>10, <1>11, <1>12, <1>13, <1>14
  DEF BridgeNext

LEMMA UnusedStep == Unused /\ [BridgeNext]_gvars => Unused'
<1> SUFFICES ASSUME Unused, [BridgeNext]_gvars PROVE Unused'
  OBVIOUS
<1> USE DEF Unused
<1>0. grant' = grant
  BY DEF BridgeNext, Revoke, Arrive, Enter, TurnedAway, Resume, Dispatch, NobodyAnswers, Prepare, Send,
         NotSent, Close, Hear, Lose, StopListening, Second, Call, PersonSays, ServiceAnswers, Told,
         Goes, Replies, Settled, gvars
<1>1. CASE Revoke BY <1>0, <1>1 DEF Revoke, request
<1>2. CASE Arrive BY <1>0, <1>2 DEF Arrive, Goes, Replies
<1>3. CASE Enter \/ TurnedAway \/ Resume \/ Dispatch \/ NobodyAnswers
  BY <1>0, <1>3 DEF Enter, TurnedAway, Resume, Dispatch, NobodyAnswers, Goes, Replies, Settled, request
<1>4. CASE Prepare BY <1>0, <1>4 DEF Prepare, Goes, Replies, Settled
<1>5. CASE Send BY <1>0, <1>5 DEF Send, Goes, Replies
<1>6. CASE NotSent BY <1>0, <1>6 DEF NotSent, request
<1>7. CASE Close BY <1>0, <1>7 DEF Close, Closed, Replies, request
<1>8. CASE Hear \/ Lose \/ StopListening BY <1>0, <1>8 DEF Hear, Lose, StopListening, Told
<1>9. CASE Second BY <1>0, <1>9 DEF Second
<1>10. ASSUME NEW c \in Arguments, Call(c) PROVE Unused' BY <1>0, <1>10 DEF Call
<1>11. ASSUME NEW yes \in BOOLEAN, PersonSays(yes) PROVE Unused'
  BY <1>0, <1>11 DEF PersonSays, Goes, Replies
<1>12. ASSUME NEW k \in Answer, ServiceAnswers(k) PROVE Unused'
  BY <1>0, <1>12 DEF ServiceAnswers, request
<1>13. CASE UNCHANGED gvars BY <1>13 DEF gvars
<1>14. QED
  BY <1>1, <1>2, <1>3, <1>4, <1>5, <1>6, <1>7, <1>8, <1>9, <1>10, <1>11, <1>12, <1>13
  DEF BridgeNext

LEMMA BridgeInvHolds == BridgeSpec => []BridgeInv
<1>1. BridgeInv /\ [BridgeNext]_gvars => BridgeInv'
  BY TimeStep, HonestStep, UnusedStep DEF BridgeInv
<1>2. QED BY InitBridgeInv, <1>1, PTL DEF BridgeSpec

(* What a client is told of a write that has left leaves open, or confirms,   *)
(* that it was done.                                                          *)
THEOREM TheBridgeIsHonest == BridgeSpec => []BridgeIsHonest
<1>1. BridgeInv => BridgeIsHonest BY DEF BridgeInv, Honest, BridgeIsHonest
<1>2. QED BY BridgeInvHolds, <1>1, PTL

(* When the whole time is over and only so much of it was due, the rest is    *)
(* what was lost.                                                             *)
LEMMA SlowerThanTheMargin ==
    ASSUME NEW lost \in Nat, CALL_TIMEOUT <= ConnectTimeout + CALL_BUDGET + lost
    PROVE  lost >= Margin
BY LimitsAreNat DEF Margin

(* However long each wait lasts, the bridge only stops listening when the     *)
(* seconds lost besides exceed the margin, and a call a person allowed leaves *)
(* with the time reserved for the service, but for the seconds lost.          *)
THEOREM WaitsAddUp == BridgeSpec => TimeIsEnough
<1>1. BridgeInv /\ [BridgeNext]_gvars =>
        /\ stage # "told" /\ age' = CALL_TIMEOUT => slow' >= Margin
        /\ stage = "send" /\ stage' = "service" /\ asked => until' + slow >= age + UPSTREAM_RESERVE
  <2> SUFFICES ASSUME BridgeInv, [BridgeNext]_gvars
               PROVE  /\ age' = CALL_TIMEOUT => slow' >= Margin
                      /\ stage = "send" /\ stage' = "service" /\ asked =>
                           until' + slow >= age + UPSTREAM_RESERVE
    OBVIOUS
  <2>1. Seconds' /\ InTime' BY TimeStep DEF BridgeInv
  <2>2. age' = CALL_TIMEOUT => slow' >= Margin
    <3>1. age' <= ConnectTimeout + CALL_BUDGET + slow' BY <2>1 DEF InTime, Limit
    <3>2. slow' \in Nat BY <2>1 DEF Seconds
    <3>3. QED BY <3>1, <3>2, SlowerThanTheMargin
  <2>3. ASSUME stage = "send", stage' = "service" PROVE Send
    <3>1. /\ ~ Arrive /\ ~ Enter /\ ~ TurnedAway /\ ~ Prepare /\ ~ Resume /\ ~ Dispatch
          /\ ~ NobodyAnswers /\ ~ Close /\ ~ Hear
          /\ \A yes \in BOOLEAN : ~ PersonSays(yes)
          /\ \A k \in Answer : ~ ServiceAnswers(k)
          /\ \A c \in Arguments : ~ Call(c)
      BY <2>3 DEF Arrive, Enter, TurnedAway, Prepare, Resume, Dispatch, NobodyAnswers, Close, Hear,
                 PersonSays, ServiceAnswers, Call
    <3>2. ~ Revoke /\ ~ NotSent /\ ~ Lose /\ ~ StopListening /\ ~ Second /\ ~ UNCHANGED gvars
      BY <2>3 DEF Revoke, NotSent, Lose, StopListening, Second, Told, gvars
    <3>3. QED BY <3>1, <3>2 DEF BridgeNext
  <2>4. QED BY <2>2, <2>3, SendTime DEF BridgeInv
<1>2. QED BY BridgeInvHolds, <1>1, PTL DEF BridgeSpec, TimeIsEnough
-----------------------------------------------------------------------------
(* The contract.                                                              *)

(* A valid grant is of one kind: the operations on issues of repositories its *)
(* service has, or those on a whole API, or the models, which are no tools.   *)
LEMMA KindOfGrant ==
    ASSUME NEW g \in Grant, ValidGrant(g), NEW o \in g.operations \ Models
    PROVE  \/ o \in Apis /\ g.repositories = {"*"}
           \/ /\ o \in Issues /\ o \notin Apis /\ g.provider # "api_key"
              /\ \A r \in g.repositories : validate_repository(r, g.provider)
BY DEF ValidGrant, validate_grant_scope, validate_repository, Grant, Models, Apis, Issues

(* The repository of a call that is taken is one its schema allows.           *)
LEMMA ScopeIsListed ==
    ASSUME NEW g \in Grant, NEW c \in Argument, resolve_scope(g, c) \in g.repositories
    PROVE  /\ c.connection \in {"absent", "own"}
           /\ \/ c.repository \in g.repositories
              \/ c.repository = "absent" /\ ~ (Cardinality(g.repositories) # 1)
<1>1. "refused" \notin g.repositories BY DEF Grant, Repositories
<1>2. c.connection \in {"absent", "own", "other"} BY DEF Argument
<1>3. QED BY <1>1, <1>2 DEF resolve_scope

(* The case of the method aside, nothing else of a call is changed.           *)
LEMMA InCapitals ==
    ASSUME NEW c \in Argument
    PROVE  LET d == [c EXCEPT !.method = make_ascii_uppercase(@)]
           IN  /\ d.tool = c.tool /\ d.connection = c.connection /\ d.repository = c.repository
               /\ d.method = make_ascii_uppercase(c.method) /\ d.surface = c.surface
               /\ d.path = c.path /\ d.body = c.body /\ d.request_id = c.request_id
               /\ d.flaw = c.flaw
BY DEF Argument

LEMMA TakenConforms ==
    ASSUME NEW g \in Grant, ValidGrant(g), NEW c \in Argument, NEW o \in g.operations \ Models,
           tool_name(o, g.provider) = c.tool,
           NEW t, t = [tool |-> tool_name(o, g.provider), operation |-> o,
                       methods |-> Methods(o), surfaces |-> Surfaces(g, o), ids |-> Ids(o),
                       repositories |-> g.repositories,
                       repository_required |-> Cardinality(g.repositories) # 1],
           Parses(o, c, g.provider, resolve_scope(g, c)),
           resolve_scope(g, c) \in g.repositories
    PROVE  Conforms([c EXCEPT !.method = make_ascii_uppercase(@)], t)
<1> DEFINE d == [c EXCEPT !.method = make_ascii_uppercase(@)]
           method == make_ascii_uppercase(c.method)
<1>1. /\ t.tool = c.tool /\ t.operation = o /\ t.methods = Methods(o) /\ t.surfaces = Surfaces(g, o)
      /\ t.repositories = g.repositories /\ t.ids = Ids(o)
      /\ t.repository_required = (Cardinality(g.repositories) # 1)
  OBVIOUS
<1>2. /\ d.tool = c.tool /\ d.connection = c.connection /\ d.repository = c.repository
      /\ d.method = method /\ d.surface = c.surface /\ d.path = c.path /\ d.body = c.body
      /\ d.request_id = c.request_id /\ d.flaw = c.flaw
  BY InCapitals
<1>3. /\ c.connection \in {"absent", "own"}
      /\ \/ c.repository \in g.repositories
         \/ c.repository = "absent" /\ ~ (Cardinality(g.repositories) # 1)
  BY ScopeIsListed
<1>4. /\ c.surface \in {"none", "rest", "graphql"} /\ c.flaw \in Flaws \cup {"none"}
      /\ c.request_id \in {"absent", "uuid", "text"}
  BY DEF Argument
<1>5. /\ method \in Methods(o) /\ c.surface \in Surfaces(g, o) /\ c.request_id \in Ids(o)
      /\ c.surface = "graphql" => o = "api_write"
      /\ c.body => o \in Apis \cup {"create_issue"}
      /\ c.path => o \in Apis
      /\ c.flaw \in {"none", "unlisted"}
  <2>1. CASE o \in Apis /\ g.repositories = {"*"}
    <3>1. ApiParses(o, c) /\ (g.provider = "api_key" => c.surface # "graphql") BY <2>1 DEF Parses
    <3>2. o \in {"api_read", "api_write"} BY <2>1 DEF Apis
    <3>3. c.flaw \in {"none", "unlisted"}
      BY <1>4, <3>1 DEF ApiParses, url, extra_headers, Flaws
    <3>4. method \in IF is_write(o) THEN {"POST", "PUT"} ELSE {"GET", "HEAD"} BY <3>1 DEF ApiParses
    <3>5. c.surface = "graphql" => o = "api_write"
      BY <3>1, <3>2 DEF ApiParses, is_write
    <3>6. c.request_id \in Ids(o) BY <1>4, <2>1, <3>1 DEF ApiParses, Ids
    <3>7. QED BY <1>4, <2>1, <3>1, <3>3, <3>4, <3>5, <3>6 DEF Methods, Surfaces
  <2>2. CASE o \in Issues /\ o \notin Apis
    <3>1. o \in {"list_issues", "get_issue", "create_issue"} BY <2>2 DEF Issues
    <3>2. /\ c.flaw = "none" /\ c.method = "none" /\ c.surface = "none" /\ ~ c.path
          /\ c.body => o = "create_issue"
          /\ c.request_id = IF o = "create_issue" THEN "uuid" ELSE "absent"
      BY <2>2 DEF Parses
    <3>3. is_write(o) <=> o = "create_issue" BY <3>1 DEF is_write
    <3>4. QED
      BY <2>2, <3>2, <3>3 DEF Methods, Surfaces, Ids, make_ascii_uppercase
  <2>3. QED BY <2>1, <2>2, KindOfGrant
<1> HIDE DEF d, method
<1>6. Conforms(d, t) BY <1>1, <1>2, <1>3, <1>5 DEF Conforms
<1>7. QED BY <1>6 DEF d

(* What the broker takes is a call that a schema it lists allows.             *)
LEMMA TakesWhatConforms ==
    ASSUME NEW g \in Grant, ValidGrant(g), NEW c \in Argument, Takes(g, c)
    PROVE  \/ c.tool = Catalog /\ Bare(c)
           \/ \E t \in tools_for(g) : Conforms([c EXCEPT !.method = make_ascii_uppercase(@)], t)
<1> DEFINE T(o) == [tool |-> tool_name(o, g.provider), operation |-> o,
                    methods |-> Methods(o), surfaces |-> Surfaces(g, o), ids |-> Ids(o),
                    repositories |-> g.repositories,
                    repository_required |-> Cardinality(g.repositories) # 1]
<1>1. ASSUME NEW o \in from_tool(c.tool, g.provider) \cap g.operations,
             Parses(o, c, g.provider, resolve_scope(g, c)), resolve_scope(g, c) \in g.repositories
      PROVE  \E t \in tools_for(g) : Conforms([c EXCEPT !.method = make_ascii_uppercase(@)], t)
  <2>1. o \in g.operations \ Models /\ tool_name(o, g.provider) = c.tool BY DEF from_tool
  <2>2. Conforms([c EXCEPT !.method = make_ascii_uppercase(@)], T(o)) BY <1>1, <2>1, TakenConforms
  <2>3. T(o) \in tools_for(g) BY <2>1 DEF tools_for
  <2>4. QED BY <2>2, <2>3
<1>2. QED BY <1>1 DEF Takes

(* Whatever a grant allows and a client sends, the broker takes no call that  *)
(* its tools do not list.                                                     *)
THEOREM WhatIsTakenIsListed == BridgeSpec => TakenIsListed
<1>1. BridgeInv /\ [BridgeNext]_gvars =>
        (Judged /\ reply' # "invalid" =>
           \/ call.tool = Catalog /\ Bare(call)
           \/ \E t \in tools_for(grant) :
                Conforms([call EXCEPT !.method = make_ascii_uppercase(@)], t))
  <2> SUFFICES ASSUME BridgeInv, [BridgeNext]_gvars, Judged, reply' # "invalid"
               PROVE  \/ call.tool = Catalog /\ Bare(call)
                      \/ \E t \in tools_for(grant) :
                           Conforms([call EXCEPT !.method = make_ascii_uppercase(@)], t)
    OBVIOUS
  <2>0. stage = "prepare" /\ stage' \in {"reply", "asking", "dispatch"} /\ granted BY DEF Judged
  <2>1. Prepare
    <3>1. /\ ~ Arrive /\ ~ Enter /\ ~ TurnedAway /\ ~ Send /\ ~ Resume /\ ~ Dispatch
          /\ ~ NobodyAnswers /\ ~ Close /\ ~ Hear /\ ~ NotSent
          /\ \A yes \in BOOLEAN : ~ PersonSays(yes)
          /\ \A k \in Answer : ~ ServiceAnswers(k)
          /\ \A c \in Arguments : ~ Call(c)
      BY <2>0 DEF Arrive, Enter, TurnedAway, Send, Resume, Dispatch, NobodyAnswers, Close, Hear,
                 NotSent, PersonSays, ServiceAnswers, Call
    <3>2. ~ Revoke /\ ~ Lose /\ ~ StopListening /\ ~ Second /\ ~ UNCHANGED gvars
      BY <2>0 DEF Revoke, Lose, StopListening, Second, Told, gvars
    <3>3. QED BY <3>1, <3>2 DEF BridgeNext
  <2>2. grant \in Grant /\ ValidGrant(grant) /\ call \in Argument
    BY <2>0, ContractAssumption DEF BridgeInv, Unused
  <2>3. Takes(grant, call) BY <2>0, <2>1 DEF Prepare, Replies
  <2>4. QED BY <2>2, <2>3, TakesWhatConforms
<1>2. QED BY BridgeInvHolds, <1>1, PTL DEF BridgeSpec, TakenIsListed
=============================================================================
