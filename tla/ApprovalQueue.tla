--------------------------- MODULE ApprovalQueue ---------------------------
(* src/approval.rs: the questions a broker process holds for a person, and    *)
(* the calls that wait for an answer in Gateway::await_approval.              *)
(*                                                                            *)
(* Time passes in ticks.  A slot carries its age since it was asked or, once  *)
(* answered, since the answer; a waiting call carries the ticks it has left.  *)
(* Every operation holds the mutex for its whole body and prunes first.  A    *)
(* question is named after the attempt that raised it.  Slots are pushed      *)
(* under the mutex with the next id and otherwise only removed: the order of  *)
(* the vector is that of the ids, and "the first" is the one of least id.     *)
EXTENDS Naturals, FiniteSets, Functions

CONSTANTS
    Attempts,   \* calls that ask; a retry of a call is another attempt
    NoAttempt,
    Keys,       \* "approval:<capability>:<argument hash>", "proxy:<uuid>"
    NoKey,
    MaxSlots,   \* MAX_SLOTS
    AnswerTtl,  \* ANSWER_TTL, in ticks
    Linger,     \* LINGER, in ticks
    Wait        \* WAIT, in ticks

\* The code's values are 8, 90 s, 60 s and 15 s.
ASSUME BoundsAssumption ==
    /\ {MaxSlots, AnswerTtl, Linger, Wait} \subseteq Nat \ {0}
    /\ Wait < Linger

VARIABLES
    next_id,    \* questions raised so far
    slots,      \* the slots, by the attempt that raised the question
    answer,     \* the answer cell a slot shares with its tickets
    key,        \* what an attempt asked about
    ticket,     \* the question an attempt waits on
    left,       \* ticks until an attempt gives up waiting
    phase,      \* where an attempt is in await_approval
    marker,     \* the lock marker file exists
    said,       \* history: what a person answered to a question
    owed        \* history: ticks since a person answered a question that no
                \* call has heard of; AnswerTtl when no answer is owed

queue == <<next_id, slots, answer>>
callers == <<key, ticket, left, phase>>
vars == <<queue, callers, marker, said, owed>>

Decisions == {"approved", "denied"}
Answers == Decisions \cup {"none"}
Turns == {"waiting", "unanswered", "unlocked"}
Phases == Decisions \cup Turns \cup {"idle", "timeout", "locked"}
Slot == [id : Nat, answered : BOOLEAN, age : Nat]

TypeOK ==
    /\ next_id \in Nat
    /\ DOMAIN slots \subseteq Attempts /\ slots \in [DOMAIN slots -> Slot]
    /\ answer \in [Attempts -> Answers]
    /\ key \in [Attempts -> Keys \cup {NoKey}]
    /\ ticket \in [Attempts -> Attempts \cup {NoAttempt}]
    /\ left \in [Attempts -> 0..Wait]
    /\ phase \in [Attempts -> Phases]
    /\ marker \in BOOLEAN
    /\ said \in [Attempts -> Answers]
    /\ owed \in [Attempts -> 0..AnswerTtl]

Init ==
    /\ next_id = 0
    /\ slots = [q \in {} |-> NoAttempt]
    /\ answer = [a \in Attempts |-> "none"]
    /\ key = [a \in Attempts |-> NoKey]
    /\ ticket = [a \in Attempts |-> NoAttempt]
    /\ left = [a \in Attempts |-> 0]
    /\ phase = [a \in Attempts |-> "idle"]
    /\ marker = FALSE
    /\ said = [a \in Attempts |-> "none"]
    /\ owed = [a \in Attempts |-> AnswerTtl]
-----------------------------------------------------------------------------
(* A mutant of Fresh: an answer waits no longer than a question.              *)
FreshForLinger(slot) == slot.age < Linger

Fresh(slot) == slot.age < (IF slot.answered THEN AnswerTtl ELSE Linger)

Prune(s) == Restrict(s, {q \in DOMAIN s : Fresh(s[q])})

Without(s, q) == Restrict(s, DOMAIN s \ {q})

Unanswered(s) == {q \in DOMAIN s : ~ s[q].answered}

AnyCall(q, k) == TRUE

(* Question q is about the same call: capability, operation and arguments.    *)
SameCall(q, k) == key[q] = k

KeepAge(s, q) == s

(* ask found the question unanswered: the prompt gets its whole window again. *)
RefreshSlot(s, q) == [s EXCEPT ![q].age = 0]

(* A slot for the question attempt a raises.                                  *)
Pushed(s, a) ==
    [q \in DOMAIN s \cup {a} |->
        IF q = a THEN [id |-> next_id + 1, answered |-> FALSE, age |-> 0] ELSE s[q]]

OldestOfAll(s) ==
    {q \in DOMAIN s : Cardinality(DOMAIN s) > MaxSlots
                      /\ \A p \in DOMAIN s : s[q].id <= s[p].id}

(* What loses its place once the queue is over its limit: the first           *)
(* unanswered question.                                                       *)
Victims(s) ==
    {q \in Unanswered(s) : Cardinality(DOMAIN s) > MaxSlots
                           /\ \A p \in Unanswered(s) : s[q].id <= s[p].id}

(* ask finds its question in s: a decision already made is spent by it.       *)
Reuse(a, s, q) ==
    /\ ticket' = [ticket EXCEPT ![a] = q]
    /\ slots' = IF s[q].answered THEN Without(s, q) ELSE RefreshSlot(s, q)
    /\ UNCHANGED <<next_id, answer>>

(* ask raises a question, and one may lose its place for it.                  *)
Raise(a, s) ==
    /\ next_id' = next_id + 1
    /\ ticket' = [ticket EXCEPT ![a] = a]
    /\ \/ /\ Victims(s) = {}
          /\ slots' = s
          /\ UNCHANGED answer
       \/ \E q \in Victims(s) :
             /\ slots' = Without(s, q)
             /\ answer' = [answer EXCEPT ![q] = "denied"]

(* Attempt a asks about k with t ticks to wait: WAIT, or less, down to        *)
(* nothing, when the call's deadline is closer.                               *)
Ask(a, k, t) ==
    LET s == Prune(slots)
        same == {q \in DOMAIN s : SameCall(q, k)}
    IN /\ phase[a] = "idle"
       /\ key' = [key EXCEPT ![a] = k]
       /\ left' = [left EXCEPT ![a] = t]
       /\ phase' = [phase EXCEPT ![a] = "waiting"]
       /\ \/ \E q \in same : Reuse(a, s, q)
          \/ same = {} /\ Raise(a, Pushed(s, a))
       /\ UNCHANGED <<marker, said, owed>>

(* decide: a person answers question q, if it is still there. *)
Decide(q, d) ==
    LET s == Prune(slots)
    IN /\ q \in Unanswered(s) /\ answer[q] = "none"
       /\ answer' = [answer EXCEPT ![q] = d]
       /\ slots' = [s EXCEPT ![q].answered = TRUE, ![q].age = 0]
       /\ said' = [said EXCEPT ![q] = d]
       /\ owed' = [owed EXCEPT ![q] = 0]
       /\ UNCHANGED <<next_id, callers, marker>>

(* waiting: the frontend looks at the queue, which forgets what is too old. *)
Look ==
    /\ slots' = Prune(slots)
    /\ UNCHANGED <<next_id, answer, callers, marker, said, owed>>

(* get_or_insert: what deny_all leaves in the cell of question q. *)
DeniedUnlessAnswered(q) == IF answer[q] = "none" THEN "denied" ELSE answer[q]

ClearQueue ==
    /\ slots' = [q \in {} |-> NoAttempt]
    /\ answer' = [q \in Attempts |->
                    IF q \in DOMAIN slots THEN DeniedUnlessAnswered(q) ELSE answer[q]]
    /\ owed' = [q \in Attempts |-> AnswerTtl]
    /\ UNCHANGED next_id

(* deny_all, when the session that shows the prompts stops. *)
DenyAll ==
    /\ ClearQueue
    /\ UNCHANGED <<callers, marker, said>>

(* A person locks the broker from another process. *)
RequestLock ==
    /\ marker' = TRUE
    /\ UNCHANGED <<queue, callers, said, owed>>
-----------------------------------------------------------------------------
(* await_approval looks at the answer, at the lock marker and at the clock,   *)
(* one after the other and without a lock, then sleeps and looks again; a     *)
(* person, another call or the clock may come between any two of them.        *)
Asking(a) == phase[a] \in Turns

Turn(a, from, to) ==
    /\ phase[a] = from
    /\ phase' = [phase EXCEPT ![a] = to]
    /\ UNCHANGED <<key, ticket, left, marker, said>>

SeeAnswer(a) ==
    /\ phase[a] = "waiting" /\ answer[ticket[a]] # "none"
    /\ Turn(a, "waiting", answer[ticket[a]])
    /\ owed' = [owed EXCEPT ![ticket[a]] = AnswerTtl]
    /\ UNCHANGED queue

SeeNoAnswer(a) ==
    /\ phase[a] = "waiting" /\ answer[ticket[a]] = "none"
    /\ Turn(a, "waiting", "unanswered")
    /\ UNCHANGED <<queue, owed>>

(* The marker, once there, stays while the broker runs, so that the look at   *)
(* it and deny_all may be one step.                                           *)
SeeLock(a) ==
    /\ marker
    /\ Turn(a, "unanswered", "locked")
    /\ ClearQueue

SeeNoLock(a) ==
    /\ ~ marker
    /\ Turn(a, "unanswered", "unlocked")
    /\ UNCHANGED <<queue, owed>>

GiveUp(a) ==
    /\ left[a] = 0
    /\ Turn(a, "unlocked", "timeout")
    /\ UNCHANGED <<queue, owed>>

Sleep(a) ==
    /\ left[a] > 0
    /\ Turn(a, "unlocked", "waiting")
    /\ UNCHANGED <<queue, owed>>

Poll(a) ==
    \/ SeeAnswer(a) \/ SeeNoAnswer(a)
    \/ SeeLock(a) \/ SeeNoLock(a)
    \/ GiveUp(a) \/ Sleep(a)

(* Ages stop counting once they pass every limit. *)
Older(age) == IF age < AnswerTtl \/ age < Linger THEN age + 1 ELSE age

(* A tick is seconds and a turn comes every 50 ms, so nobody sleeps through   *)
(* the end of its wait.                                                       *)
Tick ==
    /\ \A a \in Attempts : Asking(a) => left[a] > 0
    /\ slots' = [q \in DOMAIN slots |-> [slots[q] EXCEPT !.age = Older(@)]]
    /\ left' = [a \in Attempts |-> IF Asking(a) THEN left[a] - 1 ELSE left[a]]
    /\ owed' = [q \in Attempts |-> IF owed[q] < AnswerTtl THEN owed[q] + 1 ELSE AnswerTtl]
    /\ UNCHANGED <<next_id, answer, key, ticket, phase, marker, said>>

Next ==
    \/ \E a \in Attempts, k \in Keys, t \in 0..Wait : Ask(a, k, t)
    \/ \E q \in Attempts, d \in Decisions : Decide(q, d)
    \/ \E a \in Attempts : Poll(a)
    \/ Look
    \/ DenyAll
    \/ RequestLock
    \/ Tick

Spec == Init /\ [][Next]_vars
-----------------------------------------------------------------------------
(* A call goes ahead only on a person's yes to the very same call: whatever   *)
(* is turned down, shared, reused, expired or denied on the way, no approval  *)
(* appears that a person did not give for that capability and arguments.      *)
ApprovalIsAPersons ==
    \A a \in Attempts :
      phase[a] = "approved" =>
        /\ said[ticket[a]] = "approved"
        /\ key[ticket[a]] = key[a]

(* A call may time out while its answer comes in.  The answer is not lost:    *)
(* for ANSWER_TTL, unless the broker is locked or its session ends, the next  *)
(* call about the same gets it instead of asking a person a second time       *)
(* (gateway.rs:566).                                                          *)
LateAnswerIsHonoured ==
    [][\A a, q \in Attempts :
         /\ phase[a] = "idle" /\ phase'[a] # "idle" /\ key'[a] = key[q]
         /\ owed[q] < AnswerTtl
         /\ \A b \in Attempts : ticket[b] = q => phase[b] # "waiting"
         => ticket'[a] = q /\ answer'[q] = said[q]]_vars

(* LINGER and ask's refresh: as long as a call waits on a question that has   *)
(* no answer, the question is on screen and a person can still answer it.     *)
WaiterCanBeAnswered ==
    \A a \in Attempts :
      Asking(a) /\ answer[ticket[a]] = "none" =>
        ticket[a] \in Unanswered(Prune(slots))

(* The queue keeps the promise its callers are modelled against.              *)
Promise == INSTANCE Approvals WITH open <- DOMAIN slots
PromiseKept == Promise!Spec
=============================================================================
