------------------------------ MODULE Approvals ------------------------------
(* What the approval queue of src/approval.rs promises its callers, without   *)
(* its slots, clocks and limits.                                              *)
(*                                                                            *)
(* A question is named after the attempt that first raised it.  It is open    *)
(* while the queue still holds it.  Its answer is written once and then read  *)
(* by every attempt that holds its ticket, even after the question closed.    *)
(* The queue may forget questions (their time ran out) and may turn down an   *)
(* unanswered one to make room, but it never invents an approval: those come  *)
(* from a person, through Decide, and only for a question that is still open. *)
CONSTANTS
    Attempts,   \* the calls that may ask for a person's decision
    NoAttempt,  \* the ticket of an attempt that has not asked
    Keys,       \* what a question is bound to: capability, operation, arguments
    NoKey       \* the key of an attempt that has not asked

VARIABLES
    key,        \* key[a]: what attempt a asked about
    ticket,     \* ticket[a]: the question whose answer attempt a reads
    open,       \* the questions the queue holds
    answer      \* answer[q]: the answer to question q

vars == <<key, ticket, open, answer>>

Decisions == {"approved", "denied"}
Answers == Decisions \cup {"none"}

Init ==
    /\ key = [a \in Attempts |-> NoKey]
    /\ ticket = [a \in Attempts |-> NoAttempt]
    /\ open = {}
    /\ answer = [q \in Attempts |-> "none"]

Unanswered(questions) == {q \in questions : answer[q] = "none"}

(* Attempt a asks about k after the questions in gone were forgotten.  It     *)
(* joins the open question about k; a question already answered is spent by   *)
(* this one retry.  Otherwise it raises a question of its own, and at most    *)
(* one unanswered question is turned down to make room for it.                *)
Ask(a, k) ==
    /\ ticket[a] = NoAttempt
    /\ key' = [key EXCEPT ![a] = k]
    /\ \E gone \in SUBSET open :
         LET held == open \ gone
             same == {q \in held : key[q] = k}
         IN \/ \E q \in same :
                 /\ ticket' = [ticket EXCEPT ![a] = q]
                 /\ open' = IF answer[q] = "none" THEN held ELSE held \ {q}
                 /\ UNCHANGED answer
            \/ /\ same = {}
               /\ ticket' = [ticket EXCEPT ![a] = a]
               /\ \/ /\ open' = held \cup {a}
                     /\ UNCHANGED answer
                  \/ \E q \in Unanswered(held \cup {a}) :
                       /\ open' = (held \cup {a}) \ {q}
                       /\ answer' = [answer EXCEPT ![q] = "denied"]

(* A person answers an open question that has no answer yet. *)
Decide(q, d) ==
    /\ q \in Unanswered(open)
    /\ answer' = [answer EXCEPT ![q] = d]
    /\ \E gone \in SUBSET (open \ {q}) : open' = open \ gone
    /\ UNCHANGED <<key, ticket>>

(* Questions are forgotten; their answers stay as they are. *)
Forget ==
    /\ \E gone \in SUBSET open : open' = open \ gone
    /\ UNCHANGED <<key, ticket, answer>>

(* The broker is going away: everything unanswered is refused. *)
DenyAll ==
    /\ open' = {}
    /\ answer' = [q \in Attempts |->
                    IF q \in Unanswered(open) THEN "denied" ELSE answer[q]]
    /\ UNCHANGED <<key, ticket>>

Next ==
    \/ \E a \in Attempts, k \in Keys : Ask(a, k)
    \/ \E q \in Attempts, d \in Decisions : Decide(q, d)
    \/ Forget
    \/ DenyAll

Spec == Init /\ [][Next]_vars
=============================================================================
