------------------------------- MODULE MCCall -------------------------------
(* What a tool call lives through, for TLC: the questions it and two others   *)
(* put to a person, on a queue of two slots; and the way of one call through  *)
(* bridge, broker and service, a second of it being one step.  A call spends  *)
(* at most WAIT in the queue, and that is all the second needs to know of the *)
(* first; a behaviour shows one of them.                                      *)
EXTENDS ApprovalQueue, MCBridge, TLC

VARIABLES subject

Symmetric == Permutations(Attempts) \cup Permutations(Keys)

CallInit ==
    /\ subject \in {"queue", "bridge"}
    /\ Init
    /\ BridgeInit /\ (subject = "queue" => grant \in ModelGrants)
CallNext ==
    \/ subject = "queue" /\ Next /\ UNCHANGED <<subject, gvars>>
    \/ subject = "bridge" /\ BridgeNext /\ UNCHANGED <<subject, vars>>
CallSpec == CallInit /\ [][CallNext]_<<subject, gvars, vars>>
=============================================================================
