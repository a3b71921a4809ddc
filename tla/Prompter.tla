------------------------------ MODULE Prompter -----------------------------
(* The terminal of `serve` (run_broker and spawn_approver in cli_run.rs): a   *)
(* person types lines at a prompt for one waiting call after another.  What   *)
(* is typed passes through the terminal, a thread that reads it and a channel *)
(* before the prompter meets it, and all the while calls arrive and time out. *)
(* The calls are known by their ids, which grow (module ApprovalQueue).       *)
EXTENDS Naturals, Sequences, FiniteSetsExt

CONSTANTS
    NoLine, Gone,   \* what the thread holds: nothing, or it has ended
    MaxRequests,    \* bound on the calls that ask
    MaxLines        \* bound on the lines a person types

VARIABLES
    waiting,    \* the ids ApprovalQueue::waiting returns
    asked,      \* calls that have asked so far
    typed,      \* lines typed so far
    stdin,      \* lines the terminal holds
    hand,       \* the line the thread has read and not sent yet, or Gone
    lines,      \* the channel
    prompter,   \* where the task is, the call it asks about, and on_screen
    shown,      \* the call whose prompt the person saw last, or 0
    approved    \* history: the calls approved here, each with the line that did

pvars == <<waiting, asked, typed, stdin, hand, lines, prompter, shown, approved>>

Answers == {"yes", "no", "other"}
Lines == [says : Answers, at : 0..MaxRequests, late : BOOLEAN]

PromptTypeOK ==
    /\ waiting \subseteq 1..asked /\ hand \in Lines \cup {NoLine, Gone}
    /\ stdin \in Seq(Lines) /\ lines \in Seq(Lines)
    /\ prompter \in [pc : {"none", "looking", "printing", "asking", "over"},
                     request : 0..MaxRequests, on_screen : 0..MaxRequests]

(* Without a gated grant or a terminal there is nobody to ask.                *)
PromptInit ==
    /\ waiting = {} /\ asked = 0 /\ typed = 0
    /\ stdin = <<>> /\ hand = NoLine /\ lines = <<>>
    /\ \E pc \in {"none", "looking"} : prompter = [pc |-> pc, request |-> 0, on_screen |-> 0]
    /\ shown = 0 /\ approved = {}

----------------------------------------------------------------------------
(* The calls (external here): each asks, and may be turned down, time out or  *)
(* go away before anybody has answered.                                       *)
Arrive ==
    /\ asked < MaxRequests
    /\ asked' = asked + 1 /\ waiting' = waiting \cup {asked + 1}
    /\ UNCHANGED <<typed, stdin, hand, lines, prompter, shown, approved>>

Leave ==
    /\ \E id \in waiting : waiting' = waiting \ {id}
    /\ UNCHANGED <<asked, typed, stdin, hand, lines, prompter, shown, approved>>

(* The person (external).  A line that is finished between the moment earlier *)
(* ones are thrown away and the moment the new prompt is there counts as late.*)
Type ==
    /\ typed < MaxLines /\ typed' = typed + 1
    /\ \E says \in Answers :
        stdin' = Append(stdin, [says |-> says, at |-> shown, late |-> prompter.pc = "printing"])
    /\ UNCHANGED <<waiting, asked, hand, lines, prompter, shown, approved>>

(* The thread: read_line, then send, until a line cannot be read (one that is *)
(* not UTF-8, or a terminal that is gone) or nobody listens.                  *)
ReadLine ==
    /\ hand = NoLine /\ stdin # <<>> /\ prompter.pc # "none"
    /\ hand' \in {Head(stdin), Gone} /\ stdin' = Tail(stdin)
    /\ UNCHANGED <<waiting, asked, typed, lines, prompter, shown, approved>>

Send ==
    /\ hand \notin {NoLine, Gone}
    /\ IF prompter.pc = "over" THEN hand' = Gone /\ UNCHANGED lines
       ELSE hand' = NoLine /\ lines' = Append(lines, hand)
    /\ UNCHANGED <<waiting, asked, typed, stdin, prompter, shown, approved>>

----------------------------------------------------------------------------
(* The prompter.                                                              *)

LookAgain(id) == prompter' = [prompter EXCEPT !.pc = "looking", !.on_screen = id]

NobodyWaits ==
    /\ prompter.pc = "looking" /\ waiting = {}
    /\ LookAgain(0)
    /\ UNCHANGED <<waiting, asked, typed, stdin, hand, lines, shown, approved>>

SameCall ==
    /\ prompter.pc = "looking" /\ waiting # {} /\ Min(waiting) = prompter.on_screen
    /\ prompter' = [prompter EXCEPT !.pc = "asking", !.request = Min(waiting)]
    /\ UNCHANGED <<waiting, asked, typed, stdin, hand, lines, shown, approved>>

Drained == <<>>

(* What is still on its way to the channel is not thrown away.                *)
Late(line) == [line EXCEPT !.late = TRUE]
NextCall ==
    /\ prompter.pc = "looking" /\ waiting # {} /\ Min(waiting) # prompter.on_screen
    /\ lines' = Drained
    /\ stdin' = [n \in DOMAIN stdin |-> Late(stdin[n])]
    /\ hand' = IF hand \in {NoLine, Gone} THEN hand ELSE Late(hand)
    /\ prompter' = [pc |-> "printing", request |-> Min(waiting), on_screen |-> Min(waiting)]
    /\ UNCHANGED <<waiting, asked, typed, shown, approved>>

ShowPrompt ==
    /\ prompter.pc = "printing"
    /\ prompter' = [prompter EXCEPT !.pc = "asking"] /\ shown' = prompter.request
    /\ UNCHANGED <<waiting, asked, typed, stdin, hand, lines, approved>>

(* decide answers the call that was asked about, if it still waits; anything  *)
(* but a yes or a no is asked again.                                          *)
Answer ==
    LET line == Head(lines) IN
    /\ prompter.pc = "asking" /\ lines # <<>>
    /\ lines' = Tail(lines)
    /\ IF line.says = "other"
         THEN LookAgain(prompter.on_screen) /\ UNCHANGED <<waiting, approved>>
         ELSE /\ LookAgain(0)
              /\ waiting' = waiting \ {prompter.request}
              /\ approved' = approved \cup
                    {[id |-> id, by |-> line] :
                        id \in IF line.says = "yes" THEN waiting \cap {prompter.request} ELSE {}}
    /\ UNCHANGED <<asked, typed, stdin, hand, shown>>

NoAnswer ==
    /\ prompter.pc = "asking" /\ LookAgain(prompter.on_screen)
    /\ UNCHANGED <<waiting, asked, typed, stdin, hand, lines, shown, approved>>

(* The channel is closed: the prompter ends, and nobody is asked any more.     *)
NobodyReads ==
    /\ prompter.pc = "asking" /\ lines = <<>> /\ hand = Gone
    /\ prompter' = [prompter EXCEPT !.pc = "over"]
    /\ UNCHANGED <<waiting, asked, typed, stdin, hand, lines, shown, approved>>

(* The session ends or is stopped: everybody who waits is refused.            *)
Stop ==
    /\ prompter.pc \notin {"none", "over"}
    /\ prompter' = [prompter EXCEPT !.pc = "over"] /\ waiting' = {}
    /\ UNCHANGED <<asked, typed, stdin, hand, lines, shown, approved>>

PromptNext ==
    \/ Arrive \/ Leave \/ Type \/ ReadLine \/ Send
    \/ NobodyWaits \/ SameCall \/ NextCall \/ ShowPrompt \/ Answer \/ NoAnswer
    \/ NobodyReads \/ Stop

PromptSpec == PromptInit /\ [][PromptNext]_pvars

----------------------------------------------------------------------------
(* Properties.                                                                *)

(* "Whatever was typed between two calls answers neither of them."           *)
(* (cli_run.rs:795): a yes typed while the prompt of one call was the last one *)
(* shown never approves another call.  The code does not keep this: what is    *)
(* still on its way to the channel is not thrown away, nor is a line finished  *)
(* before the new prompt is printed.                                           *)
YesIsForThePromptSeen == \A a \in approved : a.by.at > 0 => a.by.at = a.id

(* What the code does keep: only such a line approves a call other than the   *)
(* one it was typed for, and then a later one.                                *)
MixedUpOnlyInTransit ==
    \A a \in approved : a.by.at = a.id \/ (a.by.late /\ a.by.at < a.id)
=============================================================================
