-------------------------------- MODULE Tui --------------------------------
(* The terminal interface: its event loop (tui/mod.rs), the one task it runs  *)
(* beside it (tui/actions.rs), and the two things it must not leave behind:   *)
(* a broker that serves an unlocked vault, and an entry opened on the screen. *)
(* Pages, filters and forms are left out; what a form submits is an action.   *)
EXTENDS Naturals

VARIABLES
    phase,      \* where the program is: "poll" or "keys" in the loop, "finish", "out"
    pending,    \* the task: its action, how far it is, what it brings
    broker,     \* the interface holds a BrokerSession
    serving,    \* a broker of this process serves and holds the broker lock
    other,      \* another process holds the broker lock
    inspection, \* the entry on the screen: none, open, or older than a minute
    requested,  \* inspection_requested
    library,    \* the listing: none, loaded, or older than five minutes
    quitting,
    entitled    \* history: somebody has been looking at the terminal ever
                \* since the last inspection was asked for

tvars == <<phase, pending, broker, serving, other, inspection, requested, library, quitting, entitled>>

(* What the actions do to the broker and what they bring: "open" is Unlock    *)
(* and Add, "change" every other action on the vault, "away" those that leave *)
(* the broker alone.                                                          *)
Actions == {"open", "change", "inspect", "lock", "away"}
NoWork == [action |-> "none", stage |-> "none", brings |-> "none"]

(* A mutant of pauses_broker: locking forgets to.                             *)
LockPausesNothing(a) == a \notin {"away", "lock"}

pauses_broker(a) == a # "away"

TuiTypeOK ==
    /\ phase \in {"poll", "keys", "finish", "out"}
    /\ pending \in [action : Actions, stage : {"stopping", "running"}, brings : {"none"}]
                   \cup [action : Actions, stage : {"finished"},
                         brings : {"error", "message", "broker", "library", "fresh", "stale"}]
                   \cup {NoWork}
    /\ inspection \in {"none", "open", "old"} /\ library \in {"none", "loaded", "old"}
    /\ broker \in BOOLEAN /\ serving \in BOOLEAN /\ other \in BOOLEAN
    /\ requested \in BOOLEAN /\ quitting \in BOOLEAN /\ entitled \in BOOLEAN

TuiInit ==
    /\ phase = "poll"
    /\ pending = NoWork
    /\ broker = FALSE /\ serving = FALSE /\ other = FALSE
    /\ inspection = "none" /\ requested = FALSE
    /\ library = "none"
    /\ quitting = FALSE
    /\ entitled = FALSE

----------------------------------------------------------------------------
(* A mutant of Started: the broker is let go but not waited for.              *)
StartedAtOnce(a, held) ==
    /\ inspection' = "none"
    /\ requested' = (a = "inspect")
    /\ library' = IF pauses_broker(a) /\ a # "inspect" THEN "none" ELSE library
    /\ broker' = (held /\ ~pauses_broker(a))
    /\ pending' = [action |-> a, brings |-> "none", stage |-> "running"]

(* App::start with nothing pending.  The task takes the broker and stops it   *)
(* before it does anything else.                                              *)
Started(a, held) ==
    /\ inspection' = "none"
    /\ requested' = (a = "inspect")
    /\ library' = IF pauses_broker(a) /\ a # "inspect" THEN "none" ELSE library
    /\ broker' = (held /\ ~pauses_broker(a))
    /\ pending' = [action |-> a, brings |-> "none",
                   stage |-> IF held /\ pauses_broker(a) THEN "stopping" ELSE "running"]

(* App::poll, in its order: what is too old goes, a finished task is applied, *)
(* a broker that has ended is let go, and a person who is leaving has the     *)
(* vault locked.  Then the screen is drawn, and the loop ends once nothing is *)
(* pending and no broker is held.                                             *)
Poll ==
    LET done == pending.stage = "finished"
        idle == pending = NoWork \/ done
        held == broker \/ (done /\ pending.brings = "broker")
        live == held /\ serving
        shown == IF done /\ pending.brings = "fresh" /\ requested /\ ~quitting THEN "open"
                 ELSE IF inspection = "old" THEN "none" ELSE inspection
        listing == IF done /\ pending.brings = "library" THEN "loaded"
                   ELSE IF library = "old" THEN "none" ELSE library
        asked == requested /\ ~(done /\ pending.brings \in {"fresh", "stale"})
    IN
    /\ phase = "poll"
    /\ IF quitting /\ idle /\ live
         THEN Started("lock", live) /\ phase' = "keys"
         ELSE /\ pending' = IF idle THEN NoWork ELSE pending
              /\ broker' = live
              /\ inspection' = shown
              /\ requested' = asked
              /\ library' = listing
              /\ phase' = IF quitting /\ idle THEN "finish" ELSE "keys"
    /\ UNCHANGED <<serving, other, quitting, entitled>>

(* The keys read after a frame.  An open inspection takes every key: it can   *)
(* be closed, left by locking, or left by quitting.                           *)
Submit(a) ==
    /\ phase = "keys" /\ pending = NoWork
    /\ inspection # "none" => a = "lock"
    /\ Started(a, broker)
    /\ entitled' = (a = "inspect")
    /\ UNCHANGED <<phase, serving, other, quitting>>

CloseInspection ==
    /\ phase = "keys" /\ inspection # "none"
    /\ inspection' = "none"
    /\ UNCHANGED <<phase, pending, broker, serving, other, requested, library, quitting, entitled>>

Quit ==
    /\ phase = "keys" /\ ~quitting
    /\ quitting' = TRUE
    /\ inspection' = "none"
    /\ UNCHANGED <<phase, pending, broker, serving, other, requested, library, entitled>>

(* The terminal reports that it is no longer the window in front.             *)
FocusLost ==
    /\ phase = "keys"
    /\ inspection' = "none" /\ requested' = FALSE /\ entitled' = FALSE
    /\ UNCHANGED <<phase, pending, broker, serving, other, library, quitting>>

(* The keys are read, at most 32 of them, and the loop sleeps 50 ms; Ctrl-C   *)
(* as a signal also means leaving.                                            *)
Tick ==
    /\ phase = "keys"
    /\ phase' = "poll"
    /\ quitting' \in {quitting, TRUE}
    /\ UNCHANGED <<pending, broker, serving, other, inspection, requested, library, entitled>>

(* The screen cannot be drawn or the keys not be read: run leaves the loop    *)
(* for finish, whatever is still going on.                                    *)
ScreenFails ==
    /\ phase \in {"poll", "keys"}
    /\ phase' = "finish"
    /\ inspection' = "none" /\ requested' = FALSE
    /\ UNCHANGED <<pending, broker, serving, other, library, quitting, entitled>>

(* App::finish waits for the task and stops whatever broker there is then.    *)
FinishApp ==
    /\ phase = "finish"
    /\ pending = NoWork \/ pending.stage = "finished"
    /\ phase' = "out"
    /\ pending' = NoWork /\ broker' = FALSE
    /\ serving' = (serving /\ ~broker /\ pending.brings # "broker")
    /\ inspection' = "none" /\ requested' = FALSE
    /\ UNCHANGED <<other, library, quitting, entitled>>

----------------------------------------------------------------------------
(* The task.                                                                  *)

TaskStops ==
    /\ pending.stage = "stopping"
    /\ serving' = FALSE
    /\ \E ok \in BOOLEAN :
        pending' = IF ok THEN [pending EXCEPT !.stage = "running"]
                         ELSE [pending EXCEPT !.stage = "finished", !.brings = "error"]
    /\ UNCHANGED <<phase, broker, other, inspection, requested, library, quitting, entitled>>

(* lock_broker waits at most 50 s for whoever holds the lock; then the work,  *)
(* of which any part may fail.  A broker started here serves at once.         *)
TaskRuns ==
    /\ pending.stage = "running"
    /\ \E word \in CASE pending.action = "open" -> {"error", "broker"}
                     [] pending.action = "change" -> {"error", "message", "library"}
                     [] pending.action = "inspect" -> {"error", "fresh"}
                     [] OTHER -> {"error", "message"} :
        /\ word # "error" /\ pauses_broker(pending.action) => ~other /\ ~serving
        /\ pending' = [pending EXCEPT !.stage = "finished", !.brings = word]
        /\ serving' = (serving \/ word = "broker")
    /\ UNCHANGED <<phase, broker, other, inspection, requested, library, quitting, entitled>>

(* A broker ends by itself: its minutes are over or the lock marker is set.   *)
BrokerEnds ==
    /\ serving
    /\ serving' = FALSE
    /\ UNCHANGED <<phase, pending, broker, other, inspection, requested, library, quitting, entitled>>

OthersHold ==
    /\ other \/ ~serving
    /\ other' = ~other
    /\ UNCHANGED <<phase, pending, broker, serving, inspection, requested, library, quitting, entitled>>

(* A minute for an inspection, five for a listing.                            *)
ClockRuns ==
    /\ inspection' \in {inspection, IF inspection = "open" THEN "old" ELSE inspection}
    /\ library' \in {library, IF library = "loaded" THEN "old" ELSE library}
    /\ pending' \in {pending, IF pending.brings = "fresh" THEN [pending EXCEPT !.brings = "stale"] ELSE pending}
    /\ UNCHANGED <<phase, broker, serving, other, requested, quitting, entitled>>

TuiNext ==
    \/ Poll \/ Tick \/ CloseInspection \/ Quit \/ FocusLost \/ ScreenFails \/ FinishApp
    \/ \E a \in Actions : Submit(a)
    \/ TaskStops \/ TaskRuns
    \/ BrokerEnds \/ OthersHold \/ ClockRuns

(* The loop and the task go on: the waits of a task are bounded, for the lock *)
(* by 50 s, for a broker by its drain, for a server by the client's timeouts. *)
TuiFairness == WF_tvars(Poll) /\ WF_tvars(Tick) /\ WF_tvars(FinishApp) /\ WF_tvars(TaskStops) /\ WF_tvars(TaskRuns)

TuiSpec == TuiInit /\ [][TuiNext]_tvars /\ TuiFairness

----------------------------------------------------------------------------
(* Properties.                                                                *)

(* Of the two things an open vault could leave behind: a broker that serves   *)
(* it is held by the interface, or by the task that stops it or brings it,    *)
(* none is dropped on the way, and none serves any more when the program      *)
(* returns, however it left the loop; and an opened entry is on the screen    *)
(* only while somebody has been in front of it ever since asking: an answer   *)
(* that comes after they looked away or went on to something else is not      *)
(* shown.                                                                     *)
NothingLeftBehind ==
    /\ serving => broker \/ pending.stage = "stopping" \/ pending.brings = "broker"
    /\ phase = "out" => ~serving
    /\ inspection # "none" => entitled

(* Who leaves gets out, with the vault locked, whatever is going on and       *)
(* whatever else they press.                                                  *)
QuittingEnds == quitting ~> phase = "out"
=============================================================================
