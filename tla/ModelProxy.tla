----------------------------- MODULE ModelProxy -----------------------------
(* src/ai_proxy.rs and src/gateway/proxy.rs: model requests of AI clients,    *)
(* forwarded one by one to a service whose answer may be a stream of events.  *)
(* A request takes one of a few slots before its body is read and keeps it    *)
(* until its upstream connection is dropped.  Everything that waits looks     *)
(* again every 200 ms whether access still lasts: `armed` says that the look  *)
(* at the top of the present wait found it good.                              *)
EXTENDS Naturals, FiniteSets

CONSTANTS
    Request,     \* the requests that clients send
    Cap,         \* capabilities of model grants
    CapOf,       \* CapOf[r]: the one a request carries
    Leased,      \* those given a proxy session when the broker started
    Gated,       \* those a person is asked about
    MaxSlots     \* permits of the semaphore proxy_slots

ASSUME ModelProxyAssumption ==
    /\ IsFiniteSet(Request) /\ CapOf \in [Request -> Cap]
    /\ Leased \subseteq Cap /\ Gated \subseteq Cap
    /\ MaxSlots \in Nat

(* A request holds a slot from "upload" to "write"; from "sending" on it has  *)
(* a connection to the service.  In "inspect" and "write" the filter and the  *)
(* channel have an event; a "failing" stream task tells its client so.        *)
Streaming == {"read", "inspect", "write"}
Upstream == {"sending", "collect"} \cup Streaming
Holding == {"upload", "queued", "asking", "requeued", "cleared"} \cup Upstream
Stages == {"new"} \cup Holding \cup {"failing", "done"}

(* What pump has read: complete events that are not inspected yet, whether    *)
(* the filter keeps some back, whether one of them said that the stream is    *)
(* complete, and whether the service has ended it.                            *)
Buffer == [rest : 0..2, held : BOOLEAN, terminal : BOOLEAN, eof : BOOLEAN]
Empty == [rest |-> 0, held |-> FALSE, terminal |-> FALSE, eof |-> FALSE]

VARIABLES
    \* the broker process
    slots,       \* free permits
    stopped,     \* the cancellation token
    lease,       \* the engine's proxy sessions
    fresh,       \* its window after the authentication
    stage, armed,
    answer,      \* a person's answer to the question of a request
    buffer,
    queue,       \* events in the channel to the client, one at most
    gone,        \* the client has closed the connection
    marker, granted,   \* files: the lock marker and the grants
    late         \* history: what a client was handed after its access had ended

access == <<stopped, lease, fresh, marker, granted>>
client == <<queue, gone>>
vars == <<slots, access, stage, armed, answer, buffer, client, late>>

TypeOK ==
    /\ slots \in 0..MaxSlots
    /\ stopped \in BOOLEAN /\ marker \in BOOLEAN /\ fresh \in BOOLEAN
    /\ lease \in [Cap -> {"none", "live", "over"}]
    /\ granted \subseteq Cap
    /\ stage \in [Request -> Stages]
    /\ armed \in [Request -> BOOLEAN]
    /\ answer \in [Request -> {"none", "yes", "no"}]
    /\ buffer \in [Request -> Buffer]
    /\ queue \in [Request -> 0..1]
    /\ gone \in [Request -> BOOLEAN]
    /\ late \in [Request -> 0..2]

Init ==
    /\ slots = MaxSlots
    /\ stopped = FALSE /\ marker = FALSE /\ fresh = TRUE
    /\ lease = [c \in Cap |-> IF c \in Leased THEN "live" ELSE "none"]
    /\ granted = Cap
    /\ stage = [r \in Request |-> "new"]
    /\ armed = [r \in Request |-> FALSE]
    /\ answer = [r \in Request |-> "none"]
    /\ buffer = [r \in Request |-> Empty]
    /\ queue = [r \in Request |-> 0]
    /\ gone = [r \in Request |-> FALSE]
    /\ late = [r \in Request |-> 0]
-----------------------------------------------------------------------------
FallsBack(c) == lease[c] = "live" \/ fresh

(* What the engine still allows: a grant with a proxy session goes by that    *)
(* alone, also when it is over; any other by the fresh authentication.        *)
Allowed(c) == IF lease[c] = "none" THEN fresh ELSE lease[c] = "live"

(* proxy_recheck.                                                             *)
Alive(r) == ~ stopped /\ ~ marker /\ CapOf[r] \in granted /\ Allowed(CapOf[r])

(* Gateway::lock, also when a recheck is the first to see the marker.         *)
Lock ==
    /\ stopped' = TRUE /\ fresh' = FALSE
    /\ lease' = [c \in Cap |-> IF lease[c] = "none" THEN "none" ELSE "over"]
SeeMarker ==
    /\ IF marker THEN Lock ELSE UNCHANGED <<stopped, lease, fresh>>
    /\ UNCHANGED <<marker, granted>>

Goes(r, s) == stage' = [stage EXCEPT ![r] = s]
Arm(r, b) == armed' = [armed EXCEPT ![r] = b]

(* The permit lives in the handler until the head of the answer, and then in  *)
(* the stream task it moved into; whoever ends drops it.                      *)
AtHead(r) == slots
AtEnd(r) == slots + 1

(* The end of a handler or a stream task, with all that it holds.             *)
Ends(r, s) ==
    /\ Goes(r, s) /\ Arm(r, FALSE) /\ slots' = AtEnd(r)
    /\ answer' = [answer EXCEPT ![r] = "none"]
    /\ buffer' = [buffer EXCEPT ![r] = Empty]

(* Access that has ended, whatever the broker knows of it.                    *)
Withdrawn(r) ==
    \/ stopped \/ marker \/ CapOf[r] \notin granted
    \/ CapOf[r] \in Leased /\ lease[CapOf[r]] # "live"
    \/ CapOf[r] \notin Leased /\ ~ fresh
Handed(r) ==
    late' = [late EXCEPT ![r] = IF Withdrawn(r) /\ @ < 2 THEN @ + 1 ELSE @]
-----------------------------------------------------------------------------

(* handle: the capability selects a grant, and a slot is taken before the     *)
(* body is accepted.                                                          *)
Free == slots > 0
Enter(r) ==
    /\ stage[r] = "new" /\ ~ stopped
    /\ IF CapOf[r] \in granted /\ Free
       THEN Goes(r, "upload") /\ slots' = slots - 1
       ELSE Goes(r, "done") /\ UNCHANGED slots
    /\ UNCHANGED <<access, armed, answer, buffer, client, late>>

Moves(r, s) ==
    /\ Goes(r, s)
    /\ UNCHANGED <<slots, access, armed, answer, buffer, client, late>>
Refuse(r) == Ends(r, "done") /\ UNCHANGED <<client, late>>

(* The body is refused or takes longer than 30 s.                             *)
BadBody(r) == stage[r] = "upload" /\ Refuse(r) /\ UNCHANGED access

(* proxy_request: access and a first recheck, then the turn of charge_rate.   *)
Accept(r) == stage[r] = "upload" /\ Alive(r) /\ Moves(r, "queued")
NotAccepted(r) == stage[r] = "upload" /\ ~ Alive(r) /\ SeeMarker /\ Refuse(r)

(* turn and charge_rate, which module Gateway has: others hold the execution  *)
(* lock for too long, or the minute is used up.                               *)
ChargeRate(r) ==
    /\ stage[r] = "queued"
    /\ Moves(r, IF CapOf[r] \in Gated THEN "asking" ELSE "requeued")
Turned(r) == stage[r] \in {"queued", "requeued"} /\ Refuse(r) /\ UNCHANGED access

(* await_approval, with a question of this request's own.                     *)
Asking(r, a) == stage[r] = "asking" /\ answer[r] = a
Decide(r, a) ==
    /\ Asking(r, "none")
    /\ answer' = [answer EXCEPT ![r] = a]
    /\ UNCHANGED <<slots, access, stage, armed, buffer, client, late>>
Approved(r) ==
    /\ Asking(r, "yes") /\ Goes(r, "requeued")
    /\ answer' = [answer EXCEPT ![r] = "none"]
    /\ UNCHANGED <<slots, access, armed, buffer, client, late>>
Denied(r) == Asking(r, "no") /\ Refuse(r) /\ UNCHANGED access
NobodyAnswers(r) == Asking(r, "none") /\ ~ marker /\ Refuse(r) /\ UNCHANGED access

DenyAll(others) ==
    answer' = [r \in Request |->
                 IF r \in others /\ Asking(r, "none") THEN "no" ELSE answer[r]]
LockedWhileAsking(r) ==
    /\ Asking(r, "none") /\ marker
    /\ DenyAll(Request \ {r})
    /\ Goes(r, "done") /\ slots' = AtEnd(r)
    /\ UNCHANGED <<access, armed, buffer, client, late>>

(* The second turn: recheck, the budget and the audit line, any of which may  *)
(* refuse.                                                                    *)
Clear(r) == stage[r] = "requeued" /\ Alive(r) /\ Moves(r, "cleared")
NotCleared(r) == stage[r] = "requeued" /\ ~ Alive(r) /\ SeeMarker /\ Refuse(r)
-----------------------------------------------------------------------------
(* The last look, and the request leaves.                                     *)
Send(r) ==
    /\ stage[r] = "cleared" /\ Alive(r)
    /\ Goes(r, "sending") /\ Arm(r, TRUE)
    /\ UNCHANGED <<slots, access, answer, buffer, client, late>>
NotSent(r) == stage[r] = "cleared" /\ ~ Alive(r) /\ SeeMarker /\ Refuse(r)

(* A stream that fails drops its connection and its slot first, and then has  *)
(* one second to tell the client.                                             *)
Fail(r) ==
    /\ Ends(r, IF stage[r] \in Streaming THEN "failing" ELSE "done")
    /\ UNCHANGED <<client, late>>

(* The waits: the answer, the document, a chunk, room in the channel.         *)
AnswerOrChunk == {"sending", "collect", "read"}
Waits == {"sending", "collect", "read", "write"}

Recheck(r) ==
    /\ stage[r] \in Waits /\ ~ armed[r] /\ Alive(r)
    /\ Arm(r, TRUE)
    /\ UNCHANGED <<slots, access, stage, answer, buffer, client, late>>
AccessEnded(r) == stage[r] \in Waits /\ ~ armed[r] /\ ~ Alive(r) /\ SeeMarker /\ Fail(r)
Tick(r) ==
    /\ stage[r] \in Waits /\ armed[r] /\ ~ gone[r]
    /\ stage[r] = "write" => queue[r] = 1
    /\ Arm(r, FALSE)
    /\ UNCHANGED <<slots, access, stage, answer, buffer, client, late>>
Stopped(r) == stage[r] \in Waits /\ armed[r] /\ stopped /\ Fail(r) /\ UNCHANGED access

(* The service fails, is too slow or too long, or sends what must not pass.   *)
Break(r) == stage[r] \in AnswerOrChunk /\ armed[r] /\ Fail(r) /\ UNCHANGED access

(* The head of the answer: one document, or a stream that gets its own task.  *)
Head(r) ==
    /\ stage[r] = "sending" /\ armed[r]
    /\ Arm(r, FALSE)
    /\ Goes(r, "collect") \/ Goes(r, "read")
    /\ slots' = AtHead(r)
    /\ UNCHANGED <<access, answer, buffer, client, late>>

(* The whole document is there: scan, a last look, and the client has it.     *)
Document(r) ==
    /\ stage[r] = "collect" /\ armed[r] /\ Alive(r)
    /\ Ends(r, "done") /\ Handed(r)
    /\ UNCHANGED <<access, client>>
DocumentTooLate(r) == stage[r] = "collect" /\ armed[r] /\ ~ Alive(r) /\ SeeMarker /\ Fail(r)
-----------------------------------------------------------------------------
(* pump: a chunk with complete events, each of them inspected by the filter,  *)
(* which passes it with what it held, holds it, or blocks the stream.         *)
Chunk(r) ==
    /\ stage[r] = "read" /\ armed[r]
    /\ Goes(r, "inspect") /\ Arm(r, FALSE)
    /\ \E n \in 1..2 : buffer' = [buffer EXCEPT ![r].rest = n]
    /\ UNCHANGED <<slots, access, answer, client, late>>

Pass(r) ==
    /\ stage[r] = "inspect" /\ buffer[r].rest > 0
    /\ \E last, hold \in BOOLEAN :
          /\ buffer' = [buffer EXCEPT ![r].rest = @ - 1, ![r].held = hold,
                                      ![r].terminal = @ \/ last]
          /\ Goes(r, IF hold THEN "inspect" ELSE "write")
    /\ UNCHANGED <<slots, access, armed, answer, client, late>>
Block(r) ==
    /\ stage[r] = "inspect" /\ buffer[r].rest > 0
    /\ Fail(r) /\ UNCHANGED access
ReadOn(r) == stage[r] = "inspect" /\ buffer[r].rest = 0 /\ Moves(r, "read")

(* send, with room in the channel; what was held is the last to go.           *)
Put(r) ==
    /\ stage[r] = "write" /\ armed[r] /\ ~ gone[r] /\ queue[r] = 0
    /\ queue' = [queue EXCEPT ![r] = 1]
    /\ Handed(r)
    /\ IF buffer[r].eof
       THEN Ends(r, "done")
       ELSE Goes(r, "inspect") /\ Arm(r, FALSE) /\ UNCHANGED <<slots, answer, buffer>>
    /\ UNCHANGED <<access, gone>>

(* The end of a stream: whole, with or without something held back, or cut.   *)
Eof(r) ==
    /\ stage[r] = "read" /\ armed[r] /\ buffer[r].terminal
    /\ IF buffer[r].held
       THEN /\ buffer' = [buffer EXCEPT ![r].eof = TRUE]
            /\ Goes(r, "write") /\ Arm(r, FALSE) /\ UNCHANGED <<slots, answer>>
       ELSE Ends(r, "done")
    /\ UNCHANGED <<access, client, late>>
Cut(r) ==
    /\ stage[r] = "read" /\ armed[r] /\ ~ buffer[r].terminal
    /\ Fail(r) /\ UNCHANGED access

(* A failing stream task puts an error into the channel if there is room      *)
(* within a second, and otherwise just drops its end.                         *)
Tell(r) ==
    /\ stage[r] = "failing" /\ queue[r] = 0
    /\ Goes(r, "done") /\ queue' = [queue EXCEPT ![r] = 1]
    /\ UNCHANGED <<slots, access, armed, answer, buffer, gone, late>>
NoRoom(r) == stage[r] = "failing" /\ queue[r] = 1 /\ Moves(r, "done")
-----------------------------------------------------------------------------
(* Clients read when they like, and close when they like: a handler that has  *)
(* not answered is dropped where it waits, a stream task finds out.           *)
Read(r) ==
    /\ stage[r] \in Streaming \cup {"failing"} /\ queue[r] = 1 /\ ~ gone[r]
    /\ queue' = [queue EXCEPT ![r] = 0]
    /\ UNCHANGED <<slots, access, stage, armed, answer, buffer, gone, late>>
Dropped == {"upload", "queued", "asking", "requeued", "sending", "collect"}
Close(r) ==
    /\ stage[r] \in Holding /\ ~ gone[r]
    /\ gone' = [gone EXCEPT ![r] = TRUE]
    /\ IF stage[r] \in Dropped
       THEN Ends(r, "done")
       ELSE UNCHANGED <<slots, stage, armed, answer, buffer>>
    /\ UNCHANGED <<access, queue, late>>
ClientIsGone(r) ==
    /\ stage[r] \in Waits /\ gone[r]
    /\ stage[r] = "write" => armed[r]
    /\ Refuse(r) /\ UNCHANGED access

(* What ends access, in other processes or by the clock.                      *)
RequestLock ==
    /\ ~ marker /\ marker' = TRUE
    /\ UNCHANGED <<slots, stopped, lease, fresh, granted, stage, armed, answer, buffer,
                   client, late>>
Watch ==
    /\ marker /\ ~ stopped /\ Lock
    /\ UNCHANGED <<slots, marker, granted, stage, armed, answer, buffer, client, late>>
(* The end of the session: told by its owner, who denies all, or by the clock.*)
StopSession ==
    /\ ~ stopped /\ Lock
    /\ DenyAll(Request) \/ UNCHANGED answer
    /\ UNCHANGED <<slots, marker, granted, stage, armed, buffer, client, late>>
Revoke(c) ==
    /\ c \in granted /\ granted' = granted \ {c}
    /\ UNCHANGED <<slots, stopped, lease, fresh, marker, stage, armed, answer, buffer,
                   client, late>>
LeaseEnds(c) ==
    /\ lease[c] = "live" /\ lease' = [lease EXCEPT ![c] = "over"]
    /\ UNCHANGED <<slots, stopped, fresh, marker, granted, stage, armed, answer, buffer,
                   client, late>>
FreshnessEnds ==
    /\ fresh /\ fresh' = FALSE
    /\ UNCHANGED <<slots, stopped, lease, marker, granted, stage, armed, answer, buffer,
                   client, late>>

(* What the broker does of itself for a request: it waits for nobody, or a    *)
(* timer of its own ends the wait.                                            *)
Step(r) ==
    \/ BadBody(r) \/ Accept(r) \/ NotAccepted(r) \/ ChargeRate(r) \/ Turned(r)
    \/ Approved(r) \/ Denied(r) \/ LockedWhileAsking(r) \/ NobodyAnswers(r)
    \/ Clear(r) \/ NotCleared(r) \/ Send(r) \/ NotSent(r)
    \/ Recheck(r) \/ AccessEnded(r) \/ Tick(r) \/ Stopped(r)
    \/ Pass(r) \/ Block(r) \/ ReadOn(r) \/ Put(r)
    \/ Tell(r) \/ NoRoom(r) \/ ClientIsGone(r)

Service(r) ==
    \/ Break(r) \/ Head(r) \/ Document(r) \/ DocumentTooLate(r)
    \/ Chunk(r) \/ Eof(r) \/ Cut(r)

Next ==
    \/ \E r \in Request :
        \/ Enter(r) \/ Step(r) \/ Service(r) \/ Read(r) \/ Close(r)
        \/ \E a \in {"yes", "no"} : Decide(r, a)
    \/ RequestLock \/ Watch \/ StopSession \/ FreshnessEnds
    \/ \E c \in Cap : Revoke(c) \/ LeaseEnds(c)

(* Timers and the runtime drive a request, and the marker is watched.  A      *)
(* select takes its branches in random order, so a closed channel is noticed  *)
(* beside chunks that keep coming.  Nothing is asked of clients, people or    *)
(* the service.                                                               *)
Fairness ==
    /\ WF_vars(Watch)
    /\ \A r \in Request : WF_vars(Step(r)) /\ SF_vars(ClientIsGone(r))
Spec == Init /\ [][Next]_vars /\ Fairness
-----------------------------------------------------------------------------
(* Once access has ended a client is handed one event at most, the one whose  *)
(* look at access came before the end (ai_proxy.rs:517).                      *)
LittleAfterTheEnd == \A r \in Request : late[r] <= 1

(* Each connection to the service has its slot: no more of them are open than *)
(* there are slots, streams that outlive their handler included               *)
(* (docs/model-proxy.md:114 and ai_proxy.rs:274).                             *)
Connected == {r \in Request : stage[r] \in Upstream}
NoMoreThanSlots == Cardinality(Connected) <= MaxSlots

(* A slot comes back once access has ended or the client has gone, whether    *)
(* or not the service answers and the client reads (ai_proxy.rs:516).         *)
SlotComesBack ==
    \A r \in Request :
        stage[r] \in Holding /\ (Withdrawn(r) \/ gone[r]) ~> stage[r] \notin Holding
=============================================================================
