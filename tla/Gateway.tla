------------------------------ MODULE Gateway ------------------------------
(* src/gateway.rs: one call of an AI client, from its arrival at the broker   *)
(* to its reply, with everything that runs beside it: other calls, a person   *)
(* who answers, revokes or locks, a full disk, a dropped connection, a crash. *)
(*                                                                            *)
(* An attempt is one POST to /v1/call.  A client that retries sends another   *)
(* attempt of the same shape.  Between two awaits the code runs under the     *)
(* execution lock; the actions are split where a file is read or written,     *)
(* since other processes, a failing disk and a crash can come in between.     *)
(* The approval queue is the one of module Approvals.                         *)
EXTENDS Naturals, FiniteSets

CONSTANTS
    Attempts, NoAttempt,
    Caps,           \* capability hashes of the grants issued
    Ids, NoId,      \* request ids of writes
    Hashes, NoHash, \* argument hashes
    Shapes,         \* the calls clients send: [cap, kind, id, hash]
    NoShape,
    MaxCalls,       \* MaxCalls[c]: the grant's max_calls, 0 for uncapped
    Rpm,            \* Rpm[c]: the grant's requests_per_minute
    Gated,          \* Gated[c]: the kinds of call a person is asked about
    MaxQueued,      \* MAX_QUEUED
    JournalCap,     \* MAX_JOURNAL_ENTRIES
    MaxRestarts     \* bound of the model: broker processes after the first

Kinds == {"catalog", "read", "write"}
Shape == [cap : Caps, kind : Kinds, id : Ids \cup {NoId}, hash : Hashes]

\* Arguments::parse: a write carries a request_id, and nothing else does.
ASSUME ShapesAssumption ==
    /\ Shapes \subseteq Shape
    /\ \A s \in Shapes : s.kind = "write" <=> s.id # NoId
    /\ NoShape \notin Shape
    /\ NoId \notin Ids
    /\ NoHash \notin Hashes
    /\ NoAttempt \notin Attempts
ASSUME GrantsAssumption ==
    /\ MaxCalls \in [Caps -> Nat]
    /\ Rpm \in [Caps -> Nat]
    /\ Gated \in [Caps -> {{}, {"write"}, {"read", "write"}}]
ASSUME BoundsAssumption ==
    /\ MaxQueued \in Nat
    /\ JournalCap \in Nat
    /\ MaxRestarts \in Nat
    /\ IsFiniteSet(Attempts)

Keys == Caps \X Ids
Outcomes == {"absent", "started", "ok", "unknown", "refused"}
Record == [hash : Hashes \cup {NoHash}, outcome : Outcomes]
Absent == [hash |-> NoHash, outcome |-> "absent"]

(* Where an attempt is.  Holding the lock: holding .. sent.                   *)
Stages == {"idle", "queued", "holding", "asking", "requeued", "resumed", "ready",
           "charged", "authorized", "cleared", "sent", "closing", "done", "lost"}
Definite == {"BrokerBusy", "Unauthorized", "UnlockRequired", "RateLimited",
             "ApprovalDenied", "ApprovalTimeout", "JournalFull",
             "ReauthorizationRequired", "StateUnavailable", "RequestIdConflict",
             "InvalidConfig", "UpstreamFailed"}
Results == Definite \cup {"none", "ok", "WriteOutcomeUnknown"}

VARIABLES
    broker,     \* "up", "draining" or "down"
    restarts,
    \* memory of the broker process
    stage, call, result, holder, journal, usage, rate, vaultOpen,
    open, answer, ticket,       \* the approval queue, see Approvals
    \* files: the config's live grants, the lock marker, journal and usage
    granted, marker, disk, usageDisk,
    \* history, which the program does not keep
    charged,    \* attempts that spent a unit of their grant's budget
    authorized, \* attempts with a durable "authorized" audit line
    sent,       \* attempts whose request was handed to the network
    applied,    \* of those, the ones the service acted on (every read, for short)
    doomed,     \* revoked or locked out before they were cleared to send
    cut         \* revoked or locked out after they were cleared

lifecycle == <<broker, restarts>>
calls == <<stage, call, result, holder>>
memory == <<journal, usage, rate>>
approvals == <<open, answer, ticket>>
files == <<granted, marker, disk, usageDisk>>
history == <<charged, authorized, sent, applied, doomed, cut>>
vars == <<lifecycle, calls, memory, vaultOpen, approvals, files, history>>

TypeOK ==
    /\ broker \in {"up", "draining", "down"}
    /\ restarts \in 0..MaxRestarts
    /\ stage \in [Attempts -> Stages]
    /\ call \in [Attempts -> Shapes \cup {NoShape}]
    /\ result \in [Attempts -> Results]
    /\ holder \in Attempts \cup {NoAttempt}
    /\ journal \in [Keys -> Record]
    /\ usage \in [Caps -> Nat]
    /\ rate \in [Caps -> Nat]
    /\ vaultOpen \in BOOLEAN
    /\ open \subseteq Attempts
    /\ answer \in [Attempts -> {"none", "approved", "denied"}]
    /\ ticket \in [Attempts -> Attempts \cup {NoAttempt}]
    /\ granted \subseteq Caps
    /\ marker \in BOOLEAN
    /\ disk \in [Keys -> Record]
    /\ usageDisk \in [Caps -> Nat]
    /\ charged \subseteq Attempts
    /\ authorized \subseteq Attempts
    /\ sent \subseteq Attempts
    /\ applied \subseteq Attempts
    /\ doomed \subseteq Attempts
    /\ cut \subseteq Attempts
-----------------------------------------------------------------------------
Cap(a) == call[a].cap
IsWrite(a) == call[a].kind = "write"
Key(a) == <<call[a].cap, call[a].id>>
GatedIfWrite(a) == IsWrite(a) /\ Gated[call[a].cap] # {}
(* ApprovalPolicy::requires.                                                  *)
IsGated(a) == call[a].kind \in Gated[call[a].cap]
Queued == {a \in Attempts : stage[a] \in {"queued", "requeued"}}
Journaled == {k \in Keys : journal[k] # Absent}

Unanswered(questions) == {q \in questions : answer[q] = "none"}
InFlight == {a \in Attempts : stage[a] \notin {"idle", "done", "lost"}}

(* write_json: the file is replaced; or it is not; or it is, and the failing  *)
(* sync of its directory makes the caller believe that it is not.             *)
Saves == {"written", "failed", "unsynced"}
Reached(save) == save \in {"written", "unsynced"}

Init ==
    /\ broker = "up"
    /\ restarts = 0
    /\ stage = [a \in Attempts |-> "idle"]
    /\ call = [a \in Attempts |-> NoShape]
    /\ result = [a \in Attempts |-> "none"]
    /\ holder = NoAttempt
    /\ journal = [k \in Keys |-> Absent]
    /\ usage = [c \in Caps |-> 0]
    /\ rate = [c \in Caps |-> 0]
    /\ vaultOpen = TRUE
    /\ open = {}
    /\ answer = [a \in Attempts |-> "none"]
    /\ ticket = [a \in Attempts |-> NoAttempt]
    /\ granted = Caps
    /\ marker = FALSE
    /\ disk = [k \in Keys |-> Absent]
    /\ usageDisk = [c \in Caps |-> 0]
    /\ charged = {}
    /\ authorized = {}
    /\ sent = {}
    /\ applied = {}
    /\ doomed = {}
    /\ cut = {}
-----------------------------------------------------------------------------
(* The call is over but for its closing audit line; h holds the lock then.    *)
Settle(a, r, h) ==
    /\ stage' = [stage EXCEPT ![a] = "closing"]
    /\ result' = [result EXCEPT ![a] = r]
    /\ holder' = h
    /\ UNCHANGED call

(* The call goes on to stage s, and h holds the lock.                         *)
GoTo(a, s, h) ==
    /\ stage' = [stage EXCEPT ![a] = s]
    /\ holder' = h
    /\ UNCHANGED <<call, result>>

(* Gateway::turn, first call: boundary lets a live capability in, and the     *)
(* attempt takes the lock, queues for it or is turned away at once.           *)
Arrive(a, s) ==
    /\ broker = "up"
    /\ stage[a] = "idle"
    /\ call' = [call EXCEPT ![a] = s]
    /\ \/ /\ s.cap \notin granted
          /\ stage' = [stage EXCEPT ![a] = "done"]
          /\ result' = [result EXCEPT ![a] = "Unauthorized"]
          /\ UNCHANGED holder
       \/ /\ s.cap \in granted
          /\ holder = NoAttempt
          /\ holder' = a
          /\ stage' = [stage EXCEPT ![a] = "holding"]
          /\ UNCHANGED result
       \/ /\ s.cap \in granted
          /\ holder # NoAttempt
          /\ Cardinality(Queued) < MaxQueued
          /\ stage' = [stage EXCEPT ![a] = "queued"]
          /\ UNCHANGED <<result, holder>>
       \/ /\ s.cap \in granted
          /\ holder # NoAttempt
          /\ Cardinality(Queued) >= MaxQueued
          /\ stage' = [stage EXCEPT ![a] = "done"]
          /\ result' = [result EXCEPT ![a] = "BrokerBusy"]
          /\ UNCHANGED holder
    /\ UNCHANGED <<lifecycle, memory, vaultOpen, approvals, files, history>>

(* The lock reaches a waiting attempt. *)
TurnComes(a) ==
    /\ holder = NoAttempt
    /\ \/ stage[a] = "queued" /\ GoTo(a, "holding", a)
       \/ stage[a] = "requeued" /\ GoTo(a, "resumed", a)
    /\ UNCHANGED <<lifecycle, memory, vaultOpen, approvals, files, history>>

(* QUEUE_WAIT is over.  The first wait ends before there is anything to audit. *)
TurnTimesOut(a) ==
    /\ \/ /\ stage[a] = "queued"
          /\ stage' = [stage EXCEPT ![a] = "done"]
          /\ result' = [result EXCEPT ![a] = "BrokerBusy"]
          /\ UNCHANGED <<call, holder>>
       \/ stage[a] = "requeued" /\ Settle(a, "BrokerBusy", holder)
    /\ UNCHANGED <<lifecycle, memory, vaultOpen, approvals, files, history>>
-----------------------------------------------------------------------------
ReplayStarted(a) ==
    IF journal[Key(a)].outcome \in {"absent", "started"} THEN "none"
    ELSE IF journal[Key(a)].outcome = "ok" THEN "ok"
    ELSE "WriteOutcomeUnknown"

(* journaled: what the journal settles about this write, "none" when it may   *)
(* be sent.  A record without an outcome is never replayed.                   *)
JournalVerdict(a) ==
    LET record == journal[Key(a)]
    IN IF record = Absent
       THEN IF Cardinality(Journaled) >= JournalCap THEN "JournalFull" ELSE "none"
       ELSE IF record.hash # call[a].hash THEN "RequestIdConflict"
       ELSE IF record.outcome = "ok" THEN "ok"
       ELSE IF record.outcome = "refused" THEN "InvalidConfig"
       ELSE "WriteOutcomeUnknown"

(* prepare, up to and including the per-minute limit.  The catalog looks at   *)
(* the lock only after it has been charged.                                   *)
EarlyRefusal(a) ==
    IF Cap(a) \notin granted THEN "Unauthorized"
    ELSE IF call[a].kind # "catalog" /\ marker THEN "UnlockRequired"
    ELSE IF rate[Cap(a)] >= Rpm[Cap(a)] THEN "RateLimited"
    ELSE "none"

(* prepare, after the per-minute limit: the credential, then the journal.     *)
LateVerdict(a) ==
    IF marker \/ ~vaultOpen THEN "UnlockRequired"
    ELSE IF call[a].kind = "catalog" THEN "ok"
    ELSE IF IsWrite(a) THEN JournalVerdict(a)
    ELSE "none"

ChargeRate(a) == rate' = [rate EXCEPT ![Cap(a)] = @ + 1]

(* observe_lock: who finds the marker locks the vault in memory.              *)
ObserveLock == vaultOpen' = IF marker THEN FALSE ELSE vaultOpen

PrepareRefused(a) ==
    /\ stage[a] = "holding"
    /\ EarlyRefusal(a) # "none"
    /\ Settle(a, EarlyRefusal(a), holder)
    /\ IF EarlyRefusal(a) = "UnlockRequired" THEN ObserveLock ELSE UNCHANGED vaultOpen
    /\ UNCHANGED <<lifecycle, memory, approvals, files, history>>

PrepareAnswered(a) ==
    /\ stage[a] = "holding"
    /\ EarlyRefusal(a) = "none"
    /\ LateVerdict(a) # "none"
    /\ ChargeRate(a)
    /\ Settle(a, LateVerdict(a), holder)
    /\ ObserveLock
    /\ UNCHANGED <<lifecycle, journal, usage, approvals, files, history>>

PrepareReady(a) ==
    /\ stage[a] = "holding"
    /\ EarlyRefusal(a) = "none"
    /\ LateVerdict(a) = "none"
    /\ ~IsGated(a)
    /\ ChargeRate(a)
    /\ GoTo(a, "ready", a)
    /\ UNCHANGED <<lifecycle, journal, usage, vaultOpen, approvals, files, history>>

(* Two attempts ask the same question: same capability, operation, arguments. *)
SameQuestion(q, a) == call[q] = call[a]

(* ApprovalQueue::ask, as Approvals promises it.                              *)
Ask(a) ==
    LET same == {q \in open : SameQuestion(q, a)}
    IN \/ \E q \in same :
            /\ ticket' = [ticket EXCEPT ![a] = q]
            /\ open' = IF answer[q] = "none" THEN open ELSE open \ {q}
            /\ UNCHANGED answer
       \/ /\ same = {}
          /\ ticket' = [ticket EXCEPT ![a] = a]
          /\ \/ open' = open \cup {a} /\ UNCHANGED answer
             \/ \E q \in Unanswered(open \cup {a}) :
                  /\ open' = (open \cup {a}) \ {q}
                  /\ answer' = [answer EXCEPT ![q] = "denied"]

(* The gate covers this call: the lock is let go and a person is asked.       *)
PrepareGated(a) ==
    /\ stage[a] = "holding"
    /\ EarlyRefusal(a) = "none"
    /\ LateVerdict(a) = "none"
    /\ IsGated(a)
    /\ ChargeRate(a)
    /\ GoTo(a, "asking", NoAttempt)
    /\ Ask(a)
    /\ UNCHANGED <<lifecycle, journal, usage, vaultOpen, files, history>>
-----------------------------------------------------------------------------
(* await_approval: the answer, then the lock marker, then the clock.  A yes   *)
(* sends the call back for its turn.                                          *)
Approved(a) ==
    /\ stage[a] = "asking"
    /\ answer[ticket[a]] = "approved"
    /\ \/ holder = NoAttempt /\ GoTo(a, "resumed", a)
       \/ holder # NoAttempt /\ Cardinality(Queued) < MaxQueued /\ GoTo(a, "requeued", holder)
       \/ holder # NoAttempt /\ Cardinality(Queued) >= MaxQueued /\ Settle(a, "BrokerBusy", holder)
    /\ UNCHANGED <<lifecycle, memory, vaultOpen, approvals, files, history>>

Denied(a) ==
    /\ stage[a] = "asking"
    /\ answer[ticket[a]] = "denied"
    /\ Settle(a, "ApprovalDenied", holder)
    /\ UNCHANGED <<lifecycle, memory, vaultOpen, approvals, files, history>>

DenyAnsweredToo ==
    /\ open' = {}
    /\ answer' = [q \in Attempts |-> IF q \in open THEN "denied" ELSE answer[q]]
    /\ UNCHANGED ticket

(* ApprovalQueue::deny_all.                                                   *)
DenyEverything ==
    /\ open' = {}
    /\ answer' = [q \in Attempts |-> IF q \in Unanswered(open) THEN "denied" ELSE answer[q]]
    /\ UNCHANGED ticket

LockedWhileAsking(a) ==
    /\ stage[a] = "asking"
    /\ answer[ticket[a]] = "none"
    /\ marker
    /\ DenyEverything
    /\ Settle(a, "UnlockRequired", holder)
    /\ UNCHANGED <<lifecycle, memory, vaultOpen, files, history>>

TimesOutOnceForgotten(a) ==
    /\ stage[a] = "asking"
    /\ answer[ticket[a]] = "none"
    /\ ~marker
    /\ ticket[a] \notin open
    /\ Settle(a, "ApprovalTimeout", holder)
    /\ UNCHANGED <<lifecycle, memory, vaultOpen, approvals, files, history>>

ApprovalTimesOut(a) ==
    /\ stage[a] = "asking"
    /\ answer[ticket[a]] = "none"
    /\ ~marker
    /\ Settle(a, "ApprovalTimeout", holder)
    /\ UNCHANGED <<lifecycle, memory, vaultOpen, approvals, files, history>>

DenialByMarkerOnly(a) == IF marker THEN "UnlockRequired" ELSE "none"

(* recheck_access: why the call may not go on, "none" when it may.            *)
Denial(a) ==
    IF marker THEN "UnlockRequired"
    ELSE IF Cap(a) \notin granted THEN "Unauthorized"
    ELSE "none"

(* dispatch, once a gated call holds the lock again: everything the wait      *)
(* could have changed is read again.                                          *)
ResumeVerdict(a) ==
    IF Denial(a) # "none" THEN Denial(a)
    ELSE IF ~vaultOpen THEN "UnlockRequired"
    ELSE IF IsWrite(a) THEN JournalVerdict(a)
    ELSE "none"

Resume(a) ==
    /\ stage[a] = "resumed"
    /\ \/ ResumeVerdict(a) # "none" /\ Settle(a, ResumeVerdict(a), NoAttempt)
       \/ ResumeVerdict(a) = "none" /\ GoTo(a, "ready", a)
    /\ ObserveLock
    /\ UNCHANGED <<lifecycle, memory, approvals, files, history>>
-----------------------------------------------------------------------------
(* Less than MIN_SEND is left of the call's budget.                           *)
TooLate(a) ==
    /\ stage[a] = "ready"
    /\ Settle(a, "BrokerBusy", NoAttempt)
    /\ UNCHANGED <<lifecycle, memory, vaultOpen, approvals, files, history>>

BudgetSpent(c) == MaxCalls[c] # 0 /\ usage[c] >= MaxCalls[c]

OverBudget(a) ==
    /\ stage[a] = "ready"
    /\ BudgetSpent(Cap(a))
    /\ Settle(a, "ReauthorizationRequired", NoAttempt)
    /\ UNCHANGED <<lifecycle, memory, vaultOpen, approvals, files, history>>

(* charge_calls.  A failed save takes the unit back in memory only.           *)
ChargeCalls(a, save) ==
    LET spent == [usage EXCEPT ![Cap(a)] = @ + 1]
    IN /\ stage[a] = "ready"
       /\ ~BudgetSpent(Cap(a))
       /\ \/ /\ MaxCalls[Cap(a)] = 0
             /\ save = "written"
             /\ GoTo(a, "charged", a)
             /\ UNCHANGED <<usage, usageDisk, charged>>
          \/ /\ MaxCalls[Cap(a)] # 0
             /\ usageDisk' = IF Reached(save) THEN spent ELSE usageDisk
             /\ IF save = "written"
                THEN /\ usage' = spent
                     /\ charged' = charged \cup {a}
                     /\ GoTo(a, "charged", a)
                ELSE /\ Settle(a, "StateUnavailable", NoAttempt)
                     /\ UNCHANGED <<usage, charged>>
       /\ UNCHANGED <<lifecycle, journal, rate, vaultOpen, approvals, granted, marker, disk,
                      authorized, sent, applied, doomed, cut>>

AuthorizeAnyway(a, save) ==
    /\ stage[a] = "charged"
    /\ authorized' = IF save = "written" THEN authorized \cup {a} ELSE authorized
    /\ GoTo(a, "authorized", a)
    /\ UNCHANGED <<lifecycle, memory, vaultOpen, approvals, files, charged, sent, applied,
                   doomed, cut>>

(* The "authorized" audit line is on disk before anything leaves, or nothing  *)
(* leaves.                                                                    *)
Authorize(a, save) ==
    /\ stage[a] = "charged"
    /\ authorized' = IF save = "written" THEN authorized \cup {a} ELSE authorized
    /\ \/ save = "written" /\ GoTo(a, "authorized", a)
       \/ save # "written" /\ Settle(a, "StateUnavailable", NoAttempt)
    /\ UNCHANGED <<lifecycle, memory, vaultOpen, approvals, files, charged, sent, applied,
                   doomed, cut>>

Started(a) == [journal EXCEPT ![Key(a)] = [hash |-> call[a].hash, outcome |-> "started"]]

(* The last look at the authorization.                                        *)
ClearDenied(a) ==
    /\ stage[a] = "authorized"
    /\ Denial(a) # "none"
    /\ Settle(a, Denial(a), NoAttempt)
    /\ ObserveLock
    /\ UNCHANGED <<lifecycle, memory, approvals, files, history>>

ClearRead(a) ==
    /\ stage[a] = "authorized"
    /\ Denial(a) = "none"
    /\ ~IsWrite(a)
    /\ GoTo(a, "cleared", a)
    /\ UNCHANGED <<lifecycle, memory, vaultOpen, approvals, files, history>>

(* A write is journaled as started before it is sent; when the journal cannot *)
(* be saved the record is taken out of memory again and nothing is sent.      *)
ClearWrite(a, save) ==
    /\ stage[a] = "authorized"
    /\ Denial(a) = "none"
    /\ IsWrite(a)
    /\ disk' = IF Reached(save) THEN Started(a) ELSE disk
    /\ IF save = "written"
       THEN journal' = Started(a) /\ GoTo(a, "cleared", a)
       ELSE Settle(a, "StateUnavailable", NoAttempt) /\ UNCHANGED journal
    /\ UNCHANGED <<lifecycle, usage, rate, vaultOpen, approvals, granted, marker, usageDisk,
                   history>>

(* upstream::execute hands the request to the network.  Whether the service   *)
(* acts on it is out of the broker's hands.                                   *)
Send(a) ==
    /\ stage[a] = "cleared"
    /\ GoTo(a, "sent", a)
    /\ sent' = sent \cup {a}
    /\ \/ applied' = applied \cup {a}
       \/ IsWrite(a) /\ UNCHANGED applied
    /\ UNCHANGED <<lifecycle, memory, vaultOpen, approvals, files, charged, authorized,
                   doomed, cut>>

ReplyForAnyKind(a, outcome) ==
    IF outcome = "ok" THEN "ok"
    ELSE IF outcome = "refused" THEN "InvalidConfig"
    ELSE "UpstreamFailed"

(* What execute returns for an outcome; a write's errors say that its outcome *)
(* is unknown, whatever they were, once it may have left.                     *)
ReplyFor(a, outcome) ==
    IF outcome = "ok" THEN "ok"
    ELSE IF outcome = "refused" THEN "InvalidConfig"
    ELSE IF IsWrite(a) THEN "WriteOutcomeUnknown"
    ELSE "UpstreamFailed"

Finished(a, outcome) == [journal EXCEPT ![Key(a)] = [hash |-> @.hash, outcome |-> outcome]]

(* The tail of dispatch: a write's outcome is recorded, and access is looked  *)
(* at once more before the result may be told.                                *)
Conclude(a, outcome, save) ==
    LET told == IF IsWrite(a) /\ save # "written" THEN "WriteOutcomeUnknown"
                ELSE IF Denial(a) = "none" THEN ReplyFor(a, outcome)
                ELSE IF IsWrite(a) THEN "WriteOutcomeUnknown"
                ELSE Denial(a)
    IN /\ \/ IsWrite(a) /\ journal' = Finished(a, outcome)
             /\ disk' = IF Reached(save) THEN Finished(a, outcome) ELSE disk
          \/ ~IsWrite(a) /\ save = "written" /\ UNCHANGED <<journal, disk>>
       /\ IF IsWrite(a) /\ save # "written" THEN UNCHANGED vaultOpen ELSE ObserveLock
       /\ Settle(a, told, NoAttempt)
       /\ UNCHANGED <<lifecycle, usage, rate, approvals, granted, marker, usageDisk, history>>

(* The service answered, or the answer is missing, unusable or too late.      *)
Answered(a, save) ==
    /\ stage[a] = "sent"
    /\ \/ a \in applied /\ Conclude(a, "ok", save)
       \/ Conclude(a, "unknown", save)

(* execute cannot even build the request: nothing left the machine.           *)
Unsendable(a, save) ==
    /\ stage[a] = "cleared"
    /\ Conclude(a, "refused", save)

(* The closing audit line.  When it cannot be written the caller of a write   *)
(* is told to go and look; operation is not known yet on an early refusal.    *)
Close(a, save) ==
    /\ stage[a] = "closing"
    /\ stage' = [stage EXCEPT ![a] = "done"]
    /\ result' = [result EXCEPT ![a] =
                     IF save = "written" THEN @
                     ELSE IF IsWrite(a) /\ ~(holder = a /\ @ = "Unauthorized")
                          THEN "WriteOutcomeUnknown"
                     ELSE "StateUnavailable"]
    /\ holder' = IF holder = a THEN NoAttempt ELSE holder
    /\ UNCHANGED <<lifecycle, call, memory, vaultOpen, approvals, files, history>>

(* The client goes away at an await: the handler's future is dropped, and     *)
(* with it the lock or the place in the queue.  What is journaled stays.      *)
Disconnect(a) ==
    /\ stage[a] \in {"queued", "asking", "requeued", "sent"}
    /\ stage' = [stage EXCEPT ![a] = "lost"]
    /\ holder' = IF holder = a THEN NoAttempt ELSE holder
    /\ UNCHANGED <<lifecycle, call, result, memory, vaultOpen, approvals, files, history>>
-----------------------------------------------------------------------------
(* A person answers a prompt, or the queue forgets it.                        *)
Decide(q, d) ==
    /\ q \in Unanswered(open)
    /\ answer' = [answer EXCEPT ![q] = d]
    /\ UNCHANGED <<lifecycle, calls, memory, vaultOpen, open, ticket, files, history>>

Forget(q) ==
    /\ q \in open
    /\ open' = open \ {q}
    /\ UNCHANGED <<lifecycle, calls, memory, vaultOpen, answer, ticket, files, history>>

BeforeClear == {"queued", "holding", "asking", "requeued", "resumed", "ready", "charged",
                "authorized"}
StillIn(stages, caps) == {a \in Attempts : stage[a] \in stages /\ Cap(a) \in caps}

(* A person revokes a grant, or its time runs out, while the broker serves.   *)
Withdraw(c) ==
    /\ c \in granted
    /\ granted' = granted \ {c}
    /\ doomed' = doomed \cup StillIn(BeforeClear, {c})
    /\ cut' = cut \cup StillIn({"cleared", "sent"}, {c})
    /\ UNCHANGED <<lifecycle, calls, memory, vaultOpen, approvals, marker, disk, usageDisk,
                   charged, authorized, sent, applied>>

(* request_lock: a person locks the broker from any process.                  *)
RequestLock ==
    /\ broker # "down"
    /\ ~marker
    /\ marker' = TRUE
    /\ doomed' = doomed \cup StillIn(BeforeClear, Caps)
    /\ cut' = cut \cup StillIn({"cleared", "sent"}, Caps)
    /\ UNCHANGED <<lifecycle, calls, memory, vaultOpen, approvals, granted, disk, usageDisk,
                   charged, authorized, sent, applied>>

(* The session's lifetime is over or its watch loop saw the marker: the vault *)
(* is locked, no connection is accepted, calls in flight may finish.          *)
Drain ==
    /\ broker = "up"
    /\ broker' = "draining"
    /\ vaultOpen' = FALSE
    /\ UNCHANGED <<restarts, calls, memory, approvals, files, history>>

(* BrokerSession::stop also refuses every open prompt.                        *)
StopSession ==
    /\ broker = "up"
    /\ broker' = "draining"
    /\ vaultOpen' = FALSE
    /\ DenyEverything
    /\ UNCHANGED <<restarts, calls, memory, files, history>>

(* What the process kept in memory goes with it.                              *)
MemoryIsGone ==
    /\ broker' = "down"
    /\ journal' = [k \in Keys |-> Absent]
    /\ usage' = [c \in Caps |-> 0]
    /\ rate' = [c \in Caps |-> 0]
    /\ vaultOpen' = FALSE
    /\ open' = {}
    /\ UNCHANGED <<restarts, ticket>>

Drained ==
    /\ broker = "draining"
    /\ InFlight = {}
    /\ MemoryIsGone
    /\ UNCHANGED <<calls, answer, files, history>>

(* The process dies between any two steps; files stay as they are.            *)
Crash ==
    /\ broker # "down"
    /\ MemoryIsGone
    /\ stage' = [a \in Attempts |-> IF a \in InFlight THEN "lost" ELSE stage[a]]
    /\ result' = [a \in Attempts |-> IF a \in InFlight THEN "none" ELSE result[a]]
    /\ holder' = NoAttempt
    /\ UNCHANGED <<call, answer, files, history>>

ForgottenUsage(c) == 0

(* load_call_usage keeps the counts of capped grants that still exist.        *)
KeptUsage(c) == IF c \in granted /\ MaxCalls[c] # 0 THEN usageDisk[c] ELSE 0

(* start_using and Gateway::new: a new process reads what the files hold.     *)
Restart ==
    /\ broker = "down"
    /\ restarts < MaxRestarts
    /\ restarts' = restarts + 1
    /\ broker' = "up"
    /\ marker' = FALSE
    /\ vaultOpen' = TRUE
    /\ journal' = disk
    /\ usage' = [c \in Caps |-> KeptUsage(c)]
    /\ UNCHANGED <<calls, rate, approvals, granted, disk, usageDisk, history>>

(* A minute has passed since the window of c began.                           *)
WindowEnds(c) ==
    /\ broker # "down"
    /\ rate[c] > 0
    /\ rate' = [rate EXCEPT ![c] = 0]
    /\ UNCHANGED <<lifecycle, calls, journal, usage, vaultOpen, approvals, files, history>>
-----------------------------------------------------------------------------
(* The steps of attempt a that the broker takes by itself.                    *)
Step(a) ==
    \/ TurnComes(a) \/ TurnTimesOut(a)
    \/ PrepareRefused(a) \/ PrepareAnswered(a) \/ PrepareReady(a) \/ PrepareGated(a)
    \/ Approved(a) \/ Denied(a) \/ LockedWhileAsking(a) \/ ApprovalTimesOut(a)
    \/ Resume(a) \/ TooLate(a) \/ OverBudget(a)
    \/ ClearDenied(a) \/ ClearRead(a) \/ Send(a)
    \/ \E save \in Saves :
         \/ ChargeCalls(a, save) \/ Authorize(a, save) \/ ClearWrite(a, save)
         \/ Answered(a, save) \/ Unsendable(a, save) \/ Close(a, save)

Next ==
    \/ \E a \in Attempts : Step(a) \/ Disconnect(a) \/ \E s \in Shapes : Arrive(a, s)
    \/ \E q \in Attempts : Forget(q) \/ \E d \in {"approved", "denied"} : Decide(q, d)
    \/ \E c \in Caps : Withdraw(c) \/ WindowEnds(c)
    \/ RequestLock \/ Drain \/ StopSession \/ Drained \/ Crash \/ Restart

(* Every wait of a call ends by a timer and the rest of it is plain code, so  *)
(* an attempt that can go on does.  The watch loop looks for the marker every *)
(* 200 ms and the server exits once drained.  Nothing is assumed of people,   *)
(* clients or the service.                                                    *)
Fairness ==
    /\ \A a \in Attempts : WF_vars(Step(a))
    /\ WF_vars(marker /\ Drain)
    /\ WF_vars(Drained)

Spec == Init /\ [][Next]_vars /\ Fairness
-----------------------------------------------------------------------------
(* SECURITY.md: one creation per capability and request_id.  A write leaves   *)
(* the machine at most once, over retries, twins that waited on the same      *)
(* answer, failed saves, dropped connections, crashes and restarts.           *)
AtMostOnce ==
    \A a, b \in sent : IsWrite(a) /\ IsWrite(b) /\ Key(a) = Key(b) => a = b

(* max_calls bounds what leaves under a capability, whatever number of broker *)
(* processes served it and whatever saves of the count failed.                *)
BudgetHolds ==
    \A c \in Caps : MaxCalls[c] # 0 => Cardinality({a \in sent : Cap(a) = c}) <= MaxCalls[c]

(* Whatever left the machine is accounted for in files that outlive a crash:  *)
(* an "authorized" audit line, a unit of the budget, a journal record with    *)
(* the arguments of the write.                                                *)
SentIsOnRecord ==
    \A a \in sent :
      /\ a \in authorized
      /\ MaxCalls[Cap(a)] # 0 => a \in charged
      /\ IsWrite(a) => disk[Key(a)] # Absent /\ disk[Key(a)].hash = call[a].hash

(* A write that ends with any error but write_outcome_unknown has not left    *)
(* the machine, so its caller may safely try again.                           *)
DefiniteErrorMeansUnsent ==
    \A a \in Attempts :
      stage[a] = "done" /\ IsWrite(a) /\ result[a] \in Definite => a \notin sent

(* A write is reported done only if the service acted on a request with these *)
(* very arguments, be it this attempt or the one it repeats.                  *)
OkMeansApplied ==
    \A a \in Attempts :
      stage[a] = "done" /\ IsWrite(a) /\ result[a] = "ok" =>
        \E b \in applied : call[b] = call[a]

(* So what a caller is told of a write can be relied on either way.           *)
RepliesAreHonest == DefiniteErrorMeansUnsent /\ OkMeansApplied

(* A gated call leaves only on a person's yes to exactly this call.           *)
GatedNeedsAYes ==
    \A a \in sent :
      call[a].kind \in Gated[Cap(a)] =>
        /\ ticket[a] # NoAttempt
        /\ answer[ticket[a]] = "approved"
        /\ call[ticket[a]] = call[a]

(* A revocation or a lock that comes before the last look at the              *)
(* authorization stops the call, wherever it waits.                           *)
DoomedIsNeverSent == doomed \cap sent = {}

(* Nor is the result of a call told that was overtaken on its way.            *)
OvertakenIsNeverTold ==
    \A a \in doomed \cup cut : stage[a] = "done" => result[a] # "ok"

(* Withdrawn access neither lets a call out nor its result back.              *)
WithdrawnIsStopped == DoomedIsNeverSent /\ OvertakenIsNeverTold

(* What a file says of a write that is over is never taken back or changed,   *)
(* not by a restart and not by saves that fail in between.                    *)
SettledIsFinal ==
    [][\A k \in Keys :
         disk[k].outcome \notin {"absent", "started"} => disk'[k] = disk[k]]_vars

(* Every call ends, with nobody at the prompt and no answer from the service. *)
CallEnds == \A a \in Attempts : a \in InFlight ~> a \notin InFlight

(* The gateway uses the approval queue only as Approvals allows.              *)
ApprovalPart ==
    INSTANCE Approvals WITH
        Keys <- Shapes,
        NoKey <- NoShape,
        key <- [a \in Attempts |-> IF ticket[a] = NoAttempt THEN NoShape ELSE call[a]]
ApprovalsUsedAsPromised == ApprovalPart!Spec
=============================================================================
