------------------------------- MODULE Bridge -------------------------------
(* One tool call of a client: the bridge it talks to (protocol.rs), the       *)
(* contract of the tools the broker lists (protocol.rs, model.rs,             *)
(* service_api.rs), what the gateway makes of the arguments (gateway.rs), the *)
(* request and the answer of the service (upstream.rs, service_api.rs), and   *)
(* the seconds each of them may take.  What memory and files of the broker    *)
(* hold is the subject of Gateway; here a save works, fails or takes time.    *)
EXTENDS Integers, FiniteSets, FiniteSetsExt

CONSTANTS
    Grants,         \* the grants considered
    Arguments,      \* the calls considered
    ConnectTimeout, \* of the bridge's HTTP client: 2 seconds
    CALL_TIMEOUT,   \* how long the bridge listens, 25
    CALL_BUDGET,    \* how long the broker gives itself, 22
    QUEUE_WAIT,     \* for the execution lock, 5
    WAIT,           \* for a person, 15
    UPSTREAM_RESERVE, \* kept for the service while a person is asked, 5
    MIN_SEND,       \* the least a request is sent with, 1
    TIMEOUT,        \* for the service, 20
    MaxSlow         \* bound of the model: seconds lost outside the waits

\* Its turn is over before the time reserved for the service begins, and the
\* service is never given less than was reserved for it.
ASSUME SecondsAssumption ==
    /\ {ConnectTimeout, CALL_TIMEOUT, CALL_BUDGET, QUEUE_WAIT, WAIT, UPSTREAM_RESERVE,
        MIN_SEND, TIMEOUT, MaxSlow} \subseteq Nat
    /\ QUEUE_WAIT + UPSTREAM_RESERVE <= CALL_BUDGET
    /\ UPSTREAM_RESERVE <= TIMEOUT

VARIABLES
    grant,      \* what the client's capability stands for
    granted,    \* it is still in the configuration
    stage,      \* where the call is
    call,       \* the call; once its arguments are used only its tool
    age,        \* seconds since the bridge sent the request
    began,      \* when the broker took it
    until,      \* when the present wait ends
    slow,       \* seconds lost outside the waits
    asked,      \* a person was asked
    sent,       \* the request has left for the service
    reply,      \* what the broker answers
    verdict     \* what the bridge tells the client

gvars == <<grant, granted, stage, call, age, began, until, slow, asked, sent, reply, verdict>>
request == <<age, began, until, slow, asked, sent>>

Providers == {"github", "gitlab", "api_key"}
Issues == {"list_issues", "get_issue", "create_issue"}
Apis == {"api_read", "api_write"}
Models == {"model_list", "model_invoke"}
Operations == Issues \cup Apis \cup Models
is_write(o) == o \in {"create_issue", "api_write", "model_invoke"}

tool_name(o, p) == <<p, o>>
Catalog == <<"monica", "list_connections">>

----------------------------------------------------------------------------
(* The contract: which grants there may be, what is listed of one, and which  *)
(* calls are taken.                                                           *)

(* What may be wrong with a value: it breaks a bound that the schema states   *)
(* ("size") or one that it does not ("unlisted": the bytes of an API call,    *)
(* the bytes and characters of a title), or is no path, headers or base64 of  *)
(* the kind that the schema describes.                                        *)
Flaws == {"size", "unlisted", "path", "headers", "encoding"}
Repositories == {"a/b", "a/c", "group/a/b", "bad", "*"}
Grant == [provider : Providers, operations : SUBSET Operations,
          repositories : SUBSET Repositories, approval : {"off", "write", "all"}]
Argument == [tool : (Providers \cup {"monica"}) \X (Operations \cup {"list_connections"}),
             connection : {"absent", "own", "other"},
             repository : Repositories \cup {"absent"},
             method : {"none", "get", "GET", "HEAD", "POST", "PUT", "TRACE"},
             surface : {"none", "rest", "graphql"}, path : BOOLEAN, body : BOOLEAN,
             request_id : {"absent", "uuid", "text"},
             flaw : Flaws \cup {"none"}]
ASSUME ContractAssumption == Grants \subseteq Grant /\ Arguments \subseteq Argument

(* validate_repository, by kind: "group/a/b" has more segments than GitHub    *)
(* takes, "bad" none that anybody does.                                       *)
validate_repository(r, p) ==
    /\ p # "api_key"
    /\ r \in {"a/b", "a/c", "group/a/b"}
    /\ p = "github" => r # "group/a/b"

(* validate_grant_scope: a grant is for issues of repositories, for the whole *)
(* API of a service, or for its models.                                       *)
validate_grant_scope(repositories, operations, p) ==
    \/ operations \subseteq Models /\ p = "api_key" /\ repositories = {"*"}
    \/ operations \subseteq Apis /\ repositories = {"*"}
    \/ operations \subseteq Issues /\ \A r \in repositories : validate_repository(r, p)

(* issue_grant and Config::validate.                                          *)
ValidGrant(g) ==
    /\ g.operations # {} /\ g.repositories # {}
    /\ validate_grant_scope(g.repositories, g.operations, g.provider)

(* tools_for: a tool with the schema of its arguments.  A call that names no  *)
(* surface means REST.  Only api_write requires the id that both API tools    *)
(* list, and create_issue has one of its own.                                 *)
Methods(o) ==
    IF o \in Apis THEN IF is_write(o) THEN {"POST", "PUT"} ELSE {"GET", "HEAD"} ELSE {"none"}
Surfaces(g, o) ==
    {"none"} \cup (IF o \notin Apis THEN {}
                  ELSE IF g.provider = "api_key" THEN {"rest"} ELSE {"rest", "graphql"})
Ids(o) ==
    IF is_write(o) THEN {"uuid"}
    ELSE IF o \in Apis THEN {"absent", "uuid", "text"} ELSE {"absent"}
tools_for(g) ==
    {[tool |-> tool_name(o, g.provider), operation |-> o,
      methods |-> Methods(o), surfaces |-> Surfaces(g, o), ids |-> Ids(o),
      repositories |-> g.repositories,
      repository_required |-> Cardinality(g.repositories) # 1] : o \in g.operations \ Models}

(* No arguments but those of every tool; the catalog takes none at all.       *)
Bare(c) ==
    /\ c.repository = "absent" /\ c.connection = "absent" /\ c.request_id = "absent"
    /\ c.method = "none" /\ c.surface = "none" /\ ~ c.path /\ ~ c.body /\ c.flaw = "none"

(* A call as the schema of its tool and the texts in it allow: GraphQL        *)
(* requires api_write, and a body belongs to every API call as it does to an  *)
(* issue that is created.                                                     *)
Conforms(c, t) ==
    /\ c.tool = t.tool
    /\ c.connection \in {"absent", "own"}
    /\ c.repository \in t.repositories \/ (c.repository = "absent" /\ ~ t.repository_required)
    /\ c.method \in t.methods /\ c.surface \in t.surfaces /\ c.request_id \in t.ids
    /\ c.surface = "graphql" => t.operation = "api_write"
    /\ c.body => t.operation \in Apis \cup {"create_issue"}
    /\ c.path => t.operation \in Apis
    /\ c.flaw \in {"none", "unlisted"}

(* A mutant of resolve_scope: the default is the first of several, too.       *)
FirstOf(g, c) ==
    IF c.connection = "other" THEN "refused"
    ELSE IF c.repository # "absent" THEN c.repository
    ELSE CHOOSE r \in g.repositories : TRUE

(* resolve_scope: the repository of the call, the only one where it has none. *)
resolve_scope(g, c) ==
    IF c.connection = "other" \/ (c.repository = "absent" /\ Cardinality(g.repositories) # 1)
    THEN "refused"
    ELSE IF c.repository # "absent" THEN c.repository
    ELSE CHOOSE r \in g.repositories : TRUE

(* Operation::from_tool: the operation of that name, if there is one.         *)
from_tool(t, p) ==
    {o \in Operations \ Models : (p # "api_key" \/ o \in Apis) /\ tool_name(o, p) = t}

(* The path stays below the base of the connection, however it is encoded.    *)
url(c) == c.flaw # "path"

(* Headers which authenticate or route are set by the gateway alone.          *)
extra_headers(c) == c.flaw # "headers"

make_ascii_uppercase(m) == IF m = "get" THEN "GET" ELSE m

(* ApiArgs::parse: a read takes neither body nor id, GraphQL is a POST with   *)
(* no path, and sizes and encodings are a flaw like any other.                *)
ApiParses(o, c) ==
    LET method == make_ascii_uppercase(c.method)
    IN
    /\ c.flaw \notin {"size", "unlisted", "encoding"}
    /\ url(c) /\ extra_headers(c)
    /\ method \in {"GET", "HEAD", "POST", "PUT"}
    /\ c.surface = "graphql" => method = "POST" /\ ~ c.path
    /\ is_write(o) <=> method \in {"POST", "PUT"}
    /\ ~ is_write(o) => ~ c.body /\ c.request_id = "absent"
    /\ is_write(o) => c.request_id = "uuid"

(* Arguments::parse.                                                          *)
Parses(o, c, p, repository) ==
    IF o \in Apis
    THEN ApiParses(o, c) /\ repository = "*" /\ (p = "api_key" => c.surface # "graphql")
    ELSE /\ c.flaw = "none" /\ c.method = "none" /\ c.surface = "none" /\ ~ c.path
         /\ c.body => o = "create_issue"
         /\ c.request_id = IF o = "create_issue" THEN "uuid" ELSE "absent"
         /\ validate_repository(repository, p)

(* The checks of prepare on the call itself.                                  *)
Takes(g, c) ==
    \/ c.tool = Catalog /\ Bare(c)
    \/ \E o \in from_tool(c.tool, g.provider) \cap g.operations :
          LET repository == resolve_scope(g, c)
          IN  Parses(o, c, g.provider, repository) /\ repository \in g.repositories

----------------------------------------------------------------------------
Nothing == [tool |-> Catalog]
Writes(t) == \E o \in Operations, p \in Providers : is_write(o) /\ t = tool_name(o, p)
Requires(g, t) == g.approval = "all" \/ (g.approval = "write" /\ Writes(t))

ReplyKinds == {"ok", "unknown", "invalid", "unauthorized", "busy", "denied", "unanswered",
            "failed", "upstream"}
Stages == {"idle", "connect", "turn", "prepare", "asking", "again", "dispatch", "send",
           "service", "close", "reply", "told"}
Waits == {"connect", "turn", "asking", "again", "service"}

BridgeTypeOK ==
    /\ grant \in Grants /\ ValidGrant(grant) /\ granted \in BOOLEAN
    /\ stage \in Stages /\ call \in Arguments \cup [tool : Providers \X Operations \cup {Catalog}]
    /\ age \in 0..CALL_TIMEOUT /\ began \in 0..CALL_TIMEOUT /\ until \in Nat /\ slow \in 0..MaxSlow
    /\ asked \in BOOLEAN /\ sent \in BOOLEAN
    /\ reply \in ReplyKinds \cup {"none"} /\ verdict \in ReplyKinds \cup {"none", "unavailable"}

BridgeInit ==
    /\ grant \in {g \in Grants : ValidGrant(g)} /\ granted = TRUE
    /\ stage = "idle" /\ call = Nothing
    /\ age = 0 /\ began = 0 /\ until = 0 /\ slow = 0 /\ asked = FALSE /\ sent = FALSE
    /\ reply = "none" /\ verdict = "none"

Revoke ==
    /\ granted /\ granted' = FALSE
    /\ UNCHANGED <<grant, stage, call, request, reply, verdict>>

(* McpBridge::call_tool and exchange.                                         *)
Call(c) ==
    /\ stage \in {"idle", "told"}
    /\ call' = c
    /\ stage' = "connect" /\ until' = ConnectTimeout
    /\ sent' = FALSE /\ verdict' = "none"
    /\ UNCHANGED <<grant, granted, age, began, slow, asked, reply>>

Goes(s) == stage' = s /\ UNCHANGED <<grant, granted, reply, verdict>>
Replies(r) ==
    /\ stage' = "reply" /\ reply' = r
    /\ UNCHANGED <<grant, granted, verdict>>

(* What is still asked of a call once its arguments are used: its tool.       *)
Named == [tool |-> call.tool]

(* boundary: a capability that is not in force is turned away at the door.    *)
Arrive ==
    /\ stage = "connect"
    /\ IF granted
       THEN Goes("turn") /\ began' = age /\ until' = age + QUEUE_WAIT /\ UNCHANGED call
       ELSE Replies("unauthorized") /\ call' = Named /\ UNCHANGED <<began, until>>
    /\ UNCHANGED <<age, slow, asked, sent>>

(* turn, for the first time.                                                  *)
Enter == stage = "turn" /\ Goes("prepare") /\ UNCHANGED <<call, request>>
TurnedAway ==
    /\ stage \in {"turn", "again"}
    /\ Replies("busy") /\ call' = Named
    /\ UNCHANGED request

Deadline == began + CALL_BUDGET

(* await_approval waits for WAIT at most, and never into the reserve.         *)
AskUntil == Min({age + WAIT, Deadline - UPSTREAM_RESERVE})

(* Beside the call itself the marker, the rate, the credential and the        *)
(* journal decide, and may answer it.                                         *)
Settled == \E r \in {"ok", "failed", "unknown"} : Replies(r)

(* prepare.                                                                   *)
Prepare ==
    /\ stage = "prepare"
    /\ call' = Named
    /\ \/ ~ granted /\ Replies("unauthorized") /\ UNCHANGED <<until, asked>>
       \/ granted /\ ~ Takes(grant, call) /\ Replies("invalid") /\ UNCHANGED <<until, asked>>
       \/ granted /\ Takes(grant, call) /\ Settled /\ UNCHANGED <<until, asked>>
       \/ granted /\ Takes(grant, call) /\ call.tool # Catalog
            /\ asked' = Requires(grant, call.tool)
            /\ Goes(IF asked' THEN "asking" ELSE "dispatch")
            /\ until' = IF asked' THEN AskUntil ELSE until
    /\ UNCHANGED <<age, began, slow, sent>>

(* await_approval, and turn after it with what is left.                       *)
PersonSays(yes) ==
    /\ stage = "asking"
    /\ IF yes
       THEN /\ Goes("again")
            /\ until' = age + Min({QUEUE_WAIT, IF Deadline - UPSTREAM_RESERVE > age
                                                THEN Deadline - UPSTREAM_RESERVE - age ELSE 0})
       ELSE Replies("denied") /\ UNCHANGED until
    /\ UNCHANGED <<call, age, began, slow, asked, sent>>
NobodyAnswers ==
    /\ stage = "asking" /\ age >= until
    /\ Replies("unanswered")
    /\ UNCHANGED <<call, request>>
Resume ==
    /\ stage = "again"
    /\ IF granted THEN Goes("dispatch") \/ Settled ELSE Replies("unauthorized")
    /\ UNCHANGED <<call, request>>

(* dispatch: without time to finish nothing is spent.  Then the budget, the   *)
(* audit line and the journal are saved; each may fail.                       *)
Dispatch ==
    /\ stage = "dispatch"
    /\ \/ age + MIN_SEND > Deadline /\ Replies("busy")
       \/ age + MIN_SEND <= Deadline /\ (Goes("send") \/ Replies("failed"))
    /\ UNCHANGED <<call, request>>

(* A mutant of TimeLeft: the reserve is kept from the service as well.        *)
TimeBeforeReserve ==
    IF Deadline - UPSTREAM_RESERVE > age THEN Deadline - UPSTREAM_RESERVE - age ELSE 0

TimeLeft == IF Deadline > age THEN Deadline - age ELSE 0

(* recheck_access, and upstream::execute with what is left of the budget.  A  *)
(* credential that is no header, say, keeps the request from leaving.         *)
Send ==
    /\ stage = "send"
    /\ \/ granted /\ Goes("service") /\ sent' = TRUE /\ until' = age + Min({TimeLeft, TIMEOUT})
       \/ ~ granted /\ Replies("unauthorized") /\ UNCHANGED <<sent, until>>
    /\ UNCHANGED <<call, age, began, slow, asked>>
NotSent ==
    /\ stage = "send" /\ granted
    /\ stage' = "close" /\ reply' = "failed"
    /\ UNCHANGED <<grant, granted, call, request, verdict>>

(* What the service may answer: nothing, a redirection, an error status, too  *)
(* much, bytes that are no JSON, the credential itself, another issue than    *)
(* was asked for, more issues than fit a page, or what it should.             *)
Answer == {"lost", "redirect", "rejected", "large", "garbled", "secret", "foreign", "crowded", "good"}

(* reject_secret_value: the credential is in no answer, however encoded.      *)
reject_secret(k) == k # "secret"

(* project_issue: of an issue a few fields are kept, and its link is built.   *)
project_issue(k) == k # "foreign"
project_response(k) == k # "crowded" /\ project_issue(k)

(* read_response, for issues: any flaw blocks the answer.                     *)
read_response(k) ==
    /\ k \notin {"lost", "redirect", "rejected", "large", "garbled"}
    /\ reject_secret(k) /\ project_response(k)

(* response, for the whole API: the status is the client's to read, and bytes *)
(* that are no JSON are passed in base64.                                     *)
response(k) == k \notin {"lost", "redirect", "large"} /\ reject_secret(k)

(* execute: once a write has left, no error can say that it was not done.     *)
Outcome(t, k) ==
    IF (IF t[2] \in Apis THEN response(k) ELSE read_response(k)) THEN "ok"
    ELSE IF Writes(t) THEN "unknown" ELSE "upstream"
ServiceAnswers(k) ==
    /\ stage = "service"
    /\ stage' = "close" /\ reply' = Outcome(call.tool, k)
    /\ UNCHANGED <<grant, granted, call, request, verdict>>

(* A mutant of Closed: an error of the last save is told as it is.            *)
ClosedPlainly(t, r, fails) == IF fails THEN "failed" ELSE r

(* The end of dispatch and of call: the journal, the last look at the         *)
(* authorization and the audit line.                                          *)
Closed(t, r, fails) ==
    IF ~ fails THEN r ELSE IF Writes(t) THEN "unknown" ELSE "failed"
Close ==
    /\ stage = "close"
    /\ \E fails \in BOOLEAN :
        /\ ~ granted => fails
        /\ Replies(Closed(call.tool, reply, fails))
    /\ UNCHANGED <<call, request>>

(* A mutant of Uncertain: the tools of one provider only.                     *)
OfGithub(t) == \E o \in Operations : is_write(o) /\ t = tool_name(o, "github")

(* exchange: which calls are writes is known by the name of the tool alone.   *)
Uncertain(t) == Writes(t)
TransportError == IF Uncertain(call.tool) THEN "unknown" ELSE "unavailable"
Told(v) ==
    /\ stage' = "told" /\ verdict' = v /\ reply' = "none"
    /\ age' = 0 /\ began' = 0 /\ until' = 0 /\ slow' = 0 /\ asked' = FALSE
    /\ UNCHANGED <<grant, granted, call, sent>>
Hear == stage = "reply" /\ Told(reply)

(* No connection, an answer that breaks off or is too large; and the end of   *)
(* the time the bridge listens.                                               *)
Lose == stage \in {"connect", "turn", "prepare", "asking", "again", "dispatch", "send", "service",
                   "close", "reply"} /\ Told(TransportError)
StopListening ==
    /\ stage \notin {"idle", "told"} /\ age = CALL_TIMEOUT
    /\ Told(TransportError)

(* A second passes: in a wait that is not over, or else as one of the seconds *)
(* that loopback, files and the processor take.                               *)
Second ==
    /\ stage \notin {"idle", "told"} /\ age < CALL_TIMEOUT
    /\ age' = age + 1
    /\ IF stage \in Waits /\ age < until THEN UNCHANGED slow ELSE slow < MaxSlow /\ slow' = slow + 1
    /\ UNCHANGED <<grant, granted, stage, call, began, until, asked, sent, reply, verdict>>

BridgeNext ==
    \/ Revoke \/ Arrive \/ Enter \/ TurnedAway \/ Prepare \/ NobodyAnswers \/ Resume
    \/ Dispatch \/ Send \/ NotSent \/ Close \/ Hear \/ Lose \/ StopListening \/ Second
    \/ \E c \in Arguments : Call(c)
    \/ \E yes \in BOOLEAN : PersonSays(yes)
    \/ \E k \in Answer : ServiceAnswers(k)

BridgeSpec == BridgeInit /\ [][BridgeNext]_gvars

----------------------------------------------------------------------------
(* The arguments of a call are used now: it is refused or goes on.            *)
Judged == stage = "prepare" /\ stage' \in {"reply", "asking", "dispatch"} /\ granted

(* What the broker takes, the case of the method aside, is a call of a tool   *)
(* it lists for the client, for a repository and a connection of the grant,   *)
(* by a method of that tool: a change under the name of a read, say, never    *)
(* gets by (protocol.rs:178 against model.rs:194, service_api.rs:52 and       *)
(* gateway.rs:680).                                                           *)
TakenIsListed ==
    [][Judged /\ reply' # "invalid" =>
         \/ call.tool = Catalog /\ Bare(call)
         \/ \E t \in tools_for(grant) :
              Conforms([call EXCEPT !.method = make_ascii_uppercase(@)], t)]_gvars

(* A client that keeps to the schemas it is given is not turned away for its  *)
(* arguments: so says the schema of api_read of its body, whose text, the     *)
(* same as that of api_write, is at service_api.rs:43.                        *)
ListedIsTaken ==
    [][Judged /\ (\/ call.tool = Catalog /\ Bare(call)
                  \/ \E t \in tools_for(grant) : Conforms(call, t))
         => reply' # "invalid"]_gvars

(* What a client is told of a write, an error that leaves it open excepted,   *)
(* is so: an error means that the request has not left, whatever was lost,    *)
(* late or failed on the way back (protocol.rs:264, gateway.rs:537).          *)
BridgeIsHonest ==
    stage = "told" /\ Writes(call.tool) /\ sent => verdict \in {"ok", "unknown"}

(* The waits add up: unless files and loopback cost more than the margin, the *)
(* broker answers while the bridge still listens, and a call that a person    *)
(* allowed leaves with the time reserved for the service (gateway.rs:27, 42). *)
Margin == CALL_TIMEOUT - ConnectTimeout - CALL_BUDGET
TimeIsEnough ==
    [][/\ stage # "told" /\ age' = CALL_TIMEOUT => slow' >= Margin
       /\ stage = "send" /\ stage' = "service" /\ asked => until' + slow >= age + UPSTREAM_RESERVE]_gvars
=============================================================================
