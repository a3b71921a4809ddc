# Models and proofs of the Monica credential gateway

Monica lets AI clients call services with credentials they never see. A person
unlocks an encrypted vault in a broker process; clients reach that process over
loopback with a capability, and the broker decides call by call whether a request
leaves the machine. Around it the same program keeps the vault, shares it between
devices over WebDAV, serves the browsers' extension, installs itself into AI clients,
and has a terminal interface. This directory holds TLA+ modules of that program, the
TLC configurations that check them and the proofs that TLAPS checks. Paths such as
`gateway.rs:507` are below `src/src/`.

## Inventory

| part | state it keeps | operations | what makes it hard |
|---|---|---|---|
| approval queue, `approval.rs` | at most 8 slots, each with a cell shared with the calls that wait on it | ask, decide, waiting, deny_all, prune | twins and retries share cells; overflow; two clocks; a broker that goes away |
| call gateway, `gateway.rs`, `upstream.rs` | execution lock, rate windows, write journal, usage counts; journal, usage and audit files | call = turn, prepare, await_approval, dispatch, execute, audit | the lock is let go while a person is asked; saves that fail or only look failed; crashes; dropped connections |
| broker server and session, `protocol.rs`, `admin.rs` | the unlocked vault, the listener, the stop signal | start, serve, drain, stop, drop | calls in flight while it drains |
| bridge and contract of the tools, `protocol.rs`, `model.rs`, `service_api.rs` | none | list tools, one POST per tool call, validate it | a reply that comes after 25 s is lost; waits that must add up; what is listed and what is taken |
| broker lock and marker, `config.rs`, `admin.rs` | an OS lock, a marker file | acquire_broker_lock, request_lock, lock_broker | several processes; a marker that is removed at start |
| configuration, `config.rs`, `admin.rs` | connections and grants in one file, client files beside it, credentials in the vault | update, issue, refresh, revoke, update_token, delete_connection | three files that change one after the other |
| model proxy, `ai_proxy.rs`, `gateway/proxy.rs` | four slots, leases, streams | admit, forward, stream, recheck, end | a stream outlives the check that let it start; a client that does not read |
| WebDAV file sync, `sync.rs`, `webdav.rs` | a binding: digests of both sides at the last exchange | publish, open_remote, synchronize | other devices write too; answers are lost or late |
| segment sync, `segment.rs` | a cursor file: export base, pending segment, streams received | synchronize, export, receive, bootstrap, reanchor | crashes between upload, apply and save; lost cursors; second copies |
| vault and library, `vault.rs`, `library.rs`, `passwords.rs`, `object.rs` | the encrypted store: categories and entries with heads | create, move, edit, delete, seed Android's category | what a merge brings: cycles, newer heads, moved folders |
| browser host, `browser.rs`, `browser/receipts.rs` | a session per browser, receipts on disk | unlock, execute, status | repetitions, deaths and power loss; two browsers; a database switched underneath |
| client installation, `install.rs`, `direct_config.rs` | other programs' configuration files and backups | merge, back up, write | an owner who edits the same file |
| terminal interface, `tui/` | the page, selections, filters, a form, one task, perhaps a broker | keys, reload, apply, quit | tasks that finish late; a world that changes under an open form |
| command line, `cli_run.rs` | while it serves: the prompt and what was typed | serve, and one command after another | lines on their way to the prompt |
| key and password formats, keychains, clipboard, languages | none or external | | sequential |

How they meet. A client's tool call goes from the bridge to the server, which hands it
to the gateway; the gateway reads the configuration and the lock marker again and again
(other processes write both), reads the vault it has open, asks the approval queue, and
writes the journal, the usage counts and the audit file. A person answers the queue at
the prompt of `serve` or in the terminal interface. A person's commands, the terminal
interface and the browser hosts run the operations of `admin.rs`, `library.rs` and
`passwords.rs` in processes of their own; they meet the broker through files and two OS
locks only: whoever edits a vault holds the broker lock. The two sync engines run in
such a process too and end in an update of the configuration. The model proxy runs in
the broker beside the gateway and shares its approvals, rates and budget.

What makes each part correct:

| part | must hold | as |
|---|---|---|
| approval queue | an approval is a person's, for exactly that call; a call that waits can be answered; an answer that comes as its call gives up is there for the next one; a spent answer serves one further attempt | `ApprovalIsAPersons`, `WaiterCanBeAnswered`, `LateAnswerIsHonoured`, `PromiseKept` |
| call gateway | a write leaves at most once; what leaves is within the budget and on record; no reply contradicts what left; what is settled stays; access that was taken away is honoured wherever the call waits; every call ends | `AtMostOnce`, `BudgetHolds`, `SentIsOnRecord`, `RepliesAreHonest`, `SettledIsFinal` (proved), `GatedNeedsAYes`, `WithdrawnIsStopped`, `ApprovalsUsedAsPromised`, `CallEnds` |
| bridge | nothing is taken that is not listed, and what is listed is taken; what is told of a write is true; the waits leave time for each other | `TakenIsListed`, `ListedIsTaken` (violated), `BridgeIsHonest`, `TimeIsEnough` |
| broker lock and marker | one process edits the vault or serves it at a time; a requested lock ends the broker | `BrokerServesTheVault`, `LockIsHonoured` |
| configuration | the file always passes its validation; a revocation is never overwritten; a grant keeps the token it was confirmed for; an issued client file stays; a deleted token has no live grant | `TypeOK`, `RevokedStaysRevoked`, `GrantsKeepTheirToken`, `AnsweredGrantsKeepTheirFile`, `NoGrantOfADeletedToken` (violated) |
| model proxy | a slot comes back whatever ends a stream; no more connections than slots; one event at most is handed over after access ended | `SlotComesBack`, `NoMoreThanSlots` (proved), `LittleAfterTheEnd` |
| WebDAV file sync | neither device's work is overwritten unseen; a copy is replaced only by one with its edits; a lost answer is recovered by the next run; all converge or one is told of a conflict | `NothingOverwritten`, `NoEditLeftBehind`, `UpToDateIsSame` (proved), `SharedFilesConverge` |
| segment sync | every commit reaches every device; the base never jumps over work; the cursor never runs ahead of the copy; a name means one segment | `TreesConverge`, `NothingJumped`, `ReceivedIsHeld`, `OneSegmentPerName`, `OpenedIsWhole` (violated) |
| library | the listing shows every category once and in order, whatever cycles a merge brought; no command makes a cycle or strands an entry; an edit replaces only what its author saw | `EveryCategoryIsListed`, `CommandsKeepTheTree`, `PasswordsAreKept` |
| browser host | an operation id takes effect at most once, where it was meant; what the extension is told is true | `OnceWhereMeant`, `TruthfulReplies` |
| client installation | the owner of a file loses no setting: it is in the file or in a backup | `OwnerLosesNothing` |
| terminal interface | no broker and no opened entry is left behind; who quits gets out; a form does what was shown; only the person moves a selection | `NothingLeftBehind`, `QuittingEnds`, `ActedOnWhatWasShown`, `SelectionIsKept` |
| prompt of `serve` | a yes is for the call the person saw, as a comment says; short of that, for one that took over while the line was on its way | `YesIsForThePromptSeen` (violated), `MixedUpOnlyInTransit` (proved) |

## Modules

| module | models | proved in |
|---|---|---|
| `Approvals` | what the approval queue promises its callers (abstract) | |
| `ApprovalQueue` | `approval.rs` and the waiting loop of `Gateway::await_approval`; implements `Approvals` | `CallProofs` |
| `Bridge` | one call through `protocol.rs`, the contract of `model.rs` and `service_api.rs`, its validation and its seconds | `CallProofs` |
| `Gateway` | `gateway.rs`, with the parts of `protocol.rs`, `upstream.rs`, `admin.rs` and `config.rs` a call meets; implements `Approvals` in the queue it uses | `GatewayProofs` |
| `Management` | `config.rs` and `admin.rs`: processes that change configuration, vault, client files and marker | `ManagementProofs` |
| `SegmentSync` | `segment.rs`, with the opening of `sync.rs` and the attachments of `blobs.rs` | `SegmentSyncProofs` |
| `FileSync` | `sync.rs` and `webdav.rs` for a vault kept as one remote file | `FileSyncProofs` |
| `ModelProxy` | `ai_proxy.rs` and `gateway/proxy.rs` | `ModelProxyProofs` |
| `BrowserHost` | `browser.rs`, `browser/receipts.rs`, with the switch of `databases.rs` | `BrowserHostProofs` |
| `Library` | the commands of `library.rs`, `passwords.rs` and the entries of `vault.rs` and `object.rs` | `WorkstationProofs` |
| `LibraryTree` | the listing of a `Library` by `category_tree`, one action per turn of its loop | `WorkstationProofs` |
| `Tui` | the event loop of `tui/mod.rs` and the task of `tui/actions.rs` | `WorkstationProofs` |
| `Screens` | what `tui/home.rs`, `tui/browser.rs` and `tui/form.rs` show and act on | `WorkstationProofs` |
| `Prompter` | `run_broker` and `spawn_approver` of `cli_run.rs` | `WorkstationProofs` |
| `Installation` | `install.rs` and `direct_config.rs` | `WorkstationProofs` |
| `MCCall` | `ApprovalQueue` or `Bridge`, for TLC | |
| `MCProcesses` | the commands of `Management` or `BrowserHost`, for TLC | |
| `MCSync` | `SegmentSync` or `FileSync`, for TLC | |
| `MCWorkstation` | the broker of `Management`, `Library`, `LibraryTree`, `Tui`, `Screens` or `Installation`, for TLC | |
| `MC...` | instances for TLC: calls, grants, tasks, symmetry | |

How they are put together. `Gateway` uses the approval queue as `Approvals` promises it
and `ApprovalQueue` implements `Approvals`; both are refinements. The other modules meet
in files and locks, which each of them models from its own side as written or held by
somebody else, in every way the others can.

## How the modules correspond to the code

PROJECT.json maps every definition to the lines it stands for. What a reader should know
before comparing:

**ApprovalQueue and Approvals.** A slot of the `Vec<Slot>` belongs to the attempt that
raised its question, so `slots` is a function from attempts to what a slot holds: the id
that fixes its place in the vector, whether it is answered, and its age in ticks. Its
cell is `answer[q]`, where a question `q` is named after the attempt that raised it.
`Ask`, `Decide`, `Look` (`waiting`) and `DenyAll` are the four operations; each prunes
first where the code does. A turn of the loop in `await_approval` is three looks, each a
step of its own: at the answer (`SeeAnswer`, `SeeNoAnswer`), at the marker (`SeeLock`,
`SeeNoLock`) and at the clock (`GiveUp`, `Sleep`); between any two of them a person may
answer, so a call can report that nobody did while the answer is in its cell. The look at
the marker and the `deny_all` that follows it are one step, as nothing removes the marker
while the broker runs and `deny_all` leaves an answer in its cell alone. `owed`
is a history: how long ago a question was answered that no call has heard of since.
`Tick` lets a few seconds pass: the poll comes every 50 ms, so no waiting call sleeps
through the end of its wait.
`Approvals` drops slots, ages and limits and keeps what callers rely on: who may share
an answer, who may be turned down, that answers are final and come from a person.

**Gateway.** An attempt is one POST to `/v1/call`, and a retry is another attempt of the
same `Shape`. Its `stage` is where the handler stands: `queued` and `requeued` wait in
`turn`, `asking` waits in `await_approval` without the lock, `holding` to `sent` hold
the execution lock, `closing` writes the closing audit line. The actions follow `call`,
`prepare`, `await_approval`, `dispatch` and `upstream::execute`, cut at every await and
at every file that is read or written, as other processes act between those. `journal`,
`usage` and `rate` are memory; `disk`, `usageDisk`, `marker` and `granted` are files. A
save has three outcomes, those of `write_json`: written, failed, or `unsynced`, where
the file was replaced and the error came from the sync of its directory. `Disconnect`
drops the handler at an await, `Crash` takes the process away between any two steps,
`Restart` reads the files again.

**Bridge.** One call with everything `Gateway` leaves out: the tools that are listed for
a grant (`tools_for`, `Conforms`), the validation of the call (`parse`, which takes a
call that names no API surface for REST, `service_api.rs:35`), the answers of a service,
and each wait in seconds. `Conforms` is the schema as it is listed with the texts in it:
both API tools list a body and a request id, which `ApiArgs::parse` takes for changes
alone. A limit that the schema does not state, or states in other units than the code
checks, is the flaw `unlisted`, which conforms. `Second` is time; it cannot pass a wait
that is over, and `MaxSlow` seconds are lost outside the waits (scheduling, saves). What
memory and files hold is `Gateway`'s subject: here a save works, fails or takes time.

**Management.** A process takes a task (an operation with its arguments) and goes
through it by `stage`. `checked` stands before `acquire_broker_lock`; `editing` edits
the vault before the configuration; `waiting` stands before the lock of
`ConfigStore::update`; `acting` is the closure that `update` calls with the loaded
configuration (`draft`); `writing` writes the client file, `saving` the configuration;
`undoing` is the removal of the client file when `issue_grant` or `quick_add` fails;
`replacing` is the second half of `update_token`. `starting`, `opening`, `serving` are a
broker, `polling` is `lock_broker`. `add`, `quick`, `issue`, `refresh`, `revoke`,
`token`, `delete` are the operations of `admin.rs`, `merge` is what segment
synchronization does here: rows of the vault change or go, then `apply_remote_vault`
rewrites the connections. `Config::validate` is part of the type of a configuration, so
`TypeOK` says that no operation makes `update` write one that would be refused when it
is loaded. Tokens, credential ids and capabilities are random in the code and the next
number of a counter here.

**SegmentSync.** Files of a device (copies of the vault with their attachments, the
cursor, the configuration) and the run that `synchronize` is, cut at every request and
every file it writes: attachments, publication of the bootstrap, upload and verification
of a segment, the list of streams, receipt, the record of what was received, the closing
re-anchor. `Stop` takes a run away at any step, `Cancel` ends it the way an error does,
`LoseCursor` deletes the cursor, `Switch` and `Open` change the copy in use. A commit
knows the commits it was made on; a segment whose parents are missing blocks its stream.
The encrypted engine is external: what it exports after a checkpoint and what applying a
segment adds are sets of commits.

**FileSync.** Bytes are the edits in them and the form they were written in; a digest or
an ETag stands for the bytes. A conditional PUT is a request on the `wire` that may be
served late or after its sender has given up, and whose answer may be lost. The run is
cut at GET, decision, PUT, verification and save, in the order of `sync.rs:560-760`.

**ModelProxy.** A request goes through slots, queue, approval and connection to a stream
of events. Everything that waits looks again every 200 ms whether access lasts: `armed`
says that the look at the top of the present wait was good, so that what ends access
between the look and the event that follows is a step of its own. The response task and
the stream task meet in a channel of one event.

**BrowserHost.** A host executes one request at a time: it enters the lock on the
receipts, records the operation id, applies it, and completes the record, each with the
failures its file operations have. A dead host leaves the record; `PowerLoss` takes back
what was not synced. `Told` keeps what the extension was told, for `TruthfulReplies`.

**Library.** The tree as the vault holds it, after commands of this program (whose
checks are inside the write, as in the code) and merges that bring any move, deletion or
edit of another device. `move_library_item` climbs from the target as many times as
there are categories; `Climb` is what it meets, as the least set that holds the target
and every parent, so that a proof can reason by such sets about cycles of any length.
`LibraryTree` is the loop of `Library::category_tree` over the categories as they were
read: a turn pops a row of the stack and lists it with its children pushed above the
rest, or skips it, or starts a cycle nothing else reached. `Rank` is the order the
library is sorted in.

**Tui and Screens.** `Tui` is the loop: `Poll` (task, broker and inspection are looked
at), `Tick`, the keys that submit an action, leaving, a screen that fails, and the task
in its two phases, waiting for the broker to stop and running. `Screens` is what is
shown and chosen: the state of `App` that a form or a selection depends on. A frame is
drawn between any two keys, and keeps the marked row of the home page within its rows.
A ranking stands for the fuzzy match of a filter; the filter on the state of an
authorisation is a query of its own, as its rows change with the clock alone.

**Prompter.** A line of the person passes through the terminal, the thread of
`spawn_approver` and its channel before `run_broker` meets it. `Drained` is the loop
that throws earlier lines away before a new prompt; a line finished between that and the
prompt counts as late; `late` is a history that no action reads. A line the thread cannot
read ends it (`cli_run.rs:816`).

**Installation.** A content is the set of settings in it, each written once, so that one
in no file any more has been lost. `back_up` tries names until one is free and copies
(two steps), the write is a rename; the owner writes the file at any moment. The two
kinds of runs differ in what they check before they write.

**MCCall, MCProcesses, MCSync and MCWorkstation.** TLC checks the modules such a module
extends one per behaviour: `subject`, `program` or `kind` says which. The programs of
`MCWorkstation` and of `MCProcesses` meet only in the broker lock and the files, which
each module models from its own side, so an interleaving of two of them shows no more
than each of them does; a remote of `MCSync` is a tree or one file. In `MCCall` a
behaviour shows either the queue or the way of one call: all that the second needs to
know of the first is that a call spends at most `WAIT` in it. `MCSync` and
`MCWorkstation` restate the fairness of their modules for the behaviours that show them,
and `TreesConverge` and `SharedFilesConverge` are `Converges` and `FilesConverge` of
those behaviours. The theorems are about the specification of each module by itself.

## Runs

| run | question | states | outcome |
|---|---|---|---|
| `approval_queue` | Does the queue keep its promises while three calls share two slots and answers come between the looks of a call? Is nothing taken that is not listed, is what is told true, and is there time for every wait? | 893 k | holds |
| `bridge_listed` | Is a call that keeps to the schema of its tool taken, as the schema says? | | violated |
| `gateway_files` | Do memory, files and replies agree over failing saves, disconnects, crashes and restarts? | 1.37 M | holds |
| `gateway_gate` | Does a gated call leave only on a yes, once, and only while access lasts? | 1.19 M | holds |
| `gateway_liveness` | Does every call end? | 335 k | holds |
| `processes` | Do overlapping, failing and dying commands keep revocations, tokens and client files? Are operation ids of browsers used once, where they were meant, and told truly? | 819 k | holds |
| `management_delete` | Is there never a live grant of a deleted token, as a comment says? | | violated |
| `vault_exchange` | Does every commit arrive, over kills, lost cursors, second copies and switches, and is nothing jumped, skipped or named twice? Is no edit of a shared file overwritten or left behind over lost, late and repeated requests, and do devices agree in the end or tell of a conflict? | 325 k | holds |
| `segment_reopened` | Does opening a remote vault replay all its streams hold, as a comment says? | | violated |
| `model_proxy` | Does a stream end with the access to it, and does its slot come back? | 216 k | holds |
| `workstation` | One question per program: is the vault the broker's alone while it serves, and does a lock request end it; is the tree whole; is all of it listed, once and in order; is nothing left behind; do forms do what was shown; is no setting lost? | 318 k | holds |
| `prompt_line` | Is a line typed at one prompt never the answer of another call, as a comment says? | | violated |

Of the 893 k states of `approval_queue`, 709 k are the queue's. Of the 318 k of
`workstation`, 219 k are the screens', 37 k the library's, 36 k the broker's and its
commands', 25 k the installation's, 1 k the listing's, over all trees of three
categories, and 1 k the terminal's. Of the 325 k of `vault_exchange`, 215 k are the
file's; of the 819 k of `processes`, 625 k are the commands'.

The four violations are disagreements between the code and what the repository says of
it; PROJECT.json quotes each.
- `bridge_listed`: the schema of `api_read` lists a body, documented as the body of the
  request, and the code refuses every read that has one (`service_api.rs:67`).
- `management_delete`: a deletion whose second half is missing leaves grants that
  authenticate and then find no credential.
- `segment_reopened`: a device that opens the remote vault again never gets back what it
  published itself, and whoever builds on that waits for its parents for ever.
- `prompt_line`: a yes typed for a call that times out, still on its way when the prompt
  of the next call comes up, approves that one.

Every property of a passing run has a mutant: a plausible slip in a definition that
models code (a guard dropped, a check at the wrong moment, an undo too many) under which
TLC finds the property violated in the same run.

### What else the models made visible

No run is about these, as no property of the project forbids them; some contradict a
line of the repository, which is then named.

- Approvals: a call can report `approval_required` while the answer to it is in its cell,
  given between two of its looks; the next call about the same gets that answer. An
  overflow of answered questions denies the newcomer; a yes serves the
  calls that already wait on it and one more. A retried write whose earlier attempt was
  interrupted before its journal record was saved is charged a second time, against the
  comment at `gateway.rs:507`.
- Model proxy: a stream that breaks while the client is slow ends without the error that
  says so (`ai_proxy.rs:477`), and looks complete; `ai_proxy.rs:560` and
  `api_keys_tests.rs:561` say otherwise.
- Management: an `add` that stores its row and then fails leaves an orphan row; adding
  the connection again stores a second row for the same handle, and every later
  `gateway_inventory` of that vault is refused (`vault.rs:1222`). A changed token loses
  the session even if the password given was wrong, as `lock_broker` comes first.
- Segment sync: the cursor is kept per vault and not per copy (`segment.rs:489`): after
  a switch back to an older copy it claims more than the copy has.
- File sync: after a lost answer to an upload and one more local edit the next run
  reports `sync_conflict` although nobody else wrote (`sync.rs:652`;
  `docs/human-guide.md:791` promises it for changes of both sides).
- Installation: two runs at once may pick the same name for a backup, and one overwrites
  the other's (`install.rs:340`, against `install.rs:337`).
- Library: moving a key leaves its payload in the folder it came from
  (`vault.rs:885`).
- Bridge: a title's limit is counted in characters by the schema and in bytes by the code
  (`model.rs:229`); the request id that the schema of `api_read` lists is refused like
  the body.
- Prompt of `serve`: a line that is not UTF-8 ends the thread and nobody is asked any
  more (`cli_run.rs:778`, `816`); the hint after a yes is printed also when the answer
  came too late to count. In the terminal interface a `y` typed before the new
  question is drawn answers it (`tui/mod.rs:902`).
- Terminal interface: a form that is submitted while a task runs is dropped without a
  word (`tui/mod.rs:511`); the result of a task replaces an open form by a popup;
  `connect` by command with the library closed uses the category that was open before;
  the home row of a saved key is remembered and not used (`tui/mod.rs:1152`); with a
  filter on the state of authorisations the selection slips when one runs out. The
  exceptions in `ActedOnWhatWasShown` and `SelectionIsKept` name these.
- Browser: `Delete` looks its connection up before it takes the lock (`browser.rs:547`).

## Bounds

- Approvals: three attempts, as it takes two to share a question and one to overflow or
  to retry. `MaxSlots` 2 stands for 8: the limit is reached with fewer calls, and the
  choice of whom to turn down needs one answered and one unanswered slot. `AnswerTtl` 3,
  `Linger` 2 and `Wait` 1 keep the order of the code's 90, 60 and 15 seconds, and the one
  relation it relies on, `WAIT < LINGER`.
- Bridge: the seconds are the code's own constants; `MaxSlow` 1, as a second second is
  lost the same way as the first. Grants and calls are those of each kind, and calls
  that fit their tool with one slip each.
- Gateway: two attempts, as the properties speak of pairs (a write and its twin, a call
  and the one that holds the lock). They reach every action, since a queue of `MaxQueued`
  0 or 2 covers both the refusal and the wait. `JournalCap` 1 or 2 for 4096, so that a
  full journal occurs. `Rpm` 1 in the run on files, so that the window fills and ends.
  `MaxCalls` 1 for one grant, none for the other. `MaxRestarts` 1: a second restart
  reads files that no step of the first distinguishes from files it wrote itself.
- Management: two processes, since the locks exclude all others and a third adds order
  but no new pair of steps. `MaxFaults` 2 in `processes`: the second fault hits the
  repair of the first; 1 beside the broker, where a fault only ends a command.
  `MaxFresh` 3: a connection, a grant or a new token, and what replaces one of them.
  Names: two grants of one connection, of which one is only issued. With four fresh
  values `processes` has 3,527,351 states, with two faults beside the broker
  `workstation` has 395,930, and both hold.
- Sync: two devices; two events on a tree, of which one may be a fault; two edits of a
  file and one fault, switch or second open (`TwoEditsOneMishap`); a page of one commit
  and two segments a run, so that a run ends between segments. With three events
  `SegmentSync` has 2,285,998 states and keeps its invariants; with any three moves on
  the file `vault_exchange` has 555,251 and holds.
- Model proxy: two requests for one slot, one leased and one gated.
- Browsers: two hosts and one id beside an old one, two databases.
- Prompt: two calls and two lines, of which the violation needs one.
- Workstation: three categories, two entries and one merge; two connections with one
  authorisation each, three keys and one change by another process; two edits or two
  runs on one file. Larger instances were run by hand and hold: browser hosts with two
  ids (1,323,794 states), five keys on the screens (1.2 M), four commits in the library
  (134,861), more edits and backups (993,190), three calls and three lines at the
  prompt, for what is proved of it (251,254), two connections in `Management` (564,245).
- Symmetry is used for attempts, keys and processes, in runs without liveness. The run
  on files has a VIEW that leaves out two histories no action reads and no property of
  the run mentions.
- Runs do not check for deadlock where the system may stop: all calls over and the
  broker down, a program left, or the counters of the model used up.

## Fairness

Nothing is assumed of people, clients or a service, except in the sync modules that
people go on synchronising.

- `Gateway`: each attempt that can take a step of its own does, `WF(Step(a))`: the waits
  of a call are timers (`QUEUE_WAIT` 5 s, `WAIT` 15 s at most, the upstream limit within
  `CALL_BUDGET` 22 s), and the code between them does not block. `WF(marker /\ Drain)`
  is the watch loop of `serve_broker` that looks for the marker every 200 ms;
  `WF(Drained)` is the exit of the server after its last call. `CallEnds` holds with
  nobody at the prompt.
- `Management`: `WF(EndByMarker(p))` is the same watch loop.
- `ModelProxy`: `WF(Watch)` likewise; `WF(Step(r))` are timers and the runtime.
  `SF(ClientIsGone(r))`: `select!` takes its ready branches in random order, so a closed
  channel is noticed although chunks keep coming.
- `SegmentSync`: a run that is not stopped goes on (`WF(RunStep(d))`), a device
  synchronises again and again (`WF(Sync(d))`) and opens the vault while it has none.
- `FileSync`: the same, and the server serves what reaches it (`WF(Serve)`).
- `Tui`: `WF` of the loop's turns and of the task: its waits are bounded, for the lock
  by 50 s, for a broker by its drain, for a server by the client's timeouts.

All other properties are safety and use no fairness.

## Proofs

Theorems hold for every value of the constants under the named assumptions of the
modules, which TLC evaluates in every run: writes are the calls with a request id, null
values are none of the others, bounds are numbers (`ShapesAssumption`,
`GrantsAssumption`, `ManagementAssumption`, `SegmentSyncAssumption`, ...); `Wait` is
shorter than `Linger` (`BoundsAssumption`, as `WAIT` < `LINGER` in `approval.rs`); a turn
in the queue is over before the time kept for the service begins, and the service's limit
is no shorter than that (`SecondsAssumption`: `QUEUE_WAIT + UPSTREAM_RESERVE <=
CALL_BUDGET`, `UPSTREAM_RESERVE <= TIMEOUT`); grants are those `Config::validate` takes
(`ContractAssumption`); orders and rankings are sequences and there are finitely many
authorisations (`ScreensAssumption`); Android's category may exist and none is a category
(`LibraryAssumption`); there are finitely many, and no two have the same place in the
order of titles (`TitlesAssumption`). The theorems of `BrowserHost` and `Installation`
say in their statements that null values and kinds of runs differ. Each invariant below
was checked by TLC on an instance before it was proved.

`GatewayProofs` shares one chain of invariants.
- `TypeCorrect`: `TypeOK` with `CallKnown` (an attempt that is not idle has a call).
- `WritesLeaveOnce`: `AtMostOnce` alone is not inductive. `LockInv` adds that the
  execution lock is exclusive (`OneHolder`), that a process that is down has no calls,
  and a chain of what is known of a write at each stage under that lock: not in the
  journal, then journaled in memory and on disk with nothing of the same key sent, then
  on disk for ever. The last survives `unsynced` saves, crashes and restarts because a
  failed save is followed by no request.
- `EverySentCallIsOnRecord`, `WhatIsSettledStays`, `RepliesCanBeTrusted`,
  `BudgetsAreKept`: `WriteInv`, `RecordInv`, `PaidInv`, `ReplyInv` and `BudgetInv` say
  stage by stage what audit, journal and usage files must hold already, and that no
  outcome of a save takes it back.
- `WithdrawalStops`: `AccessInv`: what was seen good at the last look was good then.
- `AYesIsNeeded`, `ApprovalsAreUsedAsPromised`: `AskInv` and `TicketInv` tie a cleared
  call to the answer it used; the second is the refinement of `Approvals` step by step.

`CallProofs`
- `OnlyAPersonApproves`, `WaitersAreOnScreen`, `LateAnswersAreKept`: `QueueInv`. Slots
  have distinct ids in the order they were raised, a slot is answered exactly when its
  cell is, an answer is of a person about a call with the same key, and the question a
  call waits on is in the queue, or answered and not yet `Linger` old. That last part
  needs `Wait < Linger`: pruning never forgets an answer somebody still waits for. An
  answer that is owed is in its slot, as old as `owed` says and the only one about its
  key, or a call that spent it is about to read it; so the next call finds it.
- `QueueKeepsThePromise`: the refinement of `Approvals`, one lemma per operation; a
  pruned, refreshed or overflowing queue leaves the abstract state alone or turns down
  whom `Approvals` lets it.
- `TheBridgeIsHonest`, `WaitsAddUp`, `WhatIsTakenIsListed`: `BridgeInv` gives each stage
  its place in time (when it began, how long its wait may last) and says what has been
  sent. The last one holds of every grant and call, as `TakenConforms` shows: what the
  validation lets through conforms to the tool it came under. The converse, that what is
  listed is taken, is what `bridge_listed` refutes.

`ManagementProofs`
- `TypeCorrect`: needs that the task of a busy process is known, that every capability
  in use or dead is below the counter (so a new one is new), and that a process which
  writes a client file has the grant in its draft.
- `RevocationSticks`: a dead capability never authenticates again. Inductive with
  `OneUpdate` (a process inside `update` holds the lock) and `DraftIsAlive` (what it is
  about to write holds nothing that died meanwhile): a process that loaded before a
  revocation cannot still be about to write after it.
- `BrokerVaultIsCurrent`: no process edits the vault that a broker serves, as whoever
  edits or serves it holds the broker lock. A revocation, the one operation without that
  lock, touches no row.
- `TokensStayConfirmed`: `TokenInv`. Credential ids are unique and below the counter;
  `update_token` removes the grants under both locks before it replaces the token; a
  revocation is the only thing that happens beside it, and only takes grants away.
- `AnsweredFilesStay`: `FileInv`. Who writes a client file withdraws the promise of the
  old one and holds both locks until the new one is promised or taken back, so two
  writers of one file never overlap.

`SegmentSyncProofs`
- `NothingIsJumped`: the commits before an export base are published, in a segment on
  its way or in the run that is about to move the base.
- `NamesAreUnique`: `NamesInv`. A segment on its way is the newest of its stream or
  there already; resumed streams are older than anything to come, and a stream that
  cannot be resumed is never used again.
- `CursorIsNeverAhead`: `HeldInv`. Streams are received without gaps, so nothing slips
  in behind a cursor; the segment being recorded is the next of its stream and is in
  the copy, with its attachments; a device that opened the vault once has one copy.

`FileSyncProofs`, one invariant for three theorems: copies only grow along the edits
they were made from, saved configurations name what was the same on both sides, a run's
snapshot is in its copy, and a request on the wire holds what its ETag holds.

`ModelProxyProofs`: `LittleIsHandedAfterTheEnd` needs that a look is good only before
the end (`LateOnce`); `SlotsAreEnough` that permits and holders add up (`SlotsAddUp`).

`BrowserHostProofs`: what a host between two steps of an operation knows of the receipts
(`HostsOk`, `LockOk`), what the receipts say of effects (`JournalsOk`, `EffectsOk`), with
the file, the synced file and a dead host's record told apart.

`WorkstationProofs`
- `NothingIsLeftBehind` (`Tui`): a broker that serves is held by the interface or by the
  task, and is not when the program is out; an entry asked for is still looked at.
- `OwnerKeepsAll` (`Installation`): what a run met is in the file, in a backup, or in
  what it is about to write, and the name it is about to copy to is its own.
- `ApprovedAtItsPrompt` (`Prompter`): calls are asked about in the order of their ids,
  and a line on its way was typed at the prompt on the screen or is marked late. It
  proves `MixedUpOnlyInTransit`, what is left of the promise that `prompt_line` refutes.
- `FormsActOnWhatWasShown` (`Screens`): `ScreensInv`. While a form is open the category
  its path named is the current one, or no longer asked about, or was not shown. The
  step that could break this is the one that brings the library back and restores the
  category: a task that does so found the library closed, and a form opened at home
  while it is closed names no category. A form left by a turned page says so.
- `OnlyKeysMoveASelection` (`Screens`): a row that is looked for again is found where it
  is now, clamping leaves it alone, and rows depend on time only through the
  authorisations that ran out. On the home page it needs `RowFits`: the marked row is
  one of the rows, so that drawing a frame moves nothing.

- `TheTreeIsKept` (`Library`): nothing dangles, whatever was merged, so a category that
  is new has nothing below it. For each command, a set of categories that showed before
  that one is on no cycle is turned into one that shows it after. Moving `c` under a
  target needs two of them: the one that kept `c` off the way up from the target, and
  the one of the category in question, joined or intersected as that one is on the way.
- `TextsAreNotOverwritten` (`Library`): `EntryOk`. Every write gives an entry a head
  nobody has been shown, so equal heads mean equal texts; a password without a receipt
  was never written; both records of its place are changed together or by nobody.
- `EveryCategoryOnce` (`LibraryTree`): `ListingInv` and `TitlesInv`. The stack grows
  deeper towards its top, and whatever waits on it has its parent listed with nothing
  less deep since (`Hangs`), so the row on top is under its parent when it is listed.
  Whatever hangs from something listed is listed or waits (`NoneForgotten`), so what is
  left when the stack is empty is closed going up and holds no orphan: the way up from
  any of it meets none, and a row started at the margin hangs on a cycle. Siblings are
  on the stack from the last title to the first, above none that was listed before.
- `ListingMakesHeadway`: from the same invariant, that a turn takes a category out of
  what is left, or leaves that alone and shortens the stack, or ends the loop. It stands
  for the comment at `library.rs:280`, that the listing is bounded; that the loop ends
  in time needs fairness and induction, and is not proved.

Only model-checked. Liveness, which is out of reach of the provers here: `CallEnds`,
`LockIsHonoured`, `TreesConverge`, `SharedFilesConverge`, `SlotComesBack`,
`QuittingEnds`. Every invariant and every action property that a passing run checks is
proved.

## Not modelled

The encrypted store, platform keychains, the clipboard and the HTTP library are used
through their results only. Parsing, tables, wording and rendering (command line,
terminal interface, languages, key formats) change no state that a property here speaks
of. In the gateway: discovery. In the configuration: notes, renaming, the binding of API
keys, and the settings file of `quick_add`, which is written and taken back with the
client file. In the sync modules: listing of folders, URL checks, resumable attachments,
the caps on rounds and segments of a run, files damaged on the server. In the terminal
interface: the list of databases, the WebDAV page, the focus of panes, the texts of
forms, the drawing. A client that neither reads nor closes keeps its HTTP connection
open; what then ends it is external (`admin.rs:1055`).

## Plan

1. `rename_category` and the settings file of `quick_add`, with the theorems extended to
   them.
2. The WebDAV client (`webdav.rs`): listing, resumable downloads, digests.
3. API keys (`api_keys.rs`, the rendering of `direct_config.rs`), the list of databases
   (`databases.rs`), the remaining forms.
4. `Prompter` on top of `ApprovalQueue`: the ids it sees are those of the queue.
