# TLA+ models of OpenBBC

OpenBBC turns a product's flow map into a chat agent, serves the agent, collects
feedback on its conversations and trains the next version from them. This
directory models the parts of it where concurrency, failure and ordering decide
whether the stored conversations stay correct: mainly `open-bbcd`, the Go core.

## 1. Inventory

`open-bbcd` is one or more identical Go processes over one PostgreSQL database
(READ COMMITTED) and one or more blob stores. Requests are goroutines; they
share no memory with one another, only rows.

| Component | State it keeps | Operations | What makes it correct |
|---|---|---|---|
| Session store (`repository/chat.go`, `deployed.go`, `session_artifacts.go`) | sessions, messages by `seq`, artifact rows | NextSeq, AppendMessages, AppendUserTurn (claims pending uploads), AppendToolMessage, CommitUpload, DeletePending, session delete | one dense, append-only history per session; an upload reaches exactly one user message; a locked session takes no user message |
| Turn loop (`chat/orchestrator.go`) | one request's variables; the rows above | Turn: load, store user message, stream rounds, run tools, store results | request and rows agree; every call answered in order; no call run twice; every turn ends |
| Sub-agents (`chat/subagent.go`) | goroutines of a tool step, child sessions | runAgentCalls, turnRunner.Run, CreateChildSession | no child under a locked root; results in slot order; nested levels never block each other |
| Datasets and feedback (`repository/dataset.go`, `feedback.go`) | versions DRAFT or CLOSED, members, feedback, `locked_at` | AssignSessionToDraft, EnsureDraft, UnassignSession, CloseDraft, Upsert, Delete | one draft; a closed version is a frozen snapshot; whole session trees are locked |
| Agent versions (`agent_version.go`, `agent.go`) | INITIALIZING, PENDING, READY, DEPLOYED; the fork chain | LandBundle, SetPrompts, CreateVersionFromPrompts, Deploy, Undeploy, Delete | one deployed version of an agent; a linear chain of forks |
| Sub-agent bindings (`repository/subagent.go`) | a graph over versions | AddBinding, DeleteBinding, SetAgentToolEnabled | acyclic under concurrent writes; frozen while an eval or training runs |
| Evals and training (`repository/eval.go`, `training_session.go`, the drainers in `scripts/`) | two status machines, result rows, versions made by training | Create, Start, Submit, Upload, Complete, Fail, mark as failed; cron and hand runs of the scripts | a report lands whole or not at all; one script at work per run; a training is done exactly when its version exists; pending work is picked up |
| Flow map (`internal/flowmap`) and its editor (`handler/wizard.go`, `agent_detail.go`) | the configuration of the root version, the archive it came from | parse, normalise, wizard, edits, finalize, generate, land | what the check of references reads resolves; normalising keeps the paths; a finalized agent becomes runnable |
| Tool backends (`llm/tools`, `handler/backends.go`, `version_wiring.go`) | backend rows, wirings, attachments, header overrides; MCP sessions of a turn | edits of all of them; build, list, route, call, close | every endpoint is offered by its HTTP backend or as not connected; a call reaches its owner with the right headers and arguments; no session is left open |
| Artifacts (`chat/artifacts.go`, `internal/artifacts`) | render cache of a turn; blobs | render, normalise, Put, Stat, Open | the render budget bounds each request |
| Model client (`llm/anthropic`), transport (`transport/agui`), chat page (`chat.js`) | connections; cards of sub-agents on the page | Generate, Send, cards | stream translation; the live page agrees with the history |
| `aikdm`, `bbc-discovery`, `deploy`, `web` | files | command lines, prompts, assets | see "Not modelled" |

How they meet: a handler calls `Orchestrator.Turn`; the turn calls the session
store for every message, the model client for a stream of events, tool backends
for results, and itself (through `turnRunner`) for sub-agents. Uploads and
deletes of pending artifacts come through their own routes and meet the turn
only at the rows it claims. A dataset close meets turns, uploads, sub-agent
spawns and feedback only at `chat_sessions.locked_at`. Evals, trainings and the
first bundle of an agent are worked off by scripts outside the server: cron runs
one drainer per kind, people run the same scripts by hand, and both report over
HTTP.

What is hard: reads outside the transaction that uses them (`NextSeq`, every
"is it locked" check of a handler), statements that wait and then look again,
lock cycles, uploads that straddle a close, streams cut at any event, goroutines
that answer in any order, cancellation and crash between two stored messages,
scripts that die or run twice, and forms written back from what was read long
before.
`PROJECT.json` lists each hazard at its line with the properties that cover it.

## 2. Modules

`TurnStore` models every transaction on the rows of one session, one action per
SQL statement that can wait or whose effect others can see. `BackOffice = TRUE`
is the `chat_*` tables (a user message locks the session row, `locked_at` is
re-read under that lock); `FALSE` is the `deployed_*` tables (key-share only).
`pc[t]` follows a turn through
`Admit` (handler checks), `NextSeq`, `LockSession`, `ClaimScan`, `Claim`,
`Insert`, `CommitTurn`, and `upc[u]` an upload through `StartUpload`, `PutBlob`,
`LockUpload` (advisory lock), `RecheckSession`, `ScanPending`, `InsertUpload`.
`sessLock`, `claim` and `advLock` are the locks of open transactions; a rollback
releases them. `CloseLock`/`CloseCommit` are a dataset close as one session sees it.

`SessionLog` is the abstract promise of those tables: a history that grows at
its end, uploads each handed to one user message, a freeze. `TurnStore`
implements it (`ImplementsSessionLog`): `history` is the committed messages by
number, `waiting` the blobs of pending rows.

`TurnLoop` models `Orchestrator.Turn` and `runAgentCalls` over one session, turn
after turn. The model is the environment: it streams any sequence of text and
calls, complete or not, with usable input or not, for the agent tool or another,
and stops for any reason or is cut short. Each database step can fail; the
context can be done at any point; the process can die. `wire` holds the events
sent since the round began. A message is its role, whether it has text and the
calls it makes or answers; the results of a step are slots, one per call in
`tool_use` order (`NoCall` in one never filled).

`Datasets` models assignment, drafts, close, feedback and `CreateChildSession`
at statement granularity. A close is `StartClose` (the handler finds the draft),
`CheckDraft`, `PurgeMembers`, `FlipStatus`, one `LockRow` per row of each of its
two lock statements with `ScanChildren` between them, `CommitClose`. Open
transactions keep their row locks in `held`, a spawn its FOR SHARE in
`spawn[p].root`. A child is kept with the root of its tree because every lock
taken is on the root or on all that is below it.

`AgentVersions` models the rows of `agent_versions` and what hangs on them: the
statuses, the chain of forks, the agent tool's flag and bindings, and the evals
and training sessions still active (`runs`). `req` is a pool of requests; `req[r].pc`
names the statement a request's transaction stands at, and the row locks follow
from it: `Shares` (FOR SHARE: forks, creation of runs) and `Writes` (UPDATE, FOR
NO KEY UPDATE: configuration, the demotion of a deploy). A statement that needs a
row waits for `FreeToShare` or `FreeToWrite` and then looks at the row again.
What a deploy or a delete reads first, it reads without a lock, so those reads
are steps of their own. `Rollback` is every refusal after the first check.
`CommitDeleteAgent` and `LandBundle` stand for the agent delete and for bundles
landed by the script from outside the Go process.

`EvalTraining` models the evals and training sessions of one version. A worker is
one script, drainer or person at the UI, with the request it waits for;
`worker[w].pc` is where its script or request stands. Submit and Fail of an eval
read the status (`ReadStatus`) and write it by later statements (`InsertRows`,
`CommitEval`, `CommitFail`); a training is completed or failed by one guarded
statement. `InsertRows` waits on the key (eval, session) of `eval_sessions` and on
the one-child key of versions (`SameKey`, `Inserting`) and is refused by them
(`KeyTaken`). A request begins with its first statement. `Cron`/`NextItem` are the
loop of a drainer over the pending list it fetched, `Start`, `Run` the steps of a
script, `GiveUp` its death. A report is named by its sender, its score and the
sessions it lists, so mixing two shows; it lists any set of sessions, the empty one
included, since nothing compares them with those of the dataset.

`FlowMap` has the pure part of the flow map: a workflow is the set of its lines,
with `Parses`, `NormalizeMermaid` (fan-outs removed by `Bypass`), `LinearFallback`
and the validation of references as operators; `Unseen` are the skills the parser
reads and that validation does not. `AgentConfig` extends it with the life of a
configuration: `Submit` of the wizard, an edit as three statements in no transaction
(`RequireEditable`, one of the changes in memory, `Save`), `Finalize`, and the
generation of the first bundle (`StartGeneration`, `Generate`, `Seed`, `Land`) by
the drainer and by hand. What aikdm writes for a skill is external.

`ToolCalls` models how a turn reaches its tools. Operators change `rows`,
`endpointBackend`, `attached` and `overrides`, each by its handler (the notes form
in two steps, `ReadNotes` and `WriteNote`). Any backend with a row can be wired to
an endpoint or attached, whatever its kind: the pages offer the fitting ones, the
handlers and the tables do not look. The turn reads them by separate queries
(`ReadEndpointBackends`, `ReadMCPAttachments`, `LoadBackend`, `LoadAttachments`),
lists tools (`ListTools` opens MCP sessions), answers calls (`Route`, `CallHTTP`,
`CallMCP`, `CallUnmapped`, `CallSkillMetaTool`) and closes (`Close`). A name is the
sequence of its parts between double underscores, which is all routing looks at. A
header's value is the layer that set it. A backend has its endpoints as their places
in the list of the bundle, which keeps the order `FindByName` looks in.

`SubAgents` models the tree of turns below one user message: `Ask` is a reply with
agent calls, `Spawn`, `Refuse`, `GiveUp`, `Finish`, `Panic`, `Answer` the steps of the
goroutine of a call, whose semaphore is counted per step in `Running`. A session is
named by the calls that lead to it. Events go through the sinks of all levels
above (`Through`, `Tagged`) to `page`, the elements a reader sees, and `card`, the
state of each sub-agent card. A reply's text is its number in the session.
It complements `TurnLoop`, which has one turn in full and a child as one call, and
`Datasets`, which has `CreateChildSession` against a close.

`MCTurnStore`, `MCDatasets`, `MCAgentVersions`, `MCAgentConfig` and `MCToolCalls` add
symmetry sets, archives, names and envelopes for the runs. Definitions marked
"mutant" are the deliberately wrong variants `PROJECT.json` names, each showing
that a property notices the bug it is meant for; nothing else uses them.
Each component's theorems are in the module named after it: `TurnStoreProofs`,
`TurnLoopProofs`, `DatasetsProofs`, `AgentVersionsProofs`, `EvalTrainingProofs`,
`AgentConfigProofs` (which also has those of `FlowMap`), `ToolCallsProofs` and
`SubAgentsProofs`.

## 3. Runs

| Run | Instance | Shows |
|---|---|---|
| `turnstore_bo` | 2 turns, 1 upload, 1 blob, 1 tool round, cap 1, close and delete | the rows are one consistent, dense, append-only conversation; refs match artifact rows; nothing of the user lands after a close; refinement |
| `turnstore_deployed` | 2 turns, 3 uploads, 3 blobs (any assignment), cap 2 | cap and dedup of pending uploads, blob before row, refinement without a session lock |
| `turnstore_live` | 2 turns, 2 uploads, with fairness | every turn and upload ends, the lock cycle included |
| `turnloop` | 2 turns, 2 calls, 2 rounds of the model per turn, 1 agent at a time, with fairness | what is sent, stored, run and streamed agree; every turn ends |
| `turnloop_unanswered` | violation | a turn ends normally with a call left unanswered |
| `datasets` | 1 dataset of up to 2 versions, 1 root, 1 child, 2 assigns, 2 closes, 1 each of unassign, rating, spawn, all repeating | drafts unique, spawns and closes exclude each other, no child escapes |
| `versions` | 2 agents, 3 versions, 2 requests of any kind, 1 active run | one deployed version, a linear chain, bindings that are acyclic and runnable, configurations that do not move under a run or a fork |
| `evals` | 1 eval, 2 training sessions, the evals drainer, 2 operators, reports of any of 2 sessions or none, 1 fault, with fairness | reports land whole or not at all, runs exclusive, a training is done exactly when it made its version; a pending eval is picked up |
| `config` | archives of 1 flow with up to 3 edges of 11 (and all at once), fan-outs that chain, labels, bare lists, broken references; 3 edits by 2 editors, a workflow with a blank before a bracket among them, 2 generators, 1 fault, with fairness | normalising keeps paths and skills; what is stored and landed resolves but for a reference the check cannot see; a finalized agent becomes ready |
| `toolcalls` | 1 HTTP and 1 MCP backend and room for a third, 2 endpoints wired to any of them, 4 names with a prefix and a case collision, 2 edits anywhere, 1 call | endpoints offered unless wired to an MCP backend, calls routed, headers and arguments as configured, sessions closed |
| `toolcalls_skills` | violation; `toolcalls` without edits | the Skill tool knows no skill |
| `subagents` | 2 calls per reply, 2 levels of children, 2 at a time, 1 tool round, 3 calls in all, with fairness | events in place, cards agree with the history, no level waits for ever |

Why the bounds suffice: each hazard is a race of two parties (a third upload is
needed to reach a cap of two with a dedup); two turns reach every pair of seq, claim
and row-lock conflicts, one tool round reaches every kind of message, and two blobs
or calls reach every order. Three versions make a chain with two forks competing, a
cycle of three bindings, or two deploys over a third; an id is used once, so the run
of `versions` ends when the ids do (CHECK_DEADLOCK FALSE). In `evals` two operators
and the drainer bring three reports for one eval, and two trainings compete for the
one child of the version; with two sessions two reports list the same ones, overlap,
are disjoint or are empty, which is every way they can meet at the key. In `config`
three edits are two that interleave and one to build on; the archives are checked
alone (no edits) except the one that is edited. In `toolcalls` two edits are a
rename and a deletion, or a detachment inside the notes form. In `subagents` three
calls make a child next to a child, or a chain of two levels and a call refused at
the depth cap. The bounds that are not the program's own are the sizes of the sets
of requests and ids, `MaxVersions`, `MaxTurns`, `MaxEdits`, `MaxFaults`, the
`MaxCalls` of `ToolCalls` and of `SubAgents` (calls of the whole tree).

A run stops (CHECK_DEADLOCK FALSE) where the requests or ids it was given are
used up. The two violations are disagreements between the code and its own
comments, quoted in `PROJECT.json` under "findings". For `EveryCallAnswered` TLC's
shortest trace is a stream cut inside a call; the round cap and a complete call in
a `max_tokens` round reach the same state, and `Crash` or a failed tool message
reach it without the turn ending normally. For `SkillsLoad` it is any call of Skill:
the bundle handed to the tools is `agents.architecture`, which has `skills_meta` where
`callSkillMetaTool` looks for `skills`.

## 4. Fairness

`TurnStore!Fairness`: a goroutine whose next statement can run eventually runs it.
Strong fairness for a turn's steps, since a row lock may be taken and given back by
others many times and PostgreSQL queues its waiters; weak fairness for uploads (the
advisory lock is only ever contended by finitely many of them), for the deadlock
detector and for the end of a close. No request must arrive and none must be
aborted. `TurnLoop!FairSpec`: weak fairness of the turn's own steps; the model
stream and the tools have timeouts, so they count as steps. `SubAgents!Spec`: weak
fairness of `Step`, that is, some goroutine that can go on does; it needs no
fairness of a particular goroutine, which is the point of `TreeEnds`.
`EvalTraining!FairSpec`: weak fairness of the requests the server has and of cron's
drainers, which cron starts again and again; a script run by hand may wait for its
operator for ever, and no one need create or upload anything.
`AgentConfig!FairSpec`: weak fairness of the drainer's run only, with failures of
generating bounded by `MaxFaults`. `Datasets`, `AgentVersions` and `ToolCalls` state
no liveness: their requests end by timeouts and rollbacks that are not modelled.

## 5. Proofs

The theorems hold for every value of the constants that meets the named assumption
of the module. Except for the type invariants (`TypeCorrect`), each states a
property of a run above, and every property of a passing run that is not liveness is
stated by one. The non-temporal steps are proved by SMT and Zenon, the last step of
each theorem by PTL. The inductive invariants were checked by TLC on small instances
before they were proved. `PROJECT.json` lists the theorems.

`TurnStoreProofs`, from `ParamAssumption`: `TypeCorrect`, `LogIsDense`,
`LogAppendsOnly`, `FrozenHolds`, `RefsAreRows`, `UploadsBounded`, `BlobsStored`,
`StoreImplementsLog`. Even typing is no syntactic fact, since `NextSeq` writes one
more than the largest stored number: the invariant carries that committed numbers
are exactly `1 .. n`, that the number a transaction has inserted is the next one,
and that no two open transactions have the same (the unique index makes the second
wait). The freeze adds who holds the session lock at which `pc`: a close cannot
commit between a user message's check and its commit. The artifact theorems rest on
`IInv`: what a turn has claimed are pending rows that nobody else has claimed and
nobody else deletes (`Carrying`), an upload past the advisory lock is alone there
and what it counted is still an upper bound (`Uploading`), a blob is put before its
row (`Stored`). `StoreImplementsLog` maps the store to `SessionLog` step by step: a
commit of a user message is `Send`, of a reply or a tool message `Answer`, an
inserted or deleted pending row `Attach` or `Detach`, a close `Freeze`, the delete
`Drop`, and everything else leaves the session as it is. That `History` is a
sequence of the messages by number is again density.

`TurnLoopProofs`, from `LoopAssumption`: `SentIsStored`, `EveryCallIsAnswered`,
`RunsOnce`, `StreamInOrder`. `Conversation` says what is stored beyond the request:
the reply whose calls are being answered, and nothing at other times, so a failure
between the two inserts ends the turn before anything more is sent. `Slots` ties a
filled slot to one execution of a call of that reply; `Streamed` gives each kind of
event on `wire` from the state of the reply, and `Ordered` that an event never
precedes the one it answers. `TypeOK` of this module stays unproved: that a stored
message's calls are calls rests on what `SelectSeq` returns, of which the provers
know nothing; a history is typed as a sequence over some set instead, which the
theorems need no more than.

`DatasetsProofs`, from `DatasetsAssumption`: `TypeCorrect` and `OneDraft` by
`Numbering` (versions are sequences, a draft is the last of them, a request's number
is one of the dataset's, whoever creates a draft is alone); `SpawnIsRefused` and
`TreeIsLocked` by `Locking` (a root shared by a spawn is locked by no close, and a
close that has passed a row holds it).

`AgentVersionsProofs`, from `AgentVersionsAssumption` (`None` is no id): one
invariant, `IInv`, for all its theorems. `Sound` is what holds of the tables;
`Held(r)` says that what `r` has read of the rows it locks is still so, and names
what it may not rely on (a deploy knows only that its version once existed);
`Apart(r, q)` is the lock conflict table. A step that writes no table needs only its
own `Held` and `Apart` (`MoveOn`); a step that writes tables ends its request and
must keep `Held` of the others (`TableStep`), which the lock it waited for gives.
`BindingsHaveNoCycle` adds `NoSelfReach`: only versions in a writable status get new
targets, nothing leads to such a version since targets are runnable, and edges out
of a version that nothing leads to close no cycle. It follows that the walk of
`AddBinding` never refuses: the statuses suffice. `ConfigStaysFrozen` and
`ForksAreWhole` are action properties over `IInv`.

`EvalTrainingProofs`, from `RunsAssumption` and `NoneAssumption`: `TypeCorrect`,
`WholeResults`, `ChildComesWithDone` and `RunsAreExclusive`. `Sound` is what holds
of the rows, the two unique indexes included; `Knows(w)` what a worker may rely on,
which is little, since nothing it read before its transaction is locked: that its
row exists, that what it works on is not pending again, and, once it has inserted,
that no committed row has one of its keys (`Clear`); `Apart(v, w)` that no two work
on one row, that two past an insert for one eval list no session in common, and that
no two trainings are past an insert. Only `Start` and `InsertRows` need `Apart` of
the others, only the commits use what `Knows` says of "commit", and the unguarded
last UPDATE does no harm to these three because of the keys, not of the status.
`NoReturn` (no row becomes unborn or pending again) is why the others keep what they
know.

`AgentConfigProofs`, from `FlowMapAssumption` and `ConfigAssumption`: `TypeCorrect`,
`RefsAlwaysResolve`, `ArchivesReadSoundly`. The invariant says that what is stored
and what an editor holds is `Sound`: it passes the validation that runs before a
save, so a lost update replaces one sound configuration by another.
`RefsAlwaysResolve` is about every body an editor may send. What it cannot say is in
the property: a skill written with a blank before its bracket is read by the parser
and not by the validation (`Unseen`), and for it the statement is false (section 6).
A reference without the blank is found by both (`ReadIsFound`).
`ArchivesReadSoundly` is about every workflow and every list of used skills: that
`Serialize` is read back as the same graph, that `Bypass` leaves no fan-out, hence
the second normalisation changes nothing, and that an edge of the result is an edge
of the source or a way through one fan-out; fan-outs that lead to one another are
excluded, as in the property.

`ToolCallsProofs`, from `ToolCallsAssumption` (rows have the kind they were created
with; server tools have a name; the methods of endpoints are the seven that the
flow-map compiler is told to write): `OfferedAll`, `RoutedToOwner`,
`HeadersLayered`, `ArgumentsReachRequest`, `NoSessionLeft`. `Loaded` says of every
query of a turn what its result may still be relied on for once rows change (`Real`:
the id, the kind and the endpoints wired when the turn read the wiring; its name is
only known to be a name), and `Offered` that each endpoint is with the HTTP backend
it was wired to or with `_unmapped`; one wired to an MCP backend may be nowhere
(section 6), which the property says. Routing and arguments are facts about the
operators (`Route`, `FindByName`, `BuildRequest` against `BuildEndpointSchema`),
proved as lemmas and carried by the invariant from the call to the answer.
`Sessions` counts the connections: one per backend that is held, and none is held
outside listing, calling and closing.

`SubAgentsProofs`, from `SubAgentsAssumption`: `TypeCorrect`, `EventsInPlace`,
`CardsAgree`. `Tree` says who waits for whom (a turn for the calls of its last
reply, a child only while its call runs), `Dealt` and `Announced` which call states
come with which result, card and event, and `AllFit` that every event on the page
fits the element named in it after it has gone through the sinks of all levels
above. That no card runs on when the root is over follows from the shortest name of
a live call: the turn above it would be a shorter one (`RootOver`).

Left to TLC: liveness under fairness (`TurnsEnd`, `UploadsEnd`, `TurnEnds`,
`TreeEnds`, `AlphaLands`, `Drained`), which is out of the prover's reach, as are
ENABLED and induction over data. `TurnLoop!TypeOK` is stated for the reader, neither
run nor proved.

## 6. Not modelled, what does not hold, and the plan

### Formulas the code does not satisfy

Each was met while modelling and is stated in its module unless marked "steps
only". Giving the formula to the named run's instance, with the changes in
brackets, makes TLC show the steps. The hazards without a property in
`PROJECT.json` are these.

| Formula | Instance | Steps |
|---|---|---|
| `TurnStore!LockedTakesNoUpload` | `turnstore_bo` [MaxRounds 0] | an upload rechecks the session with a plain read (`session_artifacts.go:144`), a close commits, the row is inserted |
| `TurnLoop!EveryCallAnswered` | `turnloop_unanswered` | a run of its own |
| `TurnLoop!NoEmptyReply` | `turnloop` | the model ends a round with neither text nor a call; the reply is stored (`orchestrator.go:467`) |
| `Datasets!FeedbackFrozen` | `datasets` [MaxVersions 1] | a rating is admitted on an unlocked session, a close commits, the rating is written (`feedback.go:59`) |
| `Datasets!OneDatasetPerSession` | `datasets` [2 sets, MaxVersions 1] | two assignments both look for another dataset, then both insert (`dataset.go:354`) |
| steps only | `datasets` | an assignment finds the draft, the draft is closed, the row is inserted into the closed version and its session stays unlocked (`dataset.go:377`) |
| steps only | `datasets` | an unassignment deletes the membership between the two lock statements of a close (`dataset.go:445`): the root is locked, its children are not |
| steps only | `datasets` | two closes of one draft read DRAFT; the second waits for the row and closes it again (`dataset.go:150`), writing its note over the first |
| `AgentVersions!DeployTakesEffect` | `versions` | the version to promote is deleted after its status was read; the demotion commits, the promotion updates no row (`agent_version.go:197`) |
| `EvalTraining!TrainingsDrained` | `evals` [Drainers evals and trainings, 1 operator, MaxFaults 0] | `process_pending_trainings.sh:47` passes `--yes` first, `train_from_session.sh` takes it for the id and refuses the id as an unknown flag: no queued training is ever started |
| `EvalTraining!TrainingEnds` | the same, under `AttendedSpec` | a second training of a version trains, its completion is refused because the version has a child, the script exits and nothing marks the row: IN_PROGRESS for good |
| `EvalTraining!ResultIsFinal` | `evals` | Submit and Fail read the status without a lock and write it unguarded (`repository/eval.go`): an eval read as active by both goes from FAILED to DONE or back |
| `EvalTraining!ResultIsOneReport` | `evals` | two reports of disjoint or empty lists pass the key: the rows of both are under the score of the later one; a report of `{}` ends DONE without a row (`repository/eval.go:324-349`, `handler/eval.go:248-269`) |
| `AgentConfig!FrozenOnceFinalized` | `config` [Archives <- OneArchive, MaxEdits <- OneMaxEdits] | an edit passes `requireEditable`, the agent is finalized, the edit is saved (`agent_detail.go:501`) |
| `AgentConfig!EveryRefResolves` | `config` | a node written `s [id]` is a skill to the parser (`mermaid_parser.go:32`) and no reference to the validation (`mermaid.go:16`): an edit stores one that names a skill that does not exist |
| `ToolCalls!NoEndpointHidden` | `toolcalls` | an endpoint is wired to an MCP backend (`agent_detail.go:1005-1069` takes any id); `Build` passes over the backend (`builder.go:92`) and the endpoint is neither offered nor under `_unmapped` |
| `ToolCalls!ConnectsAsUser` | `toolcalls` [MaxEdits 0] | an MCP session is opened with `context.Background()` (`composite.go:37`), without the headers of the chat session |
| `ToolCalls!NotesNeverAttach` | `toolcalls` | the notes form reads the attachments, one is detached, the form writes it back (`configurator.go:697-716`) |
| `ToolCalls!SkillsLoad` | `toolcalls_skills` | a run of its own |
| `SubAgents!FinalText` | `subagents` | a child asks a tool, its last reply is cut off inside its only call and not stored; the caller gets the text of the earlier reply (`subagent.go:237`) |

Two more are outside the models: under cron `run_eval.sh` enters `aikdm` by a relative
path, so an eval started from another directory is marked FAILED; and an HTTP
backend whose name is a prefix of its own endpoint's tool name loses the calls to
it (`Route` shows it; the hypothesis of `RoutesToOwner` excludes it).

### Left out

Abstractions to keep in mind: titles, logging and rendering of artifacts are left
out; in `TurnLoop` a tool call is a result or an error, in `ToolCalls` a header is a
name and the layer that set it; what the provider accepts is the external
definition `Replayable`; two feedback rows of one session behave like one; mermaid
lines are a set and an id has one shape; the tool lists of an MCP server do not
change during a turn. The notes in `PROJECT.json` say what each component leaves out.

Not modelled: list, export and rendering pages, middleware and configuration (no
state of their own); blob stores and MCP transport (I/O; a set of blobs, a session
that opens or fails); `aikdm` beyond the exit of its commands; `bbc-discovery`
(prompts and templates), web assets other than the sub-agent cards, deployment.

### Planned

1. `RenderBudget`: the artifact cache of a turn and its budget as pure operators.
2. The train loop of `aikdm` (epochs, patience) and the event translation of the
   model client.
