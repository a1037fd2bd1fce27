# Verification of dev3d

TLA+ modules, TLC configurations and TLAPS proofs about dev3d, a server that runs a
company of AI employees through pipelines of work. Everything here is translated from the
source; the documentation of the repository is quoted only where the code does something
else.

## 1. Inventory

The server is one Node process: one JavaScript thread, so a step of a model is the code
between two awaits, and the interleavings are those of promises, timers, sockets and
child processes. Paths are under `apps/server/src` unless they say otherwise.

| Component | State it keeps | Operations | Talks to | What is hard | What makes it correct |
|---|---|---|---|---|---|
| Run engine `engine/runEngine.ts` | runs, abort controllers, pinned policies, waiters, the spend gate | submit, cancel, whenSettled, the loop of executeRun, settle, the crash path | stages (await), store, runtime (events, approvals) | cancel racing turns, approvals and the gate; writes that throw, also in the crash path | one terminal transition per run, nothing held after it, an exact ledger, stages in order |
| Stage modes `engine/stages.ts` | turn counts, transcript, verdict, the objection flag | single, parallel, debate, review loop | turns (await, several at a time) | breaks in the middle of a round, caps across rounds, abandoned workers | nobody passed over, caps hold, an open objection is never a product |
| Turn `engine/turn.ts` | messages, tool rounds, cost, approval in hand | the tool loop, executeToolCall, the end of the turn | providers, tools, approval broker, roster | the run's one status shared by parallel turns; abort between tool calls | ends always, recorded as what it was |
| Runtime `server/runtime.ts` | workspaces, roster, approvals with timers, settings, the event buffer | emit, request, resolveApproval, updateSettings, workspace and org edits, recalls, close | everything | a crash between two of a handler's writes; a late answer against the timer; edits while runs are in flight | nobody is told what the store does not have; a decision stands; the ledger is charged once |
| Store `store/store.ts` | sqlite tables, or a map when sqlite is missing | save and list of each record | runtime, engine | a crash between two saves; an old row shape | what is read back is what was last saved |
| MCP `mcp/manager.ts`, `mcp/client.ts`, `mcp/http.ts` | connections, tools per server, pending calls, approvals given per server | start, refresh, disconnect, connect, relist, call | child processes, the tool registry | overlapping refreshes, each awaiting processes and handshakes; answers after a timeout; a reconnect under an approval | one live connection per server; a call is answered once; a refresh ends |
| JSON-RPC `rpc/` | the frame buffer, the child's state | start, send, consume, close | MCP client, ACP | exit while a close waits; a frame cut in two | lines in order, exit reported once |
| Vendor agents `vendors/` | the session, permissions open, output, the timer | runAcpTurn, decidePermission, the registry | child processes, approval broker | answer, timeout, exit and cancel racing | one end per turn, every permission answered |
| Providers `llm/registry.ts`, `pooled.ts`, `health.ts`, `deadline.ts` | pool cursors, what is switched off, health of endpoints | chat with fallback, retries with a delay | HTTP | models switched off or withdrawn during a turn; an abort during a delay | nothing switched off is called; a turn ends |
| Model catalogue and router `llm/catalog.ts`, `router/` | none | rank models under constraints | turns | ties, empty candidates | hard constraints are never traded for score |
| Memory `server/memory.ts` | facts, what supersedes what, what was read | remember, correct, retract, recall | turns, tools, store, consoles | a correction is two rows; a recall waits while facts change | what stopped being true stays so and no turn begins on it |
| Tools `tools/`, `security/` | none between calls | files, git, shell, web, vendor | the operating system | output and time limits | stay inside the workspace |
| Plugins `plugins/` | rows, decisions, registered tools and observers, directories | load, enable, disable, configure, refresh, install, upgrade, remove | tools, org, skills, the event stream | code that throws half way, or registers when it is withdrawn; modules imported once; requests that overlap at awaits | a withdrawal takes back all that was registered; rows tell the truth |
| Org and office `org/`, `office/`, the edits in `server/runtime.ts` | chart, seats, rooms | hire, fire, move, add and remove a room, the planner, a restart on another kit | roster, scene | edits in any order; a floor that is grown and not saved | rooms stand apart; newcomers get a desk; a restart builds the same floor |
| Server `index.ts`, `config.ts` | sockets | HTTP routes, WebSocket commands, shutdown | runtime | shutdown while runs are in flight | a command is answered |
| Shared types `packages/core/src` | none | records and statuses | all | - | - |
| Web client `apps/web/src/app` | the reducer's copy of the office, the socket, its queue | connect, apply events, send | server | events replayed after a reconnect | the copy converges on the server's state |
| Console and scene `apps/web/src/console`, `apps/web/src/office` | view state | rendering | web client | - | - |
| Asset scripts `blender`, `scripts` | none | build time | - | - | - |

`PROJECT.json` lists the same components with what is modelled of each, and under
`hazards` the places in the code where it can go wrong.

## 2. What is modelled

### RunEngine.tla

`engine/runEngine.ts` with the parts of `turn.ts`, `stages.ts` and `runtime.ts` it cannot
do without, over a store whose writes succeed. Several runs of one workspace share the
roster.

| Model | Code |
|---|---|
| `run[r]` | the entry of `runsById`, and in `pc` the await its loop stands at |
| `controllers`, `aborted` | the map of AbortControllers; those whose signal is aborted |
| `runPolicies`, `autoApprove` | the policy pinned at submit; the live setting |
| `spendApproved`, `settleWaiters` | the sets of those names |
| `turns`, `asking` | turns whose promise is pending; those that await `requestApproval` |
| `employee` | the roster's status of each employee, `employeeTracker` |
| `recorded` | what the workspace ledger was charged, in `emit` of a terminal `run.updated` |
| `unasked` | a history variable: runs in which a gated tool ran with nobody asked |
| `Submit`, `Cancel`, `WhenSettled` | the three entry points, each up to its first await |
| `StageReturns` | the code after `await executeStage`: settling the stage, the failure policy, and the top of the loop up to the next await (`AfterStage`, `AtNextAwait`) |
| `DecideSpend` | the answer at the soft-spend gate and the code after it |
| `BeginTurn`, `EndTurn`, `EndTurnTakeNext` | a mode begins a turn; a turn ends; a worker pulls its next |
| `RequestApproval`, `ApprovalDecided`, `RunToolUnasked` | a gated tool call under each policy |

`RunEngine` lets any employee take any of the turns a stage may contain. Which of them
do, and in which order, is the subject of `StageModes`.

### RunFaults.tla

The same engine over a store whose writes may throw. `appendEvent` catches what sqlite
throws, the saves of runs, turns, artifacts, approvals and the office do not, so a full
disk is an exception in the middle of `emit`. `RunFaults` extends `RunEngine`: each step
of it may be done whole (`Works`), or be cut short by the write that throws.

| Model | Code |
|---|---|
| `failures`, `up` | writes that have thrown, at most `MaxFailures`; whether the process lives |
| `unheard` | turns whose approval was decided and the answer lost |
| `torn` | history: the stages in which a turn threw |
| `Caught`, `Escapes` | the catch of `launch`: its emit succeeds and the run settles as failed, or throws too and `settle` is never reached; that rejection nobody handles, so Node ends the process unless its host installed a handler (`up' \in BOOLEAN`) |
| `Charges` | `emit` of a terminal run adds the spend, then writes the office: a throw may come before or after the charge, and the catch's own terminal `touch` charges again |
| `SubmitThrows` | the write of `run.created`: the submitter gets the exception; controller, pin and run stay |
| `LaunchThrows`, `StageReturnThrows`, `DeclineThrows` | any write from one await of the loop to the next (`CutShort`) |
| `TurnThrows` | a write in a turn: the stage that awaits it fails at once, the other workers go on (`mapWithConcurrency`) |
| `RequestThrows` | `requestApproval`: the run is shown as awaiting an approval and `touch` throws outside the `try`; the tool fails, nobody is asked, the status stays |
| `SpendAnswerLost`, `AnswerLost` | `resolveApproval` forgets the approval and its timer, then its write throws before the asker is told |

A run whose loop neither goes on nor settles has the pc `lost`.

### StageModes.tla

`engine/stages.ts`: one stage at a time, in all four modes. A stage is a chain of batches
(`phase`): the work of a single or parallel stage, a debate's positions and its ruling, a
review pass's reviews, verdict and revisions. `Pull` is the body of the worker loop of
`mapWithConcurrency` with `mayTakeTurn`; `EndTurn` is the end of `runOneTurn`; the other
actions are the code after each `Promise.all`. `Abort` and `EndTurn` happen only while the
thread waits (`Waiting`), so everything between two awaits is done before anybody else
moves. A verdict is reduced to what `reviewApproved` and `reviewRaisedObjections` make of
it: nothing said, settled, or an objection.

`TurnsAsTheEngineAssumes` is the contract between the two modules: it says of every mode
what the guards of `BeginTurn` and `StageReturns` in `RunEngine` take for granted.

### McpManager.tla

`mcp/manager.ts` with what it needs of `mcp/client.ts` and `rpc/stdio.ts`: connections, the
tool registry, refreshes, shutdown and calls. A connection is a number given out once, so
that a reconnect is told apart from what it replaces.

| Model | Code |
|---|---|
| `conn[c]` | a `Connection` with its client: status, `closed`, the process, the tools it has published, an open re-list, and in `opening` whether its `connectOne` is still awaited |
| `current` | the map `connections` |
| `registry` | the tool registry: which client a published name calls |
| `approved` | `approvedServers` |
| `refresher[p]` | a `refresh` (or `start`, or `close`), where it stands, and in `begun` the connections it has begun |
| `raced` | history: servers two refreshes were dropping at the same time |
| `caller[k]` | a tool's `run`: waiting for the operator, or pending in its client |
| `Sweep`, `Keep`, `Disconnect`, `Disconnected`, `Swept`, `ConnectOne`, `AllBegun`, `AllConnected` | `refresh`, `disconnect` on each side of its await, `connectAll` up to its `Promise.all` and after it |
| `Connected`, `ConnectFails`, `Dies`, `ToolsChanged`, `Relisted` | the rest of `connectOne`, its two callbacks, `relistTools` |
| `Call`, `Granted`, `Declined`, `CallOver` | `toTool.run` |

A refresh keeps the thread until it awaits the end of a process or the handshakes it has begun,
and no other action is enabled meanwhile (`Quiet`). `connectOne` is over when the handshake and
the first list have come back, or when the client of a failed one has closed. Any number of
refreshes may overlap. `Room` bounds the connections opened, not what the code does.

### RunLifecycle.tla

What the engine promises a submitter: a run is new, then active, then settled, once and for
good; a settled run has an outcome, which is `cancelled` if it was cancelled; the workspace
is charged with one amount at that moment. `RunEngine` implements it through the mapping
`phaseOf`, `outcomeOf` (`KeepsPromise`).

### Office.tla

`server/runtime.ts` over `store/store.ts`: organisations and their ledgers, runs and
approvals as they are written down, and what consoles and tools are told. A handler has the
thread to itself but writes to sqlite several times; `at` is where it stands between two
writes, and `Crash` takes the process from there.

| Model | Code |
|---|---|
| `office`, `active`, `runs`, `pending` | memory: `office.workspaces`, the active one, the engine's runs, the approvals with a waiter |
| `disk` | the tables office, runs, approvals and events |
| `at`, `event` | where `emit`, or the handler around it, stands and what it emits |
| `heard`, `told` | history: the events subscribers were sent, the answers tools were given |
| `born`, `charged`, `waived` | history: which organisation of an id this is, the runs charged to it, those written off |
| `StartRun`, `SpendRun`, `SettleRun` | `run.created` and `run.updated` as the engine emits them |
| `CreateWorkspace`, `RemoveWorkspace`, `SetActiveWorkspace`, `SetWorkspaceBudget` | the facade's methods of those names, with `uniqueWorkspaceId` and the floor they pick |
| `Request`, `ResolveApproval` | the approval broker: the first answer, of the operator or the timer, takes the entry |
| `CommitOffice`, `SaveApproval`, `AppendEvent`, `ProjectRun`, `PersistCharge`, `ProjectApproval`, `ProjectOrg`, `Broadcast`, `Answer` | the writes in the order the code makes them |
| `Crash`, `Boot` | the process dies anywhere; the constructor reads the tables back |

### FloorPlan.tla, OrgFloor.tla, OrgFloorMC.tla

`FloorPlan` is the planner of `office/layout.ts` as pure operators: boxes under a quarter
turn, doorways that mate, the first fitting candidate by the cursor's order, and the walk
over the frontier, written as a recursive function. `OrgFloor` puts it under the edits of
`server/runtime.ts`:

| Model | Code |
|---|---|
| `kit`, `layout`, `roles` | the block kit on disk, `workspace.layout.blocks`, `workspace.org.roles` |
| `saved` | the layout of the last `commitWorkspace` |
| `Hire`, `Fire`, `SetSeat`, `AddRoom`, `RemoveRoom` | the facade's methods, each with its growing, seating and reparenting |
| `Restart` | `pruneUnknownModules` and `reconcileFloors`, perhaps on another kit, which save nothing |

`IsKit` is what the planner may rely on: what `parseBlockKit` (`office/kit.ts`) lets through, if no
kind is listed twice and no door of a kind either. `KitsAssumption` adds that the kits an
installation is given cut alike the kinds they share (section 4 says why). `RoomsStandApart`
does not use the planner's boxes: `Footprint` turns a room's corner as its doors are turned.
`served` and `redrawn` are history: a newcomer was seated by the office; `addRoom` has planned
anew a floor that was not as planned. `OrgFloorMC` holds two kits cut from the shipped one, in
half metres, that share one kind.

### Vendors.tla

`vendors/registry.ts`, `acp.ts` and `command.ts`: delegations to one vendor over ACP or as a
command. The steps are the callbacks: answers, chunks, permission requests, the exit, the
timers, the signal.

| Model | Code |
|---|---|
| `status`, `probing` | `runtime.status` of the vendor; a probe in flight |
| `stage[t]` | where the delegation stands: `starting`, the three requests of ACP, `running` for a command, `closing` |
| `child[t]`, `closed[t]` | the process; `StdioTransport.closed` |
| `aborted`, `timedOut`, `reason`, `spoke`, `ask`, `outcome` | the signal, the ceiling, why the process was killed or how the turn settled, whether there is text, the permission open, the result |
| `freed` | history: delegations in hand when somebody else wrote the status |
| `Delegate` (`Busy`, `Engage`), `Probe`, `ProbeEnds` | the registry |
| `Spawned`, `Unstartable`, `Answer`, `RequestFails`, `Chunk`, `AskPermission`, `PersonAnswers`, `Finish` | `runAcpTurn` and its transport |
| `Abort`, `TimeOut`, `Exit`, `Grace` | the signal, the clock, the process, over either transport |

### Router.tla, Routing.tla, RouterMC.tla

`Router` is the whole of `routeModel` (`router/modelRouter.ts`) and the ranking of
`router/score.ts`, as operators: the target tier, what is given up when nothing is able, the walk
over tiers, score with its normalised cost, ratings, reliability and the bonuses of plugin rules,
the pin, the order of fallbacks. Its constants are the tiers, the prices and their logarithms.
Scores are integers in sixths of 1/10000, so that no rounding decides (but for the mean of more
than three ratings). The sorts of the code are relations here (`Better`, `ByHints`), which
`Ranking` puts in a sequence.

`Routing` is one decision for any catalogue and any request, with what the router promises of it.
`UnratedAsBefore` compares the choice with the older rule, first tier then cheapest, which is
written apart from it (`AsBefore`). `RouterMC` holds the catalogues and requests of the run.

### ModelCalls.tla, ModelCallsMC.tla

One turn's calls on `Router`: the loop of `engine/turn.ts`, the walk over candidates of
`llm/registry.ts`, the retries of an adapter. The route is taken once (`Begin`); `Switch` and
`Discover` change what may be called under it; `Answer`, `Fail`, `Retry`, `ToolsRan` are the
ways a call, a delay and a round of tools end; `Abort` raises the signal.

### Console.tla

The socket of `apps/web/src/app/ws.ts`, the reducer of `apps/web/src/app/store.ts` and the
server's side in `index.ts`, over one run and its approvals. `wire` and `up` are the two
directions of a connection, `queue` the commands kept while it is closed, `detail` and `cold`
the two HTTP reads whose answers take their time, `merged` what this connection's view was
fed besides the live socket. `Drop` and `Restart` end the connection; a restarted office has
its log and no engine.

### PluginHost.tla

`plugins/host.ts`: rows, registered tools, observers and directories, and the operations on
them, each an async request cut at its awaits. A loading of a plugin is an instance, so that
an old one is told apart from what replaces it. Nothing takes the API object back, so the
code of an instance may register at any time, also once it is withdrawn.

| Model | Code |
|---|---|
| `disk`, `saved` | the version in the directory; `persisted.enabled` |
| `cached` | the version whose module this process has imported: a path imported once answers with that module for good |
| `inst`, `loaded` | the `LoadedPlugin` records, with whether their code holds the API (`api`) and, as history, whether it registered when withdrawn (`late`); the map `loaded` |
| `holder`, `observers` | whose tool the registry calls under the plugin's name; who is subscribed to events |
| `op[o]` | a request and the await it stands at |
| `Load`, `Enable`, `Disable`, `Configure`, `Remove`, `Install`, `Rescan` | the host's methods up to their first await |
| `Sweep`, `Swept`, `Scan`, `Disabled`, `Reconfigured`, `Removed`, `Unpacked`, `Upgrade`, `Upgraded`, `SwapFails`, `InstallFails` | their continuations; the swap may fail after the old code was withdrawn |
| `Imports`, `Activated`, `ActivationFails` | `activatePlugin` and `rollbackActivation`: code may throw before or after it registered |
| `RegistersTool`, `Subscribes`, `Unsubscribes`, `FallsSilent` | the code of an instance calls `registerTool`, `on` or what `on` returned, or is done |

### Memory.tla, MemoryMC.tla

`server/memory.ts` over the rows of `store/store.ts`, recalls of turns, and the copy a
console holds.

| Model | Code |
|---|---|
| `fact` | the table `memory_facts`: scope, what a fact replaces, whether and by what it was replaced, whether it was read |
| `at`, `event` | where the handler with the thread stands; what it will emit |
| `turn[t]` | a recall and what it holds; `stopped` and `told` are history |
| `screen`, `wire`, `online` | the console |
| `Record`, `Invalidate`, `Retract`, `Emit` | `writeFact` in its two saves, `retract`, and the event |
| `BeginTurn`, `Ranked`, `RecallTool`, `EndTurn` | the index of a turn, before and after its embedding request, and the recall tool |
| `Connect`, `Receive`, `Drop`, `CrashAndRestart` | the socket and the process |

### How the modules fit together

`Routing` and `ModelCalls` extend `Router`, and `ModelCalls` calls `RouteModel` as the turn does; `OrgFloor` extends
`FloorPlan`; `RunEngine` instantiates `RunLifecycle`; `RunFaults` extends `RunEngine` with the
steps that throw. Two joints are contracts rather than
compositions, since the product would be out of reach: `TurnsAsTheEngineAssumes` between
`StageModes` and `RunEngine`, and the events `RunEngine` emits (`recorded`), which are the
inputs of `Office`. `RunEngine` charges at once and exactly; `Office` shows what the writes
around that charge keep when the process dies between them. `Console` takes the snapshots
and events that `Office` broadcasts.

`*MC.tla` hold constants for TLC, `*Proofs.tla` theorems.

## 3. What the runs check

| Run | Bounds, and why they are enough | What it shows |
|---|---|---|
| `RunEngine` | One run, two employees, pipelines of three stages with every kind first, in the middle and last, limits to 2, costs to 1, soft limit 1, writes that succeed, symmetry of employees. One stage's end meets another's start; both comparisons are reached from both sides and exactly. | Nothing is held for settled runs, the ledger is exact, the policy stays pinned, stages start within the budget, and `RunLifecycle` is implemented. |
| `RunFaults` | One run, two employees, an optional stage and one behind it, both parallel with two lanes, limit 2, soft limit 1, two writes that throw: two are what it takes to throw in the crash path, or in a turn and then in the loop. | Only where a turn threw is somebody left at work. A run settles and its waiters hear, unless the write that threw was the announcement, one of the crash path's own, or one between an answer and its asker. |
| `StageModes` | The stages of the shipped pipelines with the shipped caps, and a company of three with caps of 1, 2 and 3 and up to three rounds, so that caps bite in every mode. Two lanes, below the default of four, so that the queue matters. | Turns overlap and count as the engine assumes, nobody is passed over, a halted stage stops, each stage returns. |
| `McpManager` | Two servers, one name each, two refreshes that may overlap, two connections: both servers are connected and one is awaited while the other dies, or one reconnects under two refreshes. | No name outlives its process and no process is lost, but for a server two refreshes dropped at the same time; no call hangs; a refresh ends if handshakes and processes meet their deadlines. |
| `Office` | One name, two directories, two runs of which one asks, one crash. Two organisations of one name exercise the suffix and the reuse of an id. | Consoles and tools are never ahead of the store, the ledgers add up but for one run per crash, decisions stand. |
| `OrgFloor` | Two kits that share one of their kinds, so that a change of kit takes some rooms of a floor and leaves the others; four rooms, two hires over two employees. On the first kit a room turned by a quarter would reach into another, so that boxes, turns and collisions matter. | Rooms stand apart, a restart builds the floor it left unless `addRoom` planned one with gaps anew, a newcomer gets a desk nobody has if one is to be had. |
| `Vendors` | Two delegations, one of whose agents asks; both transports. | One at a time but for what a probe frees, no agent left behind, true outcomes, and an end of every engagement. |
| `Router` | Catalogues of three models of two providers over three tiers, each rated or not, under a set of policies and up to two rules: two fill a tier, the third is elsewhere. | With nothing known the choice is the older one; rules about one tier move no turn to another. |
| `ModelCalls` | Three models, one retry, three trips, two tiers. The route is two or three long, and the limit is warned of in the last trip but one. | Nothing switched off is called, and the turn ends. |
| `Console` | One approval, a queue of two for two commands and an opening, a replay of three events, one drop, one restart, one click, one HTTP detail. | A console that has caught up shows the run and the open approvals as they are; commands arrive in order and once. |
| `PluginHost` | Two plugins with code, one that ships and one that is installed, two versions, one request at a time, any directories and decisions at the start. Of the four instances alive at once one may go on registering when it is withdrawn. Instances of a kind are symmetric, and what a free one was is left out of the view: nothing reads it before it is given out again. | Nothing registered belongs to an instance that is not its plugin's row, unless it was withdrawn when it registered; rows tell the truth; directories change only while nothing of the plugin is registered, with the same exception. |
| `Memory` | Two scopes, one turn, three facts, so that a correction is corrected, two per recall, two frames, one crash. | Corrections stand, nothing comes back, a turn is told the truth of when it began, a caught-up console believes what the office does. |

Deadlock is checked in `RunEngine` and `PluginHost`; elsewhere a behaviour may have used up
its bounds or have reached its end, and rests.

Every property has a mutant in `PROJECT.json`: an operator marked "Wrong:" in the module,
never used, which put in the place of the right one makes TLC find the property violated.

### Where the code and its words differ

Where the code does something other than a comment or the documentation says, the model
does as the code does and the property names the exception. None of these is a property of
a run:

Engine and turns.
- A stage whose turns all failed without a word is done (`runEngine.ts:380`); `README.md:216`
  has "A stage that produces nothing halts the run, unless the stage is `optional`."
- A run cancelled at the spend gate starts one more stage if the spend is approved
  (`runEngine.ts:283`), where `:546` has it "stopping after the current turn".
- When one parallel turn throws, the run settles over the others (`stages.ts:142`), where
  `runEngine.ts:540` marks a run over only "when the last turn has actually stopped". A turn so
  left behind may show the settled run as awaiting an approval and as running again.
- The crash path writes before it settles (`runEngine.ts:427-429`). If that write throws, the run
  keeps its controller, pin and waiters, against the comment of `settle` (`:197`), and the
  rejection has no handler.
- The write of `run.created` may throw at the submitter (`runEngine.ts:525`): the run stays
  queued, with a controller and a pin, and is never launched.
- A terminal `run.updated` whose office write throws has charged the workspace already
  (`runtime.ts:1042-1044`); the crash path then makes the run failed, if it was done, and
  charges it again.
- `resolveApproval` forgets the approval before it writes it (`runtime.ts:1116-1125`). If the
  write throws the asker waits for ever, against `README.md:226`; the run then ends only with the
  process. If the write of a request throws, the run may stay `awaiting-approval` with nobody
  asked (`turn.ts:258-259`).
- The budget runs out during a revision: the objection counts as answered (`stages.ts:504`)
  though nobody looked again, against the comment below it.
- The budget is read before a stage only, so the last may overrun it (`runEngine.ts:245`). The
  first of two answers shows a run as running while another approval is open
  (`turn.ts:270`). A chair at its cap loses the verdict it gave before (`stages.ts:469`). A
  turn of a second run overwrites the roster entry of an employee blocked on an approval of
  the first (`turn.ts:398`). A brief with no budget leaves its first owner `thinking`
  (`runEngine.ts:528`). A run cancelled during reviews sends authors to revise what nobody
  objected to (`stages.ts:467`). A CEO with a cap of two cannot rule on a debate of two
  rounds (`stages.ts:194`); no shipped pipeline has one.
- A turn out of round trips that still asks for tools is done if it said anything on the way,
  against `turn.ts:624` "A turn that ran out of room is a failure, not a finished one." A
  stalled stream with text in it is a normal answer.

MCP.
- Of two refreshes that drop one server at the same time the slower forgets the connection the
  faster has made since (`manager.ts:172`). It stays open with its tools published, and shutdown
  does not close it, against `index.ts:1868` "every stdio server that was spawned would outlive
  the office as an orphan". `NobodyIsOrphaned` and `ToolsHaveTheirServer` except exactly these
  servers (`raced`).
- An approval answered after a disconnect is recorded for the next connection
  (`manager.ts:555`), against `manager.ts:108` "a reconnect asks again".

Office.
- `summaries()` adds the spend of settled runs to a ledger already charged for it
  (`runtime.ts:811`; the comment says "whatever is in flight").
- A floor that lost rooms with their kind is planned anew by `addRoom` (`runtime.ts:1984`), on the kit
  there is now, and may come out with fewer desks than heads; the next restart builds what is
  missing. So a restart does not always, as `runtime.ts:623` has it, re-derive "the same building when
  nothing has changed". `redrawn` marks these floors.
- An id is given out again after `removeWorkspace`, so a run of the old organisation that
  settles later is charged to its successor; if there is none, to nobody.
- After a restart runs stay `running` and approvals `pending` in the store with nobody to
  move them, though `README.md:226` has that approvals always resolve. `appendEvent` swallows
  an insert that fails. `removeWorkspace` tells no console.
- `removeRoom` compares capacity with the roster, whoever sits where; `setSeat`, and `hire` when
  it is told a seat, do not check that it is free. A status of an employee fired meanwhile
  (`tracker.update`) makes a roster entry for them again.

Vendors.
- A turn whose signal was raised before it began has its wire closed before there is a
  process to close: that agent runs on (`acp.ts:214` has teardown "exactly once, however the
  turn ends"). `BornCancelled` is this case.
- A probe that ends during a delegation overwrites `engaged`, and a second delegation is let
  in (`registry.ts:267`, "Serialised on purpose"); the first to return then frees the other's
  engagement too.
- An ACP turn that is cancelled or out of time returns before its process is gone. One whose
  start fails while it is cancelled is called unstartable.

Models.
- A rule that avoids every model of the target tier moves the turn to another, as 0.12 is more
  than the 0.0525 `modelRouter.ts:71` reckons with. Rules that name different tiers pull between
  them: a liked model of a liked provider in the second is worth more than the step to it.
  Fallbacks are not clamped to `maxTier`, and a rule's tier may be below `minTier`.
- A discovery that fails withdraws the list it had. The fetches of `llm/health.ts` and the
  embeddings (`openaiCompat.ts:330`) have neither signal nor deadline.

Plugins.
- Two overlapping requests to enable one plugin (`host.ts:643`) each load it; the second fails
  on the tool name the first has taken and its error row hides a tool that can be called
  (`host.ts:316`). Overlapping `configure`, `disable` and `refresh` lose rows likewise.
- Code that calls `registerTool` or `on` after its plugin was rolled back or withdrawn leaves a
  tool that can be called and that blocks its name, or an observer, against `host.ts:315` "must
  leave no trace": the API is never revoked. `NoTrace` excepts what was registered so (`late`).
  What a loaded plugin registers after its activation is not in its row's contributions either.
- `import` answers with the module it has for a path (`host.ts:376`), so an upgraded, reloaded or
  reinstalled plugin runs its first module under the new row until the office restarts, against
  `host.ts:1129` "its tools and event subscriptions belong to the code being replaced, and leaving
  them registered would let a run keep calling into the version just deleted". `cached` is this, and
  no property says that a row's version is that of its code.
- A swap that fails after the old plugin was withdrawn leaves no row, whatever is in the directory;
  so does a removal whose directory cannot be deleted. Nothing compares a bundle's version with
  the catalogue's. `activate()` has no deadline.

Memory.
- A crash between the two saves of a correction leaves both facts current and the old one
  correctable again, against `packages/core/src/memory.ts:240` "a correction can never be
  half-applied". `HalfApplied` counts these: one per crash.
- A fact retracted while a turn waits for its embeddings, or works, is still shown to it.
  A turn that only counts facts notes each as read (`turn.ts:432`), against `runtime.ts:1692`.
- Facts of a role are shared by equal role ids on all floors, and facts of a removed
  organisation reach a successor of the same id (`memory.ts:141`).

Console.
- The answer to `GET /api/runs/:id` may be older than events already applied, and replaces
  them (`store.ts:650`): `RunInStep` excludes a connection that merged one.
- A replay carries the oldest 2000 events of a run from sqlite, and the newest from the store
  in memory; either may lack the end or the beginning. Replayed after a restart, an approval nobody decided
  is asked for again (`store.ts:1293`). `PromptsInStep` excludes both.
- `office/liveliness.ts` seats a visitor to chat with a peer who has begun to work, for one
  frame, though its header has "Only `idle` people move".

### Fairness

`RunFaults!FairSpec` assumes that every turn ends (strong fairness: its tool loop has a
bound on round trips and each model call a deadline, so it cannot ask for approvals for
ever), that every approval is answered (the broker's timer refuses it), that the spend gate
is answered (the same timer), and that a resolved promise is continued (the event loop), all of
it while the process lives and no write throws, of which `MaxFailures` do. Operators are under no
obligation. `StageModes!FairSpec` assumes that the thread goes on
when it can and that every turn ends. `McpManager!FairSpec` assumes that a refresh goes on when
it can, that a handshake ends (30 seconds for `initialize`, the request timeout for each page of
the tool list, of which 20 are read) and that a process told to go is gone in the end
(`rpc/stdio.ts` kills it after two seconds, and a session over HTTP is given five to be deleted).
These are strong, because other callbacks come between, and what has become ready stays in the
queue of the event loop. So a refresh ends because of these deadlines and for no other reason;
servers and operators owe nothing. `Vendors` assumes that a spawn succeeds or
fails and that timers fire: the turn's ceiling, the two seconds of a close, the grace of a
killed command. Nothing is promised of the agent, the person or the killed process.
`ModelCalls` assumes that a call settles (its deadline), a delay ends (its timer) and tools
return (their bound, or the approval's timer); which way a call settles is nobody's promise.
The other specifications state no fairness and have no liveness property.

## 4. What is proved

Each theorem holds for every value of the constants. `PROJECT.json` lists them with the
property of a run each states, where there is one.

| Module | Theorem | Says | Assumes |
|---|---|---|---|
| `RunEngineProofs` | `TypeCorrect` | `TypeOK` | - |
| | `NobodyWorksOnASettledStage` | `NoOrphanTurns` | - |
| | `NothingLeftBehind` | `NothingHeldForSettledRuns` | - |
| | `TheLedgerIsExact` | `LedgerExact` | - |
| | `ThePolicyIsPinned` | `PolicyPinned` | - |
| | `SettledRunsAreFinal` | `SettledIsFinal` | - |
| | `StagesKeepTheBudget` | `StagesStartWithinBudget` | - |
| | `CancelledRunsEndCancelled` | `AbortedEndsCancelled` | - |
| | `EngineKeepsPromise` | `RunEngine` implements `RunLifecycle` | - |
| `StageModesProofs` | `HaltedStagesStop` | `HaltStopsTheStage` | - |
| | `StagesAreAsAssumed` | `TurnsAsTheEngineAssumes` | - |
| | `EverybodyIsHeardInTurn` | `NobodyIsPassedOver` | - |
| `OfficeProofs` | `ConsolesAreNeverAhead` | `HeardIsDurable` | - |
| | `DecisionsAreFinal` | `DecisionsStand` | - |
| | `NoRunIsChargedTwice` | `LedgersAddUp` | - |
| `OfficeProofs`, of the floors | `NothingOverlaps` | no rooms of a plan overlap | `IsKit` |
| | `ThePrefixIsStable` | a plan of more rooms begins with that of fewer | `IsKit` |
| | `FloorsNeverOverlap` | `RoomsStandApart` | - |
| | `NewcomersFindADesk` | `NewcomersGetADesk` | - |
| | `FloorsAreRebuilt` | `RestartsRebuildTheFloor` | - |
| `ServicesProofs`, of MCP | `NobodyWaitsForNothing` | `NoCallHangs` | - |
| | `EveryProcessIsOwned` | `NobodyIsOrphaned` | - |
| | `EveryToolIsBacked` | `ToolsHaveTheirServer` | - |
| `ServicesProofs`, of models | `DecisionsAreSound` | `DecisionIsSound` | - |
| | `NothingChangesUnrated` | `UnratedAsBefore` | - |
| | `RulesDoNotMoveATurn` | `RulesKeepTheTier` | - |
| | `CallsAreBounded` | `CallsInv` | - |
| | `WhatIsOffIsNotCalled` | `OffIsOff` | - |
| `VendorsProofs` | `DelegationsAreSerialised` | `OneAtATime` | - |
| | `NoAgentIsLeftBehind` | `AgentsGoWithTheirTurn` | - |
| | `OutcomesAreTrue` | `OutcomeTellsWhy` | - |
| `PluginHostProofs` | `NothingIsLeftBehind` | `NoTrace` | `OneRequest` |
| | `RowsAreTrue` | `RowsTellTheTruth` | `OneRequest` |
| | `SwapsAreSilent` | `SwapsFindNothingRegistered` | `OneRequest` |
| `MemoryProofs` | `CorrectionsAreWhole` | `CorrectionsStand` | - |
| | `WhatIsFalseStaysFalse` | `NothingComesBack` | - |
| | `TurnsAreToldTheTruth` | `RecallsAreTrue` | - |
| | `ConsolesHoldOneBelief` | `OneBeliefOnScreen` | - |
| `ConsoleProofs` | `CommandsArriveInOrder` | `CommandsInOrder` | - |
| | `ConsolesShowTheRun` | `RunInStep` | - |
| | `ConsolesAskWhatWaits` | `PromptsInStep` | - |

Besides these each theorem uses the assumptions its module makes of its constants.

**RunEngine.** The theorems are about an engine whose writes succeed, which is what `RunEngine`
models. Over a store that throws most of them are false of the code: a charge
is doubled, a run left unsettled with all that is held for it, a turn outlives its run (section 3).
What holds there is model-checked in `RunFaults`.
None of the invariants is inductive alone. `IInv` adds to them: a run is not terminal
while its loop executes and terminal once it is over (`StatusFollowsLoop`), so
that a charge at settling is the only one. A run shown as awaiting an approval with its
stage complete would not be made done, so `AwaitingMeansAsking` ties that status to an open
approval. `PinsAgree` carries the policy from submit through
the pin to each turn. Each action then preserves each conjunct it can disturb, and the
refinement maps every action but the settling ones, `Submit` and `Cancel` to a stutter.
The stage behind the spend gate starts with no second look at the budget. `GateHasBudget`
says why that is safe: the run was looked at when it came to the gate, and while it
waits there no turn of it is in flight that could spend (`NoOrphanTurns`).

**StageModes.** Nothing in the code looks at the signal between the decision to call a chair
or facilitator and the beginning of that turn; `HaltInv` says why it need not. Whoever is called
alone stands in the queue with nobody at work, and then nobody else can act (`Waiting`),
so what was true at the call still is when the turn begins. `TurnsInv` is what
`RunEngine` takes from a stage: whoever stands in the queue is not at work, so a turn that
begins is a new one, and it is counted from its beginning until it is listed. This needs that
no stage lists a role twice, an assumption of the module. `TurnsSoFar` says of every turn that
was ever listed whose turns must be listed before it, and of a debate's round that its
speakers are a prefix of the roles, those heard, with the rest in the queue in their order
(`SpeakingInTurn`). A turn may start only from the head of that queue, which is what the
mutant breaks.

**Office.** A crash may come between any two writes, so `Written` says how far the event in
hand has got at each place a handler may stand. `RunsRest` and `DecisionsRest` say that what
was heard is the last word: no later handler may write the run or approval, which needs
that somebody waits only for an approval that is undecided in the store (`Waiting`).

`Accounts` is the invariant behind `LedgersAddUp`: every ledger, in memory and on disk, is the
sum of the settled runs it was charged and has not been waived (`Ledger`), no run is on two
ledgers (`Books`), and the settled runs on none are no more than the crashes, not counting
the one in hand (`Losses`). The sum is a fold over a set. What it is after a run is added or
removed is proved by looking at a smallest set for which it is not so (`LeastSubset`).

**Floors.** The proofs about `OrgFloor` stand in `OfficeProofs` too, since both are of the runtime
facade. The planner's loop is a recursive function. `AfterSteps` shows that there is such a function,
whose values are plans, and every claim about step n follows from a smallest n where it
fails. `Building` is what the loop keeps to: rooms apart, named 1, 2, 3, and at most three
doorways more for each of them, so that the bound `LastStep` is never what ends it
(`TheLoopEnds`). `NothingOverlaps` is that of the last step. `ThePrefixIsStable` compares two
plans step by step: they are the same until the shorter one has all its rooms (`Alike`).

A floor outlives the kit it was planned with. So `FloorsStand` asks more than `RoomsStandApart`:
the rooms that any of the kits knows stand apart by that kit's sizes, of the layout and of
what is saved, and ids are distinct. This needs `KitsAssumption`: the kits are kits
(`IsKit`) and cut the core and the kinds they share alike. Without it a room of a kind that was
made larger overlaps its neighbour, for nothing plans a floor anew because of it.
`NewcomersFindADesk` counts: a floor has at least `CapacityOf` seats, as no two rooms share an
id, and the others hold fewer, so one of them is free. For `FloorsAreRebuilt` a
floor is `BuiltOut` when it seats its heads or cannot grow: growing such a floor leaves it as it
is, and every edit and every restart leaves such a floor (`FloorsSettle`), but for `addRoom` on
one that has lost rooms with their kind. As long as none has been redrawn so, pruning and growing
what is saved gives what stands.

**McpManager.** `ServicesProofs` is about what a turn calls outside the office: MCP servers and
models. `CInv`, for any number of refreshes: who waits does so on an open client that
came up (`CallsOpen`), what is published came up (`Published`), a list under way is that of a
ready connection (`Relisting`). `OInv`, also for any number: the map's
entries are the server's own, and while a disconnect awaits the end of a process its entry is still
there, or the server is `raced` (`Closing`). That two disconnects never await one process
(`ClosingAlone`) is why the second of two is the one that must mark it: it finds the client closed
and forgets the entry at once.

**Routing.** What the code sorts, `Router` chooses by a strict order, and two lemmas carry the
proofs: in a finite set such an order has one first element (`OneIsFirst`), because the one with
the fewest before it has none, and its ranking is a sequence that names each element once
(`TheRanking`), because the numbers of those before it are n different numbers below n. That
`Better` and `ByHints` are such orders needs that ids tell models apart, which is what
`candidateKey` is for. `DecisionsAreSound` follows for every decision, with ratings, uptimes, pins
and rules of any kind.

The other two theorems do the arithmetic of the score. A tier earlier on the walk has a smaller
position (`ThePosition`), and a step is worth 525 of 3500, which stays positive as there are at most
seven tiers (`RouterAssumption`; the code has five). With nothing known nothing else is
in the score but the bonus of the rules (`AScore`). Without rules, then, the order of scores is
the order of the walk, and within a tier that of prices. With rules about one tier, which is
the target if they name none, that tier stands first on the walk, only its models earn a bonus, and
one they do not avoid has none below zero, so it beats every other tier; if the tier is empty no model earns anything.
`OneTier` is needed: rules about two tiers may be worth more than the step between them.

**ModelCalls.** `OffIsOff` is about the step that begins a call. `Tried` says what any step of the
loop does next: end, or call a candidate of the route that may be called now, for the first time.
That is why a retry, which looks at nothing again, is the only other way to be asking.
`CallsInv` bounds trips, candidates and attempts, the last two with the length of a sound decision.

**Vendors.** `OneAtATime` is about pairs; what is inductive is `Held`, that a delegation in hand
holds the status or has been freed. `Process` says which process a turn has at each
stage, `Story` what it knows there of the signal and the clock: a request in flight was
not cancelled, because cancelling it would have ended it.

**PluginHost.** `Rows`, `Holders` and `Observing` are the properties at every moment, except for
the plugin a request has half changed and for what was registered `late`. `Requests` is what a
request may rely on between two of its steps, such as that a plugin under activation has no other
instance loaded, and that nothing of a plugin under withdrawal can be called but what is late
(`Silent`), which is what `SwapsAreSilent` needs. The code of instances acts between any two steps
and is kept apart from the rest: it changes only what is registered. `OneRequest` is an assumption
the code does not enforce. With two requests none of it holds (section 3).

**Memory.** `Links` makes corrections a chain in both directions; `Correcting` is the state
between its two rows, `Halved` counts the halves crashes left. `Told` carries what a turn
holds across its embedding request. That reading a fact changes nothing else of it
(`SameTruth`) is what `NothingComesBack` rests on, and what the mutant breaks. A console sees a
fact in the rows of its screen, of the greeting or of a frame on the wire. Of these pictures
`Pictures` says that the greeting comes first and that a frame about a correction holds both
its rows (`Ordered`), that what takes an untrue fact off the screen is on its way (`LastWord`)
and that from the picture that shows a correction on, what it corrects is shown as untrue
(`Corrected`).

**Console.** `OutboundInOrder` orders what the server has heard before what is on the wire and
that before what the console keeps. An open socket keeps nothing, so a command sent at once
cannot overtake a kept one; a `LoadRun` between them is no command and may stand anywhere.
`InStep` is about the other direction. On each topic, the run or one approval, a frame says
something or is silent. What the console will believe when the wire is empty is the last
word on it, or what it believes now if all are silent (`Leaves`), and `Follows` says that this
is the truth, unless an HTTP detail or a replayed log has spoilt it. `LogTells` says the same of
the log that a reconnecting console is sent, and `Greeted` that the whole office comes first.

Only model-checked are what `RunFaults` says of a store that throws
(`OnlyTornStagesAreAbandoned`) and all liveness (`EveryRunSettles`, `EveryWaiterHears`, `StageReturns`,
`RefreshEnds`, `EngagementsEnd`, `TurnEnds`): fairness and ENABLED are out of the prover's reach.

RECURSIVE operators are out of reach too, and no module declares one. Recursive functions and
folds over sets are not: where an induction is needed it is on a smallest counterexample,
which is how floors and ledgers are proved.

## 5. What is not modelled

Texts, prompts, wire formats and files: a property here needs at most whether a turn said
something, whether a verdict objects and what a turn cost. Employees hired or fired while a
run is in flight, so that a stage's roles are resolved once. Duplicate roles within a
stage. `directMessage` and `planMessage`, which are one model call each and keep no run
state. Overlapping requests to the plugin host in its run (the model allows any number; section 3 says
what they do). The four seconds after which a shutdown ends the process whatever still closes.
Events an abandoned turn emits when its run has settled: a change of plan charges the run's
spend to the workspace once more. The approval of a request whose own emit threw stays in the
broker's list. A second row of a correction whose save throws without a crash
(`memory.ts:326-340`): `Memory` has crashes there, which leave the same rows, but a turn and a
console that go on. The health statistics of endpoints. Streamed
text, the feed and the roster of the console.

`not_modelled` in `PROJECT.json`: prompts and complexity (text and word lists), tools and security
helpers (one call each on files, processes or the network), the skills loader (parses files
at start), the console's components, the office scene and the asset scripts (presentation
and build time). These are about half of the lines under `src`; a model of them would
restate them.

## 6. Plan

Done, in the order of the plan: `RunEngine` with `RunLifecycle`, `StageModes`, `McpManager`,
`Office` (approvals, ledgers and restarts in one module, since a crash cuts all three),
`Vendors`, `ModelCalls` over `Router`, `OrgFloor` over `FloorPlan`, `Console`, `PluginHost`, `Memory`.

What would come next:

1. The walking and chatting of `office/liveliness.ts`: seats, visits and chats of employees
   whose statuses change meanwhile.
2. One run in `RunEngine` against `Office`'s writes: a restart between a charge and its run.
