# TLA+ models of cobot

cobot is an agent for a personal workspace: a command line program, a TUI and a
gateway that talk to language models, keep memories, run scheduled jobs and
send notifications to chat channels.  Several cobot processes may work on one
workspace at the same time.  They coordinate through files: SQLite databases
(`coord.db`, one per session, the long-term memory), YAML files of jobs,
workspaces and settings, and the skills directory.

This directory holds a specification of the parts in which concurrency, failure
or a translation back and forth matter, their TLC configurations, and
machine-checked proofs of all the safety properties that hold.  `PROJECT.json` maps every
definition to the lines it was translated from.

    tlc -workers 2 -config MCService.cfg MCService       # a run
    tlapm ServiceProofs.tla                              # the proofs of a module

Contents: [inventory](#inventory) ·
[modules](#modules) · [runs](#runs-and-bounds) · [fairness](#fairness) ·
[proofs](#proofs) · [disagreements](#where-the-code-and-its-comments-disagree) ·
[behaviour worth knowing](#behaviour-worth-knowing) ·
[not modelled](#what-is-not-modelled) · [plan](#plan)

## Inventory

| part | state | operations | shared with |
|---|---|---|---|
| broker, locks (`internal/broker/sqlite.go`) | table `locks`: name, holder, expiry | `TryAcquire`, `Renew`, `Release` | every process; used by the scheduler |
| broker, publish/subscribe (same file) | tables `sessions`, `messages`, `receipts` | `Register`, `Heartbeat`, `Unregister`, `Publish`, `Consume`, `Ack`, `AckAll`, `Cleanup`, the purge in `NewSQLiteBroker` | every process |
| scheduler, leadership (`internal/cron/scheduler.go`, `leader.go`) | `isLeader`, the robfig/cron instance, the renew loop, the lease in `locks` | `Start`, `Stop`, `renewLeaseLoop`, `becomeLeader`, `stopCronAndWait` | other processes, through the lock |
| scheduler, jobs (`scheduler.go`, `leader.go`, `store.go`, `run_store.go`) | job files with read tokens, the leader's map of cron entries, a run database per job | `AddJob`, `ListJobs`, `RemoveJob`, `PauseJob`, `ResumeJob`, `runJob`, `syncJobs` | other processes, through the files |
| scheduler, results (`consumer.go`) | the consumer's position is its receipts | `publishJobResult`, `ackAllExisting`, `consumeOnce`, `cleanupLoop` | other processes, through the tables |
| channel manager (`internal/channel/manager.go`) | entries per channel id, last heartbeats, local marks | `Register`, `Unregister`, `Heartbeat`, `MarkLocal`, `StartHealthCheck`, `StopHealthCheck`, `expireStale`, `Notify` | gateway, TUI, result consumer |
| gateway (`internal/gateway/gateway.go`) | registered channels, webhook handlers, dedup map | `RegisterChannel`, `UnregisterChannel`, the DELETE handler, `recordDedup`, HTTP server | HTTP requests, platform connections |
| Feishu channel (`internal/channel/feishu.go`) | connection, token cache, closed mark | `Start`, `Close`, `handleReceive`, `SendMessage`, `getTenantToken` | the platform, one goroutine per message |
| channel setup (`feishu_setup.go`, `cmd/cobot/setup*.go`, `gateway_cmd.go`) | `config.yaml` | registration, `SaveFeishuChannelConfig`, the wizard, `ConfigureGateway` | other commands, through the file |
| agent, session (`internal/agent`) | messages of the session, turn counter, usage | `Prompt`, `Stream`, the tool loop, compression | callers of one session, background goroutines |
| llm providers (`internal/llm`) | an HTTP response, the pending tool calls, a channel of chunks | `Stream`, `readStream`, the watchdog of `SSEScanner` | server, agent, reader of the stream |
| short-term memory (`internal/memory/stm.go`, `agent/compaction.go`, `session_manager.go`) | a SQLite file per session with rooms of drawers | store, replace the summary, promote, promote at `Close`, archive | background goroutines, other processes |
| long-term memory (`internal/memory`) | tables of wings, rooms, drawers; full-text index | store, search, consolidate | agent |
| delegation (`internal/tools/delegate.go`, `acp.go`) | the external agent's process, the sub-agent's stream | `Execute`, `ExecuteStream`, `start`, `Prompt`, `Stream` | agent, sandbox |
| skills (`internal/skills`, `tools/skills.go`, `agent/skill_*.go`) | `SKILL.md` files, the catalogue, the system prompt's section | `skill_manage`, the syncer, `Reload`, `RefreshSkillsPrompt` | agents of several chats |
| sandbox (`internal/sandbox`) | its configuration | path policy, translation of paths, shell parsing, OS back ends | file and shell tools |
| workspaces (`internal/workspace`, `cmd/cobot/workspace.go`, `config_cmd.go`) | definitions, data directories, `workspace.yaml` | create, discover, delete, configure | every command and agent, through the files |
| terminal (`cmd/cobot/tui*.go`) | the current stream, the queue, outstanding reads | Enter, Ctrl-C, stream messages | agent's streams |
| bootstrap, command, debuglog, other tools | mostly read at start | | |

How they interact.  `bootstrap` resolves the workspace, opens the broker (which
purges receipts), makes a scheduler with a fresh holder id and starts it.  The
scheduler asks the broker for the lease; the leader schedules the job files and
renews the lease on a ticker, and each successful renewal also reconciles the
schedule with the files.  A job that is due runs a sub-agent and publishes the
result as a message.  Every process, leader or not, consumes messages and hands
them to its channel manager, which notifies the channels the gateway or the TUI
have registered.  A message of the terminal or of a channel becomes a prompt of an
agent, which reads a provider's stream, runs tools in the sandbox, delegates, and
stores what happens in the session's database; background goroutines compress the
session and promote its memory, and the skills its tools write go back into its
prompt.

What is hard here, and what must hold:

* **Leadership** – leases that run out while the holder works; a step-down that
  waits for jobs; `Stop` against a loop that is just becoming leader again.  No two
  processes run jobs at once; `Stop` returns and leaves nothing behind.
* **Publish/subscribe** – `Cleanup` is a chain of statements, each against tables
  that others change meanwhile, with thresholds computed before the first of them.
  A registered session loses no mail except by its ack, its silence or age.
* **Results** – statements that fail and handlers that panic in the middle of a
  batch.  No channel is told twice or told old news; every result is told.
* **Jobs** – read-modify-write on files without a lock across processes, executions
  that last minutes between the read and the write and overlap each other, scans that
  fail.  Files and schedule converge; a count is lost only to an old copy.
* **Conversation** – a compression works for seconds on a copy of the messages and then
  replaces part of a session that has moved on; streams wait for each other, prompts do
  not.  Nothing new is lost, streams do not mix, every call ends.
* **Streams** – a response that stalls, breaks off or is cancelled while its reader, the
  watchdog and the agent wait for one another.  A tool call is whole or is not made; a
  delegated success holds all that the sub-agent said; turn, goroutine and process end.
* **Terminal** – messages that do not say which stream they come from.  Prompts are
  answered in order, and none stays in the queue.
* **Feishu** – a token that expires between the cache and the platform.  Replies are
  authorised, one refresh serves all, no message waits for ever.
* **Memory** – reads, copies and deletes in separate statements, files deleted under
  open handles, a `Close` that does not wait for everybody who stores.  An item is
  reachable, promoted, or lost for a named reason.
* **Skills and prompt** – checks and creations apart, a section of free text replaced by
  search in free text.  A skill is created once; the user's prompt survives.
* **Paths** – two translations and two policies.  What a tool shows leads back to the file.
* **Workspaces and setup** – files that several commands read, change and write back.
  The default workspace resolves; a saved channel is served.
* **Channels** – a health check that removes under the lock and closes after it;
  registrations and removals of one id that overlap; messages delivered again.

`PROJECT.json` lists these hazards at the lines where they bite.

## Modules

| module | models | composed with |
|---|---|---|
| `Lease` | abstract: a promise to one caller at a time | |
| `BrokerLock` | the lock table | implements `Lease` |
| `CronLeader` | leadership of several schedulers | extends `BrokerLock` |
| `Mailbox` | abstract: what a registered session may rely on | |
| `BrokerPubSub` (`MCBrokerPubSub`) | sessions, messages, receipts, `Cleanup` | implements `Mailbox` |
| `CronResults` | publication and consumption of results | extends `BrokerPubSub` |
| `CronJobs` | job files, schedule, executions, reconciliation | |
| `ChannelManager` | registry and health check | |
| `Gateway` (`MCGateway`) | registration, removal, dedup, guests | extends `ChannelManager` |
| `AgentSession` | messages of a session, `Prompt`, `Stream`, compressions | |
| `ProviderStream` | server, watchdog, `readStream`, the agent's turn and its reader | |
| `Delegation` | one delegated call, the external process, the forwarded stream | |
| `FeishuChannel` | messages, token cache, `Close` | |
| `TuiStreams` | prompts, queue, streams and reads of the terminal | |
| `ShortTermMemory` | a session's database, promotions, `Close`, archival | |
| `Skills` | skill files, catalogue, syncer, the prompt's section | |
| `SandboxPaths` | paths, policies, their translations, the files they lead to | |
| `Workspaces` | definitions, data directories, `workspace.yaml` | |
| `ChannelSetup` | registration, `config.yaml`, the channels of a gateway | |
| `MCService`, `MCAgent`, `MCStorage`, `MCInstallation` | small instances of several modules in one run | extend the modules they name |
| `ServiceProofs` | theorems about `BrokerLock`, `CronLeader`, `CronJobs` | extends `MCService` |
| `ConversationProofs` | about `FeishuChannel`, `TuiStreams`, `ProviderStream`, `Delegation` | extends `MCAgent`, `AgentSessionProofs` |
| `ShortTermMemoryProofs` | about `ShortTermMemory` | extends `MCStorage`, `BrokerPubSubProofs` |
| `InstallationProofs` | about `Skills`, `SandboxPaths`, `Workspaces`, `ChannelSetup` | extends `MCInstallation`, `GatewayProofs` |
| `BrokerPubSubProofs`, `CronResultsProofs`, `GatewayProofs`, `AgentSessionProofs` | theorems | extend the modules they are named after |

Granularity.  One SQL statement or transaction is one action; so is one critical
section of a mutex, one file operation and one channel operation that another
goroutine can observe.  Whatever the code does between two such points is part of
the action before it.  Definitions whose names contain `_` after the name of another
one (`Renewable_AnyHolder`) are wrong on purpose: they document, for each property,
a slip in the code that the property would catch, and no specification uses them.

### BrokerLock and CronLeader

The row of the lock is `lock = [holder, left]`, where `left` is `expires_at` minus the
present.  The code reads the clock in Go and then waits for the database, so each
statement chooses a `lag` up to `MaxLag` and works with a time that much too old.
`promised[h]` is what the caller may conclude from its last "yes": it is not a
variable of the program, it is what `Lease` speaks of.

A process of `CronLeader` has a `phase` (where `Start` or `Stop` is), a `loop` (where
`renewLeaseLoop` is), `isLeader`, `cronOn` (the cron instance starts jobs) and the
number of jobs `inflight`.  `StartAcquired`, `StartLoops`, `StartFollower` are `Start`;
`RenewTickOK` … `StartCron` and `LoopExit` are the loop with `becomeLeader` split at the
points that `Stop` can see; `StopBegin` … `StopReleased` are `Stop`, in which the cron
instance is taken under `s.mu` (`StopGrab`) and stopped later, when it may have been
replaced (`grabbedOld`).  `Crash` is possible in every running phase and `DBError` for
every statement.  `since[p]` counts the time since the last grant; `Tick` lets a process
that relies on its lease be at most `MaxStall` late with its tick, which is the
timing assumption under which a lease means anything.

### BrokerPubSub and CronResults

The three tables are a function, a set of rows and a set of pairs.  `Cleanup` is
`CleanupBegin` (reads the clock) and one action per statement, the batched delete of
delivered messages being repeated while batches are full; `CleanupFails` is a
statement that fails, after which the code goes on with the next.  `inbox` is what
`Consume` has returned to a session and it has not acked.

`CronResults` runs the consumers of several processes on these tables.  It is
`Open` (purge and start), `DrainFetch`/`DrainAck`/`DrainDone` (`ackAllExisting`),
`ConsumeBatch`/`NotifyOne`/`AckBatch`/`NotifyPanics` (`consumeOnce`), `PublishResult` and
`LeaderCleanup`.  No code calls `Broker.Register`, so here the sessions table is empty
for ever, and the module shows what follows.  `old`, `owed`, `told` and `excused` are
history for the properties.

### CronJobs

`file[j]` is the job file with its status, read token and run count; a write is always
a whole file with a new token.  Every call of the cron tool is an action per file
operation or critical section (`op[c]` is where the call of client `c` is and the copy
of the job it carries).  `RunJob` … `RunRecord` are an execution: the entry that
`registerEntry` adds fires whether or not its last execution has ended, so every execution has
a slot of its own (`run[n]`), and several of one job may be in progress.  `SyncCheck` (the
fingerprint), `SyncList` and `SyncApply` are `syncJobs`; a scan may skip any file as one that does
not load or is just being written, and `SyncListFails` is a directory that cannot be read.
Writes succeed.  History for the properties: `counted` (executions written back), `stale` (jobs
written from a copy older than their file) and `missed` (jobs of which the schedule has missed
what is in the file).

### ChannelManager and Gateway

Entries are pairs of an instance and a session; times are ages.  `ExpireStale` is the
part of `expireStale` under `m.mu`, `CloseStale` the closing of one removed channel after
it.  In `Gateway` the steps of `RegisterChannel` and of the two removals are split where
`g.mu` or `m.mu` is released.  A guest is a channel of the same process that uses the
manager directly (the TUI).  Inbound messages occupy a slot of `Callbacks`, and
`recordDedup` is a read of the map and a write of it (`RecordCheck`, `RecordStore`), since
nothing keeps two of them apart.

### AgentSession

`session` is the sequence of messages, each with a number and the call that appended it.
A call of `Prompt` or `Stream` goes through `Call`, `Begin` (the user's message, for a stream
under `streamMu`) and turns: `FinalResponse`, `ToolCalls` with `ToolResult`s, `EmptyStream`,
`ProviderError` or `ToolsCancelled`, then `CountTurn`, which counts the turn, asks `Check` and
copies the session for a compression.  `CompressTryLock`, `CompressFails`, `Replace` and
`CompressDone` are `runCompress`; `Kept` is the split of `Summarize` and `Compress`.  `intact`
and `spoke` are history: the compressions since whose snapshot messages were only
appended, and the stream that appended last.  No code puts a system message into a
session, so the branches for one are left out.

### ProviderStream and Delegation

The server's response is a stage (`open`, a finish reason, over), a number of texts and a
number of fragments per tool call; it may fall silent, send something malformed or break
off.  `ReadEvent` is one round of `readStream`: what it assembles (`Fragment`), flushes
(`Flushed`) and has to send (`prod.todo`), for the OpenAI or the Anthropic flavour.  `Push`
is the blocking send into the channel of chunks; the watchdog (`IdleFires`, `CancelSeen`)
closes the body at any moment at which it has not just seen data, and the agent's turn
(`Receive`, `SendEvent`, `RangeEnds`) ranges over the channel.  The reader of the agent's
events may cancel.

`Delegation` is a call of the delegate tool: `Launch` … `Killed` are `ACPSubAgent.start`,
`SubSays`/`Deliver`/`SubBreaks` the goroutine that reads the answer, `TakeEvent`/`Forward`/
`AnswerEnds` the loop of `ExecuteStream`, `ResultShown` the agent that shows the result.  An answer
that breaks off is, from an agent of our own, a text event with the error and an `EventDone`, as
the last chunk of `ProviderStream` is (`AgentBreaks`), and from an external one an `EventDone` if
there is room for it (`ServerBreaks`).  The
context ends by the deadline (`lapsed`), by cancellation or when the tool returns, and
`ContextKills` is what `exec.CommandContext` does then.

### FeishuChannel and TuiStreams

A message of `FeishuChannel` is a goroutine: handler, cache read, lock, request, answer,
post, reaction.  Tokens have a true time left at the platform (`valid`) and a believed one
(`cache`); they differ by the time the answer took.  The cache's write lock is held over
the request (`refresher`).  The 30 s margin is `Margin`, the HTTP timeout `MaxWait`, and
`FeishuAssumption` asks that a request and a post together fit in the margin.

In `TuiStreams` an outstanding read is a command that Bubble Tea runs in its own goroutine;
its message does not say which stream it is from, so `reads` is a bag of (stream, result).
`FinishAndDrain` is `finishStream` with `drainPending`, called wherever the code calls it.

### ShortTermMemory

A database has tables (`path`), a wing and rooms (`made`) and drawers.  A store goes through
the statements of `storeByNameOnDB` (`LookUp`, `Make`, `Insert`), one for a summary first through
`Peek` and `ClearSummary`.  Who stores is a stream, a prompt or a compression: a compression the
summary, the other two messages and the rest.  Messages are stored under `context.Background()`
(`persistMessage`), everything else under the agent's context, which `Close` cancels first
(`Uncut`, `StoreCut`).  `Close` waits for the streams and the promotions (`AtRest`: `streamWg`,
`bgWg`), for at most thirty seconds, and neither for prompts nor for compressions.  (The agents
that cobot calls `Prompt` on have no memory store: those of chats, `bootstrap.go:453`, of jobs and of
delegated tasks.  The agent with a store is used through `Stream`.  `Agent` offers `Prompt` with a
store all the same, so the model has it.)

A promotion reads room by room, summarises, stores insights or copies, and clears the rooms
it read; the archive of another process checks, promotes and deletes the files, which an open
handle survives (`opened`).  `acked` is what a caller was told is stored, `late` what was stored
after `Close` had read the rooms, and `lost` what is gone without a copy, by its reason: `cleared`,
`archived`, `history` or `inUse` (see [behaviour worth knowing](#behaviour-worth-knowing)).

### Skills and SandboxPaths

Skill files are in places (category and name); a file is its description, `torn` while it is
created and not yet written, and a directory without one is `bare`.  Every operation of
`skill_manage` is split at its file operations, and a process may hold a file open that has
been removed meanwhile (`fd`).  The prompt is a sequence of lines of which the kind matters:
text, heading, fence, marker, and the line that stands for the list.  `SkillsToPrompt` writes
descriptions as they are, so `SkillsSection` is the header, the list, whatever further lines the
descriptions have (`Below`), and an end; a description may hold headings and blocks of code,
closed or not.  `ReplaceSection` is the search of `replaceSkillsSection`.  `flaws` is history: which
of two things that go wrong in a section have been in one so far, an open block of code or a
heading outside blocks of code.

A path in `SandboxPaths` is a sequence of segments.  `ResolvePath`, `AutoResolvePath`,
`VirtualPath`, `IsAllowed` and `RewriteOutput` are operators on a configuration, which is
`EffectiveSandbox` of a workspace's and an agent's section.  The actions are the file tools and
the shell tool: they resolve an argument, check it, touch a file and show a path.  `Clean` and
`Replaced` (`strings.ReplaceAll` in a text that is a path) are recursive functions over the
segments.  `PathsLeadBack` names the paths that do not lead back as conditions of its parts; the
run has configurations and arguments for which each of them is needed.

### Workspaces and ChannelSetup

Both are commands that read a file, work and write it back while others do the same.  In
`Workspaces` a file is the empty set or holds its content, of which only what the commands
change is kept; every command starts with the manager, which makes the default workspace.
A failed write leaves an empty file.  In `ChannelSetup` the device-code registration
(`BuildQRPayload`, `PollSucceeds`, `PollWaits`, `PollGivesUp`) precedes the file; `promised` is
history: the channels that were reported saved and that no other command may have undone.
`StartGateway` is `loadConfig` and `ConfigureGateway`.

## Runs and bounds

| run | configuration | what it checks |
|---|---|---|
| `service` | `MCService.cfg` | leadership and jobs: types, `NoSplitBrain`, `StoppedIsQuiet`, `CountsAddUp`, `ImplementsLease`, `StopTerminates`, `ScheduleConverges` |
| `agent` | `MCAgent.cfg` | session, provider, delegation, Feishu, terminal: types, `StreamsDoNotMix`, `ReplaceKeepsNews`, `EveryCallEnds`; `CallsAreWhole`, `StreamEnds`; `SuccessHoldsAnswer`, `NothingLeftRunning`; `RepliesAreAuthorised`, `OneRefresh`, `EveryMessageEnds`; `PromptsInOrder`, `QueueDrains` |
| `storage` | `MCStorage.cfg` | broker tables and a session's database: types, `ImplementsMailbox`, `CleanupIsLawful`; `NothingForgotten`, `OneSummary`, `CloseKeepsAll` |
| `installation` | `MCInstallation.cfg` | skills, paths, workspaces, setup, channels, messages: types, `UserPromptKept`, `CreatedOnce`; `PathsLeadBack`; `FallbackResolves`; `SavedChannelsServed`; `EntryIffHeartbeat`, `GuestAliveIffManaged`, `HealthCheckSparesGateway`, `ReplaysDropped` |
| `results_safety` | `CronResultsSafety.cfg` | two processes, two messages on a routed and an unrouted channel, one fault: types, `NotifiedOnce`, `OldResultsSilent` |
| `results_live` | `CronResultsLive.cfg` | the same without faults: `EveryResultHeard` |
| `agent_news`, `leader_regains`, `results_cleanup`, `jobs_pause`, `gateway_dedup`, `workspace_settings` | see below | expected to be violated: the code does not do what a comment or the README says |

The first four run several modules at once.  These modules share no variable, so a behaviour
of the run belongs to one of them (`part` says to which) while the others stay in an initial
or rest state: the states of the run are the sum of the modules' states, not their product,
and every property is checked against every behaviour of the module it is about.  Modules
that do share state are composed where they do: `CronLeader` on `BrokerLock`, `CronResults` on
`BrokerPubSub`, `Gateway` on `ChannelManager`.

Why the bounds are enough for the cases of interest:

* leadership: two schedulers, lease 4, interval 1, lateness 1, lag 1, one job in flight, one
  database error.  The lease is the least that satisfies the assumption
  `RenewInterval + MaxStall + MaxLag < LeaseTTL`, so the boundary is reached.  Two
  processes suffice for exclusion, which is about pairs (the theorem covers any
  number).  One error is enough to send a leader through step-down, re-acquisition
  and `becomeLeader` in every phase of `Stop`.
* jobs: one job, recurring or one-shot, which is new or there and paused; a client in the
  leader's process and one elsewhere, two calls, two executions: enough for two that overlap
  while the job is paused, listed or removed by another client (`jobs_pause` has three
  calls).  Every scan may skip the file or fail.  Jobs do not interact, apart from
  the count in `AddJob` and from a scan that is triggered by any of them and reads them all.
* session: five messages are the least with which a summary drops something (four) and
  something new follows; the two streams append up to ten, so sessions are cut as well.
  Two slots let a compression find the mutex taken, and start with a snapshot from
  before another one replaced the messages.  Calls of `Prompt` differ from streams by not
  taking `streamMu`, so they can only add interleavings; `agent_news` has one, and the
  theorems cover any number.
* provider: two tool calls, so that fragments interleave; channels of two, so that the
  producer, the agent and its reader each find the next one full.
* delegation: two events before the end and channels of one, so that forwarding blocks.
* Feishu: two messages race for one token and there is one more token; the margin is the
  time of a request and an answer with room for one tick, so a token ends while it is used.
* terminal: three prompts, so that one is queued behind a queued one; with one event per
  stream besides its end a stream has two outstanding reads when it is cancelled.
* broker: with one-message batches a `Cleanup` goes through full, short and last
  batches; both time-to-live values are 1 with lag 1 and a clock up to 2, so there are
  sessions and messages on either side of every threshold.  Sessions are symmetric.
* memory: two items, one promoted room beside the two special ones, one fault, and casts of
  three goroutines: two streams, a stream with a compression or a prompt, and two
  compressions, each with a promotion or without; a stream with promotion and archival, with
  two archivals, with two promotions.
* results: a batch holds one message and the drain limit is two (safety) or one
  (liveness), so messages are left over by every loop.  The clock stands still:
  expiry is the subject of the broker's tables.
* skills: a name in the root and in a category, a name that is both skill and category, the
  syncer's own, two calls; descriptions with a heading in a block of code, with a heading, and
  with a block that is not closed; a prompt without section, one with a section and blocks of
  code that look like one, and one with two sections and an open block.  The callers of
  `skill_manage` are symmetric.
* paths: the workspace's directory or a project, with or without an agent that overrides, also
  by a virtual root below the real one; fourteen arguments: virtual, real, relative, with dots,
  read-only, allowed, outside, and some in which a root comes a second time.
* workspaces: two commands, so every pair of commands interleaves, with `default` and one more
  name, a custom path and a failed write.  Setup: two setups, the wizard and a gateway on any
  initial file, with two names that make one id.
* channels: the timeouts are 0 or 1 unit, so an entry may go stale at every step; two
  instances share the id, so that a removal and a registration overlap.  Messages of a
  gateway depend on its channels only by their registration, so `channels` and `messages`
  are two parts of the same module: one without deliveries, one without guests and health
  check.

The composed runs and the results stop when their bounded calls, executions and messages
are used up, so they do not check for deadlock; that what was started ends is stated by the
liveness properties instead.

`ScheduleConverges` leaves out jobs that the schedule has missed and one-shot jobs whose time has
come; the former are explained under [behaviour worth knowing](#behaviour-worth-knowing).  A job
counts as missed only until the next scan, which a change of any file brings about.

## Fairness

* `CronLeader!LiveSpec`: time passes; goroutines of `Start`, the loop and `Stop` that can
  take a step do so; jobs return, because they run under `jobTimeout`.  Strong fairness
  is assumed in two places: `LoopExit`, because `ctx.Done()` stays ready after the
  cancellation and Go's `select` chooses at random among ready cases, and `StopDrained`,
  because a `WaitGroup` releases its waiters when it reaches zero even if the count rises
  again.  Starting a process, `StopBegin`, `Fire` and `Crash` are never forced.
* `CronResults!LiveSpec`: the ticker of `consumeLoop` keeps firing.
* `CronJobs!LiveSpec`: a call that was begun, an execution and `syncJobs` go on.  Nobody
  has to begin a call.
* `AgentSession!LiveSpec`: providers and tools answer, fail or are cancelled, the reader of a
  stream takes its events (or cancels it: `sendEvent` waits for one of the two), and
  goroutines that can run do.  Weak fairness suffices for a stream that waits for
  `streamMu`, as there are finitely many calls.
* `ProviderStream!SseFairness`: the producer, the watchdog, the agent's turn and the reader of
  its events go on.  The server need not: that is what the watchdog is for.  A closed body
  makes the read fail.
* `Delegation!DelegationFairness`: the tool and the goroutine of the answer go on, a context
  that is done kills the process and breaks the requests made under it, the time limit
  comes, and the terminal takes events.  The sub-agent need not say anything.
* `FeishuChannel!FeishuFairness`: a message's goroutine goes on (requests are answered or fail
  within the client's timeout), with strong fairness for taking the cache's mutex, which is
  taken and released by others meanwhile: Go's mutexes do not starve a waiter.
* `TuiStreams!TuiFairness`: Bubble Tea runs commands and handles their messages, and the agent's
  streams go on.  Nobody has to press a key.

`MCService` and `MCAgent` state the same fairness; where a module would otherwise be asked to
move in a behaviour of another one, its conditions are guarded by `part`.

## Proofs

The theorems hold for every value of the constants that satisfies the named assumptions,
one per module (`LockAssumption` … `SetupAssumption`); TLC evaluates those on the instances
of the runs.  Most say no more than which numbers are naturals and which sets are disjoint or not empty.
Those that say something of the program or its surroundings are:

* `LeaderAssumption`: a renewal interval, a late tick and a late statement fit in the lease.
* `FeishuAssumption`: a request for a token and a post fit in the margin, and a token lives longer.
* `ResultsAssumption`: any process may clean up (`Cleaners = Sessions`), as any may lead.
* `SkillsAssumption`: no more than types.  Prompts and descriptions are any sequences of lines;
  what the prompt keeps depends on them, and `UserPromptKept` says how.
* `SandboxAssumption`: a root that is set is a clean absolute path other than `/` (see
  [not modelled](#what-is-not-modelled)), and an argument is a path: no segment but its first is
  a `/`.
* `SetupAssumption`: no channel is listed twice in a `config.yaml` that was written by hand.  (What
  `ConfigureGateway` does with two *different* names of one id is part of the property.)
* `WorkspacesAssumption`: no custom data directory is one of the manager's own directories.

| module | theorems | statement |
|---|---|---|
| `ServiceProofs` | `LockInvariant`, `LockIsExclusive`, `LockRefinesLease` | `LockSpec` keeps `LockInv`, hence `LeaseExclusive`, and implements `Lease` |
| | `LeaderInvariant`, `LeaderTypes`, `NoTwoLeaders`, `StopLeavesNothing`, `LeadersRefineLease` | the schedulers keep `LeaderInv`, hence `NoSplitBrain` and `StoppedIsQuiet`, and implement `Lease` |
| | `JobsInvariant`, `RunCountsAddUp`, `ServiceTypes` | `JobsSpec` keeps `JobsInv`, hence `CountsAddUp`; `ServiceTypeOK` |
| `BrokerPubSubProofs` | `PubSubInvariant`, `PubSubTypes`, `PubSubRefinesMailbox`, `PubSubCleanupIsLawful` | `PubSubSpec` keeps `PubSubInv`, implements `Mailbox`, and its Cleanups do only what they may |
| `CronResultsProofs` | `ResultsInvariant`, `ToldAtMostOnce`, `OldNeverTold`, `ResultsTypes` | `Spec` keeps `ResultsInv`, hence `NotifiedOnce` and `OldResultsSilent`; `ResultsTypeOK` |
| `ShortTermMemoryProofs` | `StmInvariant`, `StmTypesHold`, `NoItemForgotten`, `AtMostOneSummary`, `CloseKeepsEverything`, `StorageTypes` | `StmSpec` keeps `StmInv`, hence `NothingForgotten`, `OneSummary` and `CloseKeepsAll`; `StorageTypeOK` |
| `AgentSessionProofs` | `AgentTypeCorrect`, `StreamsAreSerialised`, `ReplaceKeepsWhatIsNew` | `Spec` keeps the types, `StreamsDoNotMix` and `ReplaceKeepsNews` |
| `ConversationProofs` | `FeishuInvariant`, `RepliesAlwaysAuthorised`, `OneRefreshOnly` | `FeishuSpec` keeps `RepliesAreAuthorised` and its steps satisfy `OneRefresh` |
| | `QueueInvariant`, `PromptsSentInOrder` | `TuiSpec` keeps `SentThenQueued`, hence `PromptsInOrder` |
| | `StreamInvariant`, `CallsNeverCut` | `SseSpec` keeps `SseInv`, hence `CallsAreWhole` |
| | `DelegationInvariant`, `SuccessesHoldAnswers` | `DelegationSpec` keeps `DelegationInv`, hence `SuccessHoldsAnswer` |
| | `ConversationTypes` | `ConversationTypeOK`, for the five modules of `MCAgent` |
| `GatewayProofs` | `ManagerInvariant`, `EntriesMatchHeartbeats`, `AdminInvariant`, `GuestsAliveWhileManaged`, `HealthCheckSparesRegistered`, `InboundInvariant`, `ReplaysAreDropped`, `GatewayTypes` | `GatewaySpec` keeps `EntryIffHeartbeat`, `GuestAliveIffManaged` and the types; its steps satisfy `HealthCheckSparesGateway` and `ReplaysDropped` |
| `InstallationProofs` | `SkillsInvariant`, `OneCreation`, `PromptsKeepOwnLines` | `SkillsSpec` keeps `SkillsInv`, hence `CreatedOnce` and `UserPromptKept` |
| | `PathsInvariant`, `ShownPathsLeadBack` | `SandboxSpec` keeps `PathsInv`, hence `PathsLeadBack` |
| | `ResolvedIsBelowRoot`, `VirtualPathsResolve` | for every configuration: what `Resolve` answers is below the root, and it is inverse to `VirtualPath` there |
| | `WorkspacesInvariant`, `DefaultAlwaysResolves` | `WorkspacesSpec` keeps `WorkspacesInv`, hence `FallbackResolves` |
| | `SetupInvariant`, `SavedChannelsAreServed` | `SetupSpec` keeps `SetupInv`, hence `SavedChannelsServed` |
| | `InstallationTypes` | `InstallationTypeOK`, for the five modules of `MCInstallation` |

The theorems about a module are about its own specification.  Those about the types of a
composed run are about the composed one; they follow from the modules' invariants, as in
every step one module moves and the others rest.

* **Lock.**  Exclusion is not inductive: that two promises are not good at once says
  nothing of the table.  `LockInv` adds `PromiseBacked`: a good promise is the row, with
  the same time left.  A second grant then needs an expired row, which no good promise
  has; a late statement sees the row as *less* expired than it is, so a lag cannot
  harm a take-over, and it shortens what it grants.
* **Leadership.**  `NoSplitBrain` follows from exclusion if a running cron implies a good
  promise.  `FreshLease` says so for every process that relies on its lease, also for one
  that has been granted it and is on its way to starting its cron: its promise has at
  least `LeaseTTL - MaxLag - since[p]` left, and `since[p]` is at most
  `RenewInterval + MaxStall`.  This is where `LeaderAssumption` is needed.  `Bookkeeping`
  ties `phase`, `loop`, `cronOn`, `isLeader` and `inflight` together: there is a loop only
  between `Start` and the wait in `Stop`, and a cron or a job behind a finished loop
  implies that the second check of `Stop` finds `isLeader` set.
* **Publish/subscribe.**  The mapping turns the tables into mailboxes: what is pending
  for a session are the rows of its channel for which it has no receipt.  Refinement
  alone would let a `Cleanup` that drops a lively session pass as that session's leave,
  so `CleanupIsLawful` also names who does what: a step of `Cleanup` maps to `Evict`,
  `Expire` or a stutter.  The invariant needs that ids in
  tables and inboxes were given out (`IdsGivenOut`: or a stray receipt could hide a
  message that is published later), and that a running `Cleanup` works with a time that
  is not in the future (`CleanersBehind`: or it could evict a session that was heard of
  in time).
* **Conversation.**  The types need `ToolsLeft` (a call that collects results has one to
  come).  `StreamsDoNotMix` is inductive with them, because a stream begins only when no
  other holds the mutex.  `ReplaceKeepsNews` follows from `SnapshotIsPrefix`: the snapshot
  of an intact compression is the front of the session and all its messages are older
  than what was appended since.  To keep it, messages must not be numbered ahead
  (`SessionIds`, `SnapshotIds`).  `KeptIsEnd` says that `Summarize` and `Compress` keep an end of
  the snapshot, so that what is kept and what is new are adjacent.
* **Results.**  A process may tell again only what the tables offer it again.  `Settled` says
  that they do not, or that this is excused (a failed ack, receipts that a start purged);
  it holds for what has been told and for what was there when the process started.  Between
  telling and the ack, the batch in hand stands in for it.  A `Drain` ends when a batch is
  empty: then nothing is pending (`EmptyBatch`, by the least id).
* **Gateway.**  Three parts need little of one another.  The manager's maps agree
  (`ManagerInv`).  A channel whose registration is complete is marked as local for as long as
  it has an entry (`DoneIsLocal`), so the health check passes it by; a guest has an entry, or
  is about to be closed, or is closed (`GuestsKept`).  The dedup map has no record of a
  message only if there was none or it was too old (`InboundInv`).
* **Feishu.**  The cache counts from when an answer came, the platform from when it gave the
  token, so the cache believes in a token for up to `MaxWait` too long (`CacheBehind`); a
  reply takes up to `MaxWait` more.  The margin of `getTenantToken` covers both, which is what
  `FeishuAssumption` says.  `RefresherHolds` gives `OneRefresh`: whoever asks for a token holds
  the lock and found the cache stale, and nobody else writes the cache.
* **Terminal.**  The prompts sent and those in the queue are together the prompts entered, in
  order, and prompts wait only behind a stream (`SentThenQueued`).
* **Jobs.**  A count comes into a file from a copy that was read long before, so the invariant
  speaks of all the copies, in calls (`CallCopies`) and in executions (`RunCopies`), of which there
  may be any number at a time.  A copy whose token is still that of the file has the
  file's count, and any other can only be behind; so `RunCommit` may add one to it, and what is
  written back counts exactly what was counted unless the copy was old, which is when the
  job becomes `stale` (`FilesCount`).  A new job has no copies yet (`NewJobs`): its first file
  starts at nothing.
* **Memory.**  `NothingForgotten` says nothing of old summaries, nor of what a promotion has read;
  it is lost when a room is cleared or a file deleted.  `KeepsTrace` extends it to all items,
  and `PromotionsCover` says what a promotion about to clear or delete has brought to safety,
  and what it has read and failed to store: only the rest of a file that an archive deletes may
  go as `archived`, and nothing but messages as `history`.
  `OneSummary` rests on the order of a writer's statements: whoever comes to the insert has
  seen or made the room empty, and only one stores a summary at a time (`SummaryInv`).
  `CloseKeepsAll` cannot rest on `Close` having waited for all: `CloseInv` says that streams and
  promotions are at rest when it reads, and that what is stored from then on is messages of
  prompts, since a summary is stored under the context that `Close` has cancelled (`CastInv`: only
  a compression stores one); an item that it has not read (`late`) is safe in the file.
  `DrawersKept` follows the drawers whatever became of the file.
  `NumbersLeft` counts an item for every busy writer, for the type of the items.
* **Provider.**  The tool calls wait in a map until the stream ends, and the turn executes what
  has arrived by then.  `Together` follows them on the way: those the turn has are the first
  of the flushed ones, the others stand next to each other between the channel and what is
  still to be sent (`Follow`), and until the flush none has left (`NoneYet`).  A stream
  that breaks off fails the turn, so nothing need be said of it.  That the indices can be put
  in order at all (`ListsExist`) is by induction on the finite set, as a minimal counterexample.
* **Delegation.**  Until its context ends, the events that the sub-agent has said are in the
  result, in the buffer or in the hand of the goroutine that sends, and afterwards all but
  perhaps the last of them, which the goroutine gives up (`AllOnTheWay`).  The end is the
  last item (`EventsThenEnd`).  How an answer ended can be read off the items that are
  left (`EndingShows`): an error, or a Done, which an answer that broke off has as well.  A call
  that returned within its time has taken them all.
* **Skills.**  That a section is found and replaced is about fences: a line is inside
  a block of code if an odd number of fences precedes it.  `CutSomewhere` says where any
  prompt is cut, `SectionReplaced` what stands where afterwards, and `CodeBefore`, `CodeIn` and
  `CodeAfter` what that does to the parity of each line: nothing before the section, and nothing
  behind it if the old and the new section close their blocks of code.  From these follow three
  facts, one for each part of `UserPromptKept`: the lines before the section stay at the front
  whatever is put in (`AheadKept`); those after it stay together and in order if no block is
  left open, although a heading of a description may be taken for the end of the section, and
  what follows it then stays (`BehindKept`); and with closed blocks and no stray heading the own
  lines are the same (`OwnLinesKept`).  `SectionLines` ties the last two to the `flaws` of what
  `SkillsToPrompt` makes.  Together they are `PromptFits`, which every refresh keeps
  (`FitsRefreshed`) and which is invariant for the prompt and for every copy in a call (`TasksOK`,
  `PromptsOK`).  `CreatedOnce` needs that a file exists wherever a creation is counted (`FilesOK`).
* **Paths.**  That a path leads back says nothing of how it was made.  `ShownBelow` does: it is
  the file's own path with the virtual root in place of the real one.  For that every file
  must have a clean absolute path, whichever tool or program made it, so `Clean`, `Resolve` and
  the rewriting of commands are shown to give such paths (`CleanAbsolute`, `ResolveBelow`,
  `CommandPathAbsolute`); a clean path is left alone by `Clean` (`CleanSame`), and of a path below
  a root that is not repeated, `Replaced` exchanges the root and nothing else (`ReplacedRoot`).
  What a recursive function gives is shown without induction: that it exists, by the least
  domain on which none does; what its values are, by the least (`Clean`) or the greatest
  (`Replaced`, which works from the end) place at which one is wrong.
* **Workspaces.**  How far a command is with the default workspace shows on the disk (`StandsFor`),
  no command has the default one in hand when it removes (`HeldBy`), and a definition names
  its own file (`OwnDefinitions`).  All three fail after a failed write, as the property says.
* **Setup.**  What was promised is in the file (`PromisesKept`): a setup replaces only the entry
  of its own name in what it has read, which is why names must stay distinct there
  (`Distinct`), and `SetupFits` carries the tenant's domain from the scan to the write.

Only model-checked:

* All liveness properties (`StopTerminates`, `ScheduleConverges`, `EveryResultHeard`, `EveryCallEnds`,
  `StreamEnds`, `NothingLeftRunning`, `EveryMessageEnds`, `QueueDrains`): they need fairness, and
  `ENABLED` is out of the provers' reach.
* What is expected to be violated has a counterexample instead of a proof.

## Where the code and its comments disagree

* `agent_news` (`compaction.go:109`).  The snapshot is taken before `compressMu` is tried.  A
  compression that was started before another one replaced the messages, and locks after
  it, cuts at a length that belongs to the longer, old session: newer messages are dropped
  without having been summarised.  The cut in `AddMessage` has the same effect when a
  session is full.
* `leader_regains` (`leader.go:23`).  `becomeLeader` is called only after `TryAcquire`
  succeeded.  After one `Renew` that failed with a database error the process steps
  down, `TryAcquire` says no because the process's own lease has not expired, and at
  the next tick `Renew` succeeds.  From then on it renews the lease and runs no jobs.
* `results_cleanup` (`sqlite.go:400`).  A message is deleted as "fully delivered" when no
  registered session lacks its receipt.  As no session is ever registered, a result may
  be deleted before anybody has consumed it.
* `jobs_pause` (`scheduler.go:455`).  The end of an execution writes the copy of the job
  read at its beginning after it has unlocked `s.mu`; a pause in between is undone.
* `gateway_dedup` (`gateway.go:156`).  `recordDedup` is called without the mutex that its
  comment asks for: two callbacks for one message may both handle it.
* `workspace_settings` (`config_cmd.go:207`).  `config set`, `config set-auth` and `config init` read
  `workspace.yaml` as a `cobot.Config` and save that to the same file.  The id, external agents,
  sandbox section and enabled skills are gone, `workspace show` then panics on the empty id,
  and the value that was set is never read: `loadConfig` looks at the global `config.yaml` and
  at `<root>/.cobot/config.yaml` only.

Some more comments say what the code does not do; the models have these behaviours, as
the properties allow for them by name.

* `stm.go:397` says that clearing only after an insight was stored "prevents data loss when
  storeInsights partially fails"; with one stored and one failed the rooms are cleared.
* `compaction.go:40`, "Prevent concurrent promotions": the mutex is released when the goroutine
  has been started.
* `stm.go:219`, "the raw copy is the primary path" when the summary fails: both share one
  deadline, so a model that hangs leaves no time for the copy.
* `README.md:375` counts `sandbox.allow_paths` among the paths that `filesystem_read` and
  `filesystem_write` may use.  What `Resolve` answers is always below the root
  (`ResolvedIsBelowRoot`): `/tmp/f` is `<root>/tmp/f` for them, and only commands reach `/tmp`.
* `session_manager.go:258`, "promotes sessions with content to LTM before deleting their STM files":
  they are deleted also when the promotion failed or found too little, and without their
  history, which is in no promotion.  `stm.go:24` says that the history is "preserved
  indefinitely", `stm.go:28` that it "persists for session recall", and `stm.go:315` that the database
  "is NOT deleted": the archive deletes it after a successful promotion, too.
* `tui_stream.go:67`, "Only EventError is terminal": `handleStreamMsg` takes the `EventDone` of a
  sub-agent, which `delegate.go:204` forwards into the parent's stream, for the end of the whole
  turn and cancels it.  A late message of an earlier stream does the same to the current one.

## Behaviour worth knowing

Found while modelling; no line of the repository says otherwise, so no run does.

* A process that starts as a follower has no renew loop.  When the leader dies, no
  running process takes over; the next one to be started does.
* `Stop` releases the lease only if `isLeader` is set: a process that stepped down and
  renews its lease leaves the row to expire.
* `NewSQLiteBroker` purges receipts of sessions without a row.  These are the receipts of
  all running consumers, which then report results again that are still in the table
  (`excused` in `CronResults`).
* A consumer whose `AckAll` fails, or whose handler panics, reports the batch again, and one
  whose initial drain breaks off at its limit or at an error reports old results as new
  (`excused`).
* `store.Update` and `store.List` write files without looking at them: a job removed while
  it executes or is listed is back afterwards.  `List` gives each job a new token, which
  invalidates the tokens of other clients.
* `RemoveJob` drops the cron entry before the store has verified the token.  If the token is
  refused, the job stays in the store as active and is not scheduled until a file
  changes (`missed` in `CronJobs`).
* `HasChanged` stores the new fingerprint before the files are read.  When the directory cannot
  be read, or a file is skipped because it does not load, the change counts as seen: it is
  not applied until some job file changes again (`missed`).
* An entry fires while the last execution of its job is still in progress.  Each execution
  writes back the whole job it read before it ran, so of two that overlap one is not counted
  (`stale`).
* `HasChanged` compares with the fingerprint of the last scan only.  A file that appears
  after the fingerprint was taken, is listed, and is gone at the next fingerprint leaves
  an entry without a file; it never executes, because `runJob` reads the file first.
* `AddJob` on the leader writes the file a second time only if the cron instance knows the
  next time of the new entry.  When it does not (the instance is being replaced, or the
  expression never comes true) and another client pauses the job between the two steps of
  `AddJob`, the entry stays although the file says paused, until the file changes again.
* Two `AddJob` calls may both pass the check of the job count.
* A run record stored after `RemoveJob` creates the run database again.
* If a DELETE and a new registration of one id overlap, `Register` may find the old
  session and only renew its heartbeat before the DELETE unregisters it: the new
  channel is then registered with the gateway but gets no notifications.
* When `Start` of a channel fails, its id stays claimed until it is deleted.
* `Prompt` calls on one agent are not serialised; the gateway makes one for each message of
  a chat, so that the turns of two messages mix in one session.
* A stream cancelled between two tool results leaves tool calls without an answer in the
  session, and the part kept by a compression may begin with a tool result whose call was
  summarised.  Later requests send both to the provider.
* The turn counter is never reset: once it has come to `SummarizeTurns`, every turn starts a
  compression.  With fewer than four messages it puts an empty summary in front.

Memory.

* `deleteSessionFiles` removes `<id>.wal` and `<id>.shm`; SQLite's files are `<id>.db-wal` and
  `<id>.db-shm`, which stay.  `NewMemoryPromoter`, `ResetSession` and `pruneOldSessions` have no
  callers.
* What is stored between a promotion's read and its clear is cleared unread, and so is what an
  insight that could not be stored covered, when another one was (`cleared`).
* Archival deletes the file with whatever its promotion has not copied: below the threshold,
  without content in "history" or "context", after a failed statement, or stored since
  (`archived`).  The history is in no promotion, also in a successful one, and goes with the
  file (`history`).  A process that has the file open works on until it closes it, and what it
  stored is then gone (`inUse`).
* `Close` does not wait for a `Prompt`: its last message may be stored after `Close` has read the
  rooms, and is then in the session's file and not in the long-term memory; or `Close` shuts the
  database and the message is lost with an error that is only logged.  A compression's summary
  fails with the cancelled context.

Streams and delegation.

* The send in `readStream` cannot be cancelled: a reader that goes away leaves its goroutine
  behind.  The idle watchdog also counts the time in which `readStream` waits for room.
* The usage that OpenAI sends after the last chunk of a text is never read.  Anthropic's
  `message_delta` is decoded into other fields than the server sends, so a stop reason is
  never seen and the tool calls of a stream not flushed; `Complete` drops `tool_use` blocks.
* When a stream breaks off, its text has been shown, is not in the session and is asked
  for again.
* A delegated answer that breaks off counts as a success with what came so far: from an agent of
  our own with "[stream error: …]" as its last text (the provider marks that chunk as Done),
  from an external one without a word.  So may one whose context ends, and
  then an error event can be lost on the way.  ACP processes are never waited for, the sandbox's clean-up of their wrapper is
  not called, and a killed agent stays `started`.

Terminal and Feishu.

* Two outstanding reads of one stream may deliver its events in either order.
* `Start` of the Feishu channel gets `context.Background()` (`gateway.go:226`), so `Close`
  waits until the SDK gives up by itself; until then a closed channel receives messages.
* The token is asked for at `open.<domain>.cn`, which is not where Lark's is; the setup
  uses `open.larksuite.com`.

Skills.

* `SkillManager.Reload` is called by `NewSkillManager` and `/skill reload`: a skill written by
  `skill_manage` is not listed before, although the prompt says that it can be loaded.
* `SkillManager.ReadLinkedFile` looks for the skill under the skill's own directory.
* Two refreshes of one prompt lose one; so do two patches of one file.  The TUI's change of
  workspace during a turn can be undone by the turn's refresh.
* A creation that fails after the directory was made, or a deletion that races with
  `write_file`, leaves a directory without `SKILL.md`: the name can be neither created nor
  deleted.
* Descriptions are written into the prompt as they are, and `validation.go:54-66` refuses neither
  line breaks nor what follows them.  A "## " heading in one ends the section at the next refresh:
  what follows it stays in the prompt, once more with every refresh.  A block of code that a
  description leaves open hides the headings behind it: the next refresh then drops the
  user's lines after the section.  A user's prompt with an open block of code hides the section
  itself, and every refresh appends another one.

Paths.

* A root that comes once more below the first is replaced twice in the texts of commands:
  `/home/w/home/w/f` under the virtual root `/home/w` is `<root>/home/w/f` for the file tools and
  `<root><root>/f` for a command, and a path with the real root in it twice is shown by a
  command with the virtual root twice.
* A file whose real path looks like a virtual one, as when the virtual root is below the real
  one, is taken for that: its real path leads to another file.

Workspaces and setup.

* A definition whose write failed is an empty file, which lists as a workspace named ""; to
  delete that one removes the directory of all workspaces.  Two projects whose directories
  have the same name share a workspace, and `delete` removes a custom `--path` that is shared.
* A refused `workspace_config_update` has already changed the configuration in memory, and
  a running agent writes its old copy over what the command line saved.
* `config set` also expands `${NAME}` references and writes the values back.
* `poll` looks at its deadline before it waits, not after; an interval of 0 polls without
  pause.  The domain only switches from feishu to lark.  Credentials are saved when their
  probe failed, too.
* `SaveFeishuChannelConfig` replaces a file that does not parse by one with the channel only, and
  panics on a file of comments.  `cobot setup` writes a new file without the channels.
* `SaveFeishuChannelConfig` writes back the file it read: of two setups at the same time one loses
  its channel, although both said that it was saved.
* A name that sanitises to nothing is saved and skipped; two that sanitise to one id make
  `ConfigureGateway` fail, without closing the channels it has started.

## What is not modelled

* *Input and output with nothing to interleave.*  The HTTP layer of the gateway (timeouts,
  limits, authentication), the reverse channel, the debug log, the commands that print.
* *Search.*  The palace's full-text index, deep search and consolidation call a model or
  rank texts; what they promise is a matter of relevance.
* *Decisions about text.*  Shell parsing, command classification, estimation of tokens,
  matching of a cron expression.
* *The operating system.*  The back ends of the sandbox (bubblewrap, sandbox-exec, job objects)
  build arguments for programs that enforce them.
* *Wiring.*  `bootstrap` makes every part once, in one goroutine, except for the agents of
  chats; the executor is the sub-agent of a job, here the choice of its outcome.
* Within modelled parts: the read-only lists of the broker; failed writes of job files and changes
  of leadership during a call; a store that a prompt begins when `Close` has closed the databases
  (it opens the session's file anew); the change of the model, the persistence and the usage of an agent's session; symbolic links for paths.

Nothing in the code rejects a root that is relative, has `..` in it or is `/` itself;
`SandboxPaths` leaves such sections out (of `/` nothing but itself counts as below it, and
`strings.ReplaceAll` would replace every separator).  A segment is an atom: that
`strings.ReplaceAll` also finds the root `/p` in `/project` is not modelled.  No link leads out
of the roots.  `PathsLeadBack` is about files under the root; a real path that the shell shows of
a file elsewhere is not reachable by the file tools.

## Plan

Everything planned at first has a module, and every safety property of a passing run a
theorem.  What would come next:

1. `ShortTermMemory` as a refinement of a store in which a promotion is one step, for the
   casts in which nothing is stored meanwhile; and `ProviderStream` as a refinement of a turn
   that receives a response at once or fails.
2. An abstract specification of the job store (a file is what the last write says), with `CronJobs`
   shown to implement it but for the writes that the findings name.
3. The agents of chats in the gateway: creation on the first message, one agent per chat, and
   their end, over `AgentSession` and `FeishuChannel`.
4. The classification of shell commands as an operator on token sequences.
