# AgComm: TLA+ models of the gateway daemon and the runtime

AgComm packages AI applications as `.ai` files and runs them with a Node runtime
(`src/ai-runtime`), a builder SDK (`src/ai-sdk`) and a daemon (`src/gateway`) that
runs the background triggers of installed applications. This directory models the
parts whose correctness depends on orders and failures that tests hardly reach,
checks them with TLC and proves the main invariants with TLAPS.

Contents: 1 the system, 2 modules and how they correspond to the code, 3 what each
run checks and shows, 4 bounds, 5 fairness, 6 what is proved, 7 disagreements
between code and documents, 8 observations, 9 what is not modelled, 10 what could
come next, 11 how to run.

## 1. The system

Everything is single-threaded Node code. Concurrency is the interleaving of async
functions at their `await`s, of several processes that share files, and of the two
ends of a local socket. State is either a map in memory (lost in a crash) or a JSON
file that is replaced by a rename (`atomicWrite`), so a file holds the old or the
new content, but two files are never replaced together.

| Part | Source | State | What is hard | What makes it correct |
|---|---|---|---|---|
| Run execution | `GatewayExecutor.ts`, `RuntimeGateway.ts` | maps `active`, `activeRunIds`, `pending`; `runs.json`; the registry entry | every operation suspends between reading and changing the maps; crash and restart | one owner per queued run; one flow per app; records agree with runs; stops return |
| Installer | `GatewayInstaller.ts` | `app.ai`, registry, `sessions.json` | a replacement races with triggers | old runs are cancelled first |
| Notifications | `GatewayNotifier.ts`, `GatewayDeliveryService.ts` | `inbox.json`, `deliveries.json` | two files without a transaction; a crash between send and write; retries | what is shown as delivered was accepted; bounded repetition; every delivery settles |
| Run streams | `GatewayStream.ts`, `GatewayWatchService.ts`, `ipc/*Stream*.ts` | `streams/<run>.ndjson`, promise `completion`, cursors at both ends | the watcher reads log and record one after the other while both change | frames once and in order; "done" means all; every watch ends |
| Scheduler | `GatewayScheduler.ts`, `shared/background-schedule.ts` | `nextRuns` in memory and in the registry | calendars, a repeated hour, restarts, a crash between start and save | an occurrence starts once; what is due is handled; the fields mean what cron says |
| Process lock and IPC | `GatewayLock.ts`, `ipc/GatewayIpc*.ts` | `gateway.lock`, `liveness.json`, `ipc-token`, the socket | two processes take over the same stale lock; start and stop of two servers at one path; client timeouts | one owner; the server one reaches is the owner's; an answer is what happened |
| Plugin sandbox | `plugin-sandbox.ts`, `plugin-worker.ts`, `runtime/plugin/*` | worker, pending invocations | timeouts against late answers, dispose during start | each invocation settles once, none outlives its worker |
| Sessions | `app-storage.ts`, `storage/LocalFileLock.ts`, `runtime/session/*` | session file, lock file | two processes; stale locks; a record shared by turns | finished turns stay, deleted sessions do not come back |
| Knowledge | `app-storage.ts`, `knowledge/*` | `sources.json`, `index.json`, `vectors.f32`, copies | four files, no lock, cut short anywhere | list, index and vectors go together |
| Configuration and trust | `local-config.ts`, `host-permissions.ts` | `config.json`, credential store, `trust.json`; file handles | a profile is two things; a question between read and write; append reads and rewrites | trust is what the user decided; plugins write where the user pointed |
| Runtime streams and kernel | `streaming.ts`, `runtime/StreamPublisher.ts`, `RuntimeKernel.ts` and its services | queue, result promise, run context | cancel against end; slow consumers; which tokens are output | the stream is the output, its end is told, every consumer resumes |
| HTTP providers | `http-provider.ts`, `runtime/Http*.ts`, `runtime/Sse*.ts` | decoder buffers, timer | chunks cut anywhere; abort, time limit and error together | the reply does not depend on the cuts; an error has its cause |
| Renderers | `terminal-renderer.ts`, `line-renderer.ts`, `tui/renderer/*` | key handler, form state, queued lines | prompts, aborts and ends in any order; lines before and after questions | the keys have a reader, the focus is visible, each line answers once |
| Screens and program | `terminal-app.ts`, `terminal-launcher.ts`, `cli.ts` | raw mode, nested screens, exit code, JSON answer | screens that outlive what asked for them; aborts between keys; a failure at each phase | the terminal is given back; consent precedes background runs; one answer |
| SDK, login service, bundles | see `PROJECT.json` | none | pure transformation or platform tools | |

How they interact: the CLI parses a command and either starts the daemon
(`RuntimeGateway`, which takes the lock, opens the socket and ticks every 30
seconds) or runs a package in its own process. A run is a flow of nodes in the
kernel; a model node calls a provider over HTTP, a plugin node posts to a worker
thread, and the tokens go through the coordinator and the publisher into a queue
whose consumer is the caller or a renderer. In the daemon the same run is started by a
trigger, its events go to a log file that clients watch over the socket, and its
outcome becomes a notification.

`PROJECT.json` lists every component with its status, and under "hazards" each place
that is hard to test with its line and the properties that watch it.

## 2. Modules

| Module | Models | Role |
|---|---|---|
| `GatewayExecutor` | run execution, registry entry, requests, crash and restart | detailed specification |
| `RunLifecycle` | what run records promise | abstract specification; `GatewayExecutor` implements it |
| `GatewayDelivery` | notifications and their delivery | detailed specification |
| `GatewayRunStream` | log, watchers, socket, client | detailed specification |
| `GatewayDoor` | process lock, token, socket, one client's call | detailed specification |
| `GatewaySchedule` | cron, heartbeat, tick, registry of next runs | detailed specification and a reference reading of cron |
| `SessionStore` | a session file, its lock file, turns of several processes | detailed specification |
| `KnowledgeIndex` | the knowledge of one scope | detailed specification |
| `LocalConfig` | configuration, secrets, trust records | detailed specification |
| `HostFiles` | files that plugins read and write | detailed specification |
| `RuntimeRun` | one streamed run: flow, coordinator, publisher, queue, consumer | detailed specification |
| `HttpModelCall` | one call of an HTTP model provider | detailed specification and a reference reading of a body |
| `PluginSandbox` | workers and invocations of a portable plugin | detailed specification |
| `PluginCalls` | what a sandbox promises its callers | abstract specification; `PluginSandbox` implements it |
| `TerminalForm` | the full-screen renderer with its form | detailed specification |
| `LineForm` | the sequential renderer | detailed specification |
| `TerminalShell` | the screens around a run | detailed specification |
| `CommandLine` | the program `agcomm` | detailed specification |
| `MCGateway` | `GatewayRunStream`, `GatewayDoor`, `GatewaySchedule` together | instance for TLC |
| `MCRuntimeLocal` | the four modules about files and `TerminalForm` together | instance for TLC |
| `MCRuntimeRuns` | `RuntimeRun`, `HttpModelCall`, `PluginSandbox`, `LineForm`, the screens, the program | instance for TLC |
| other `MC...` | one module each | instances for TLC |
| `..._proofs` | | theorems (section 6) |
| `Recursion` | | induction and recursive functions, for the proofs |

In every module an action is the code from one `await` to the next. Definitions
named `Slip...` are one-line mistakes in the definition that follows them; no action
uses them. They document which mistake each property notices. Variables called
"history" record something no code stores and that a property excuses; no guard
reads them.

The modules that an `MC` module puts together share no variable: the variable `part`
says which of them moves, and the others stand in one of their initial states. Such
a run is the union of its modules' own state spaces, not their product.

### GatewayExecutor

All maps of the executor are keyed by app id and the files lie in the app's
directory, so one application is the whole story. Variables and code:

- `active`, `activeRun`, `pending`: the executor's maps `active`, `activeRunIds` and
  `pending`. A controller is created with its run, so `active` holds the run.
- `pc[r]`: the await at which the call that drives run r stands. `"starting"` is the
  first upsert of `start`; `"launched"`, `"listing"`, `"running"`, `"ending"`,
  `"cleanup"`, `"swept"` are `execute` in its order; `"failing"`, `"settling"` are
  `failLaunch`; `"fetching"`, `"dropping"`, `"dropped"` are `launchNext`;
  `"draining"`, `"cancelling"` belong to `cancelPending`; `"lost"` is a run whose
  driver threw outside any handler.
- `lock`: `withLock` chains promises, so upserts run in the order of their calls.
  `CallUpsert` appends, `Turn` takes the head and is the write.
- `req[q]`: a caller (CLI or IPC socket) and the await at which its request stands.
  `queue` is the array `cancelPending` took out of the map.
- `reg`, `saved`: the registry in memory and in `registry.json`. `disk`: `runs.json`.
- `gw`: the process; `Crash` forgets all of memory, `Restart` is
  `RuntimeGateway.initialize` (open records become cancelled).
- `overlapped` is a history variable: `launchNext` replaced an entry of `active` that
  another start had taken. The code does not look (see 7), so properties that need
  one flow say so.

A tick that finds several due triggers appears as several `TickBegin`/`TickFire`
pairs, which start the same runs in the same order with more interleavings between
them. `TickFire` may start any trigger: which one is due is `GatewaySchedule`'s matter.

`RunLifecycle` says what records promise: a record moves from none to queued or
running, forward only, is final once, and only a run recorded as running is recorded
as completed; a new process cancels what was open. The mapping is `record <- disk`.

### GatewayDelivery

One application again; both files are guarded by the lock `${id}:notifications`,
which a handler holds from its first read to its last write. `at` is where that
handler stands, `box` and `out` are its copies of `inbox.json` and
`deliveries.json`. `Abandon` is a crash of the daemon or a failing read or write
(both end the handler; what it wrote stays). Items are numbered in order of
creation; the clock is reduced to what the code compares: the age of an item
(within the day of deduplication, older, past the retention) and whether a delivery
is due. Clocks move between handlers, and ages only while another contact may come
that looks at them. The webhook's signature and HTTP request are an adapter that
accepts or refuses.

### GatewayRunStream

One run, its log and the clients that watch it. `pc` is the part of the executor
that a watcher can observe: record queued or running, old log removed, frames
appended and flushed by the promise chain `tail`, final record, `complete`. Reads and
writes of the app's files may fail. `Settle` is `cancelPending`, or `launchNext` of a
disabled app: when it fails nobody completes the run (`pc = "lost"`). `FailLaunch`
swallows the failure of its own write and completes the run all the same; when it cannot
even read the record after the end of `execute`, it leaves without a completion. Either
way the record stays as it was, which `unwritten` remembers as long as the process
lives. `keep`
is `cleanup` between its list of runs and its removals. A watcher (`at`, `cursor`,
`buf`, `stored`) reads frames, yields them, reads the record and decides; `wait` is
`waitForRun`, which runs beside it; `chan` and `ending` are the socket;
`got` is what the client consumed over all its subscriptions, and the client's next
cursor. `Cut` is a consumer that stops, aborts or loses its connection, `Restart`
the daemon dying and coming back. Clients share only the completion promise.

### GatewayDoor

The daemon processes that may exist in one state directory, and one client's call.
`step[p]` follows `acquire`, the mint of the token, the removal of an old socket
path, `listen`, the serving daemon, and `dispose`, await by await; `saw[p]` is the
lock that p read and what its stamp came to, because the removal of a stale lock
comes after the read and may hit another file. A lock file is created empty and
written afterwards, so `lockText` may be `"empty"`. Time is one question, "less than 90 seconds
old", asked of the lock's `startedAt` and of `liveness.json`; `Pass90` makes every
stamp old, a tick makes the liveness new. A stamp that cannot be parsed, or no
liveness file, makes the code's `Math.max` NaN (`stamp = "nan"`), which counts as
stale. `path` is who created the socket file: `close` of a server removes the path
whoever made it. `call` is one request of a client: connect, token, execution,
answer, a reset, the ten-second limit, and a connection that ends without an answer.
`excuses` records what undermined the lock: `"first"` (a judgement without a
liveness file), `"silent"` (90 seconds without a beat of the holder), `"replaced"`
(the file removed is not the one read), `"failed"` (a start that failed after it
opened its server).

### GatewaySchedule

`Values`, `DayMatches`, `Occurrences` and `NextCron` are `parseCronExpression`,
`cronMatches` and `nextCronOccurrence`; the property `FieldsMeant` compares the
parsed fields with a reference reading of cron (`Meant`) that mentions neither
ranges that end in 7 nor sets built by steps. A minute of the time zone is a row of
`WallClock`, so a repeated or a skipped hour is a table that repeats or skips rows.
The tick reads the clock, starts what is due one trigger after the other and saves
the registry; `kept2` is the registry on the disk, and a crash between start and
save brings the old times back. The loop of the code over missed occurrences is
`Occurrences` with the grace comparison. What a start does to the app's runs is
`GatewayExecutor`.

### SessionStore

One session file. A handle is a process with the session open; a call (turn, rename,
delete) of a handle reads the file into a new record object (`heap`), which replaces
the handle's variable (`current`), so a call that started earlier may save the
object a later one read: `RuntimeSessionHandle.ts` has that variable. A record is the
sequence of the updates applied to it. The save is `withLocalFileLock` step by step:
exclusive create, pid write, body, `rm` in `finally`; on EEXIST a stat, the age
comparison, the removal of a stale lock, another attempt, until the attempts are
used up. A failing write of the pid throws before `finally` and leaves the lock file
(`left`). Crashes leave it too. `stolen` records that a lock was removed under a
living holder, `mixed` that two calls overlapped: the lock covers the write only.

### KnowledgeIndex

One scope: the list, the chunk index, the vectors and the copies, written one after
the other without a lock. Each source is one chunk named like it, so that an index
and the vectors are sequences of sources in file order. `Kept` is what a removal
leaves of either. `op[o]` is where an import,
removal or reindex stands and what it has read; a reindex removes and imports each
source in turn and may be aborted between them. `WriteFails` ends an operation at any
write, `KnowledgeCrash` the process; the scan at the next start (`scanKnowledge`) marks
every source of a scope whose index it refuses as failed and empties the index.
`crossed` records two operations under way together.

### LocalConfig

`config.json` (profiles, the selected one, publishers), the credential store, and
`trust.json`. `edit[e]` is an operation with the document it read; a save stores the
secret, reads, writes; a deletion reads, removes the secret, writes. Authorizing a
bundle reads the records, looks for one that answers, otherwise asks the user,
reads again and writes. `BreaksOff` is a failing access or a process that ends. `said`
records what the user answered; `crossing` and `partial` record documents
that two operations changed together, and profiles whose save broke off.

### HostFiles

A use of `file.read`, `file.write` or `file.append` names a handle or asks the user;
it then follows `choose`, the size check, the read, the temporary file and the
rename. A text is one unit of the size limit, a file the sequence of the uses whose
texts it holds. The check of the size and the read are two steps, and so are the read
of an append and its rename. Handles of earlier uses stay valid: an
append through one may cross another use of the same file (`lost`).
### RuntimeRun

One streamed run with an INPUT node, one SKILL or WORKSPACE node whose text streams,
and the OUTPUT node. `pc` follows the run from the first event to the end of the
renderer; `queue` is `AsyncRunQueue` with its byte limit, its waiting `next()` and
what its consumer got. A model call is `"asking"` (it may ask for tools: the
coordinator holds its text back until the reply), `"forced"` (no tools: text goes
out at once) or `"sub"` (a tool that is itself a Skill). Attempts, iterations and
tokens are bounded by constants. A consumer pulls, cancels or leaves at any step;
a push into a full queue aborts the run with `"overflow"`; the publisher's callback,
`renderer.complete` and the publication of the error may each fail.
`PluginLog` is the event of a plugin's log (`PluginManager.ts:61`). It comes at any
moment from the flow's first hook until `manager.dispose` in `finally`, so also while the
renderer shows the result or the error, after the event that tells it. `queue.got`
therefore keeps the last event that is not a log. When the log is what fills the queue,
the run is aborted as for any event, but the rejection is that of the worker's message
handler, for which nobody waits: unless the host handles it the process ends
(`pc = "dead"`).

### HttpModelCall

The body is a sequence of bytes of twelve kinds (see the module's head), so that a chunk
can end inside a character, between CR and LF or inside a frame. `Chunk` hands any
next piece to the decoder: `SseFrameDecoder` with its pending bytes, its lines, its
event limit and its stop at the done marker, then `ToolCallDeltaAccumulator` and the
reply. `ReplyIsBody` compares the reply with `Meaning(body)`, which reads the body
as a whole, in named steps: its characters (`Text`), their lines (`Lines`), the events
of the lines (`EventsOf`) up to the done marker (`UntilDone`), and what they say. `Cancel` and `Timeout` come at any await; `Cause` is their precedence.
A JSON body is collected by `readLimited`. The request's phases before the
response (validation, transformer, fetch, redirect, status) are steps that may
fail, and an answer may have no body (`NoBody`). The arguments of a tool call may not
parse: of its kinds of content only the quotation mark matters to that (`Parses`: none
or two of them), and a reply with arguments that do not parse is invalid (`Usable`).
`DeclaresTooMuch` is the response whose `content-length` is above the limit, of
which no byte is read.

### PluginSandbox

One `NodePluginSandbox` as the `PluginManager` uses it. `worker`, `loading` and
`registry` are the fields of the class; `start[w]` is the promise that `loading` held
for worker w, which its callers still wait for after the field has moved on;
`st[i]` is where a call stands (trust, load, posted). A worker bears the name of the
call that started it. `thread`, `job` and `ask` are the other side: the thread
(`plugin-worker.ts`), the message in it, the permission it asked for. Host events
wait until no continuation is pending (`Drained`), as in the event loop: after
`load` settles, all its callers post before the next message or timer. `Settled` is
the guard of `finish`, `DisposeOf` the body of `dispose`, and each handler of the
worker (`message`, `error`, `exit`, the timer) is one action that includes the catch
of `load`. The order of the code is kept: `exit` first fails the registry, then lets
go of the worker, then rejects the start. The manager replaces a sandbox it has
disposed of by a new one for the same plugin; here it is the same sandbox again.

`PluginCalls` is what the callers may rely on: a call is asked, set to work and answered,
once; a caller that gives up before its turn never sets the plugin to work, one that gives
up later is answered in that step; and what ends a worker ends every call at work
(`failAll` has one registry for all workers, so the end of a replaced worker ends the
calls of its successor too). `Called` maps where `run` stands to these stages.

### TerminalForm

`TerminalRenderer` with its one `TerminalSession`. `session` holds the alternate
screen, the raw mode, the bound key handler and the abort listener; `phase` is the
renderer's; `prompt` and `leaving` are the promises of `requestInput` and
`waitForExit`. `editor` is `TerminalFormState` with its text editor, where a text
is its length and the keys that move, insert and delete change length and cursor.
`Placed` and `First` are the layout of rows and columns, `Painted` the lines that the
viewport shows, with its two marks that take lines. Resizes come at any moment.
A form opens with any values (`Opening`, texts of the lengths in `Prefilled`): nothing
cuts them to the limit. What is inserted is cut to the room that is left (`Inserted`),
which is negative in a text that is too long, and `slice` then takes characters off the
end of what is inserted. A newline cuts the whole text and moves the cursor all the
same: `overrun` counts the characters that newlines have pushed out.

### LineForm

`LineRenderer`: `queued` are lines that arrived while nobody asked, `asked` is a
pending `ask()`, `field` the field to answer, `known` the fields with a value. A line
is an answer, blank, unfit or too large, and each kind of field treats these its own
way (`Accepts`). Events of the run wait in `buffered` while a field is asked for. The
end of the input, the abort of a request's signal and `dispose` come at any moment.

### TerminalShell

The one input and who has set its raw mode: `hold[h]` is what screen h found when it
entered and puts back when it leaves. `place` is what the program awaits, from the
launcher over consent, preflight, service and install to the conversation, its
settings and a turn; the renderer and the file selections of plugins enter and leave
beside it. `asks[h]` is a screen that awaits a key, `"listening"` to its signal or
`"deaf"` (a listener added to a signal that is aborted already is never called).
`lost` records selections whose call or run is over. `daemon` and `consent` are what
the background app's entry depends on. `TerminalForm` is the renderer inside;
here it is one holder of the raw mode.

### CommandLine

`Parsed` is the argument loop, `Valid` the checks after it. `cliStage` is what the
program awaits; each step may throw a failure of its kind, whose exit code `Classified`
gives; `CatchError` and `Conclude` choose between the JSON document, stderr and the
screen, and `Finally` disposes. A signal comes at any stage. `tty` and the flags decide which
renderer there is, and `managed` whether the run ends it. A program whose promises
can no longer settle ends with node's code 13.

## 3. Runs

| Run | Configuration | Properties | Shows |
|---|---|---|---|
| `queue` | `GatewayExecutorQueue` | `QueueOwned`, `SoleFlow`, `StopAwaitsLive`, `StopSettles` | three runs of two triggers against two callers that disable the app: no queued run has two owners, stops wait for live runs, and what they waited for is settled on disk |
| `update` | `GatewayExecutorUpdate` | `RecordsAgree`, `LifecycleSpec` | every request, two packages, one failing write, crashes and restarts: records agree with runs and implement `RunLifecycle` |
| `stops` | `GatewayExecutorStops` | `QueuedSettles`, `StopReturns` | liveness: queued runs settle, disable and dispose return |
| `delivery` | `GatewayDelivery` | `InboxFirst`, `AcceptedOnce`, `DeliveredMeansAll`, `AllMeansDelivered`, `ReadSticks`, `DeliveriesSettle` | two contacts for two adapters on an inbox of one item, retries and one abandoned handler |
| `gateway` | `Gateway` | `InOrder`, `DoneMeansAll`, `CompletionAfterRecord` | a run of three frames, a client that subscribes twice, two failing reads, writes or restarts, cleanup at any time |
| | | `OneOwner`, `DoorSafe` | two daemons over a former one's files, crashes at every step, 90 seconds that pass once, one failing operation, one client |
| | | `ScheduleSafe`, `StartsMeant` | eight cron expressions with a heartbeat over a clock that repeats an hour, ticks that come late, disables, a crash |
| | | `NobodyWaits` | liveness of the three: watches end, calls settle, what is due is started or passed over |
| `files` | `RuntimeLocal` | `OneWriter`, `HistoryKept` | two calls of two processes on one session, with crashes, failing writes and stale locks |
| | | `IndexKept` | two operations on the knowledge of a scope, cut short anywhere |
| | | `ConfigKept`, `TrustIsDecision` | two edits of profiles, publishers and grants, one of which may break off |
| | | `HostFilesKept` | three uses of two files by plugins, one refused operation |
| | | `FormSafe`, `FocusLabelled` | a form of three fields on two terminal sizes: every key, resize, abort and end |
| `runs` | `RuntimeRuns` | `TextIsOutput`, `EndTold` | a run in each mode and of each kind of node, with slow, cancelling and leaving consumers and logs of plugins at any time |
| | | `ReplyMeant` | 95 bodies in all cuts into chunks, aborts, time limits, redirects, no body |
| | | `RegistryServed` | two plugin calls, starts that fail or hang, crashes, aborts, timeouts, dispose |
| | | `LinesSafe` | a form of three fields, six lines, events, end of input, abort and dispose |
| | | `ShellSafe`, `EnteredByConsent` | every kind of package, daemon state and answer, two nested selections |
| | | `AnswerSafe` | every two words as a command line, and a package with two words after it |
| | | `WaitsEnd` | liveness of all of them |
| `one_flow` | `GatewayExecutorOneFlow` | `OneActiveFlow` (violated) | finding 1 |
| `false_loss` | `GatewayRunStreamLoss` | `NoFalseLoss` (violated) | finding 2 |
| `plugin_left` | `PluginSandboxLeft` | `NothingLeft` (violated) | finding 3 |
| `text_consistent` | `RuntimeRunText` | `TextConsistent` (violated) | finding 4 |
| `terminal_given_back` | `TerminalGivenBack` | `TerminalGivenBack` (violated) | finding 5 |

Many properties are conjunctions of named parts (`ConfigKept` has five), each with its
own comment in the module; the type invariant is one of the parts. Two properties of
a run are deliberately wide: `NobodyWaits` and `WaitsEnd` put the liveness
properties of the modules (`WatchEnds`, `CallSettles`, `DueIsHandled`; `RunsEnd`,
`CallEnds`, `FormEnds`, `CallsSettle`, `AbortLeaves`, `InterruptEnds`) into one
leads-to formula per run, which says the same of each part because `part` never
changes.

What the properties leave out on purpose:

- `SoleFlow`, `StopAwaitsLive`, `QueuedSettles`, `StopReturns` are claimed while no
  launch overlapped another; `one_flow` shows that launches may.
- `StopAwaitsLive` is claimed with no failing write: after one, a stop may wait for a
  completion that was given. `StopSettles` excepts the step that is itself the
  failing write: `failLaunch` swallows the error and completes the run all the same.
- `QueuedSettles` and `StopReturns` exclude behaviours in which a launch is lost:
  `launchNext` reads the queued record, and when it cannot (its write failed or is
  not done yet) it throws past the slot it claimed, which then stays claimed.
- A contact abandoned between its two files leaves an item that is shown as queued
  and has no delivery; `InboxFirst` states the order, which is what the two writes
  can guarantee.
- `CompletionAfterRecord` excepts a run whose final record the disk refused:
  `failLaunch` swallows that and completes the run, so its waiters find the record open.
- `NobodyWaits` excludes subscriptions to such a run (its record stays "running" and the
  watcher polls it every 50 ms as long as the daemon lives), subscriptions to a queued
  run as long as it is queued (nothing makes it go on when the run before it failed to
  launch), subscriptions whose `waitForRun` comes between the final
  record and `complete` (the promise it creates then is never resolved), a call whose
  connection ends without an answer, and schedules after a tick that threw.
- `EndTold` speaks of the last event that is not a plugin's log, in runs whose process
  goes on; logs may follow it.
- `InOrder` says "without a gap" unless `cleanup` removed the log of the running
  run, which it does when the run was recorded after its list of runs (`torn`).
- `OneOwner` is claimed with no excuse but a failed start, the reachability part of
  `DoorSafe` with none: the lock is advisory, and its judgement trusts one read.
- `OneWriter` is claimed until a lock was taken from a living holder, `HistoryKept`
  for calls that do not overlap, `IndexKept` and `ConfigKept` in most parts for
  operations that do not cross, `AppendKeeps` for files without crossing writes. In
  each case the code has no lock where the excuse applies, and no document promises
  more; the excuses are history variables, so they cost no behaviour. What the excuse
  names is the race itself: these properties show that nothing else breaks the data.
- `TextIsOutput` speaks of runs that end without an error; `text_consistent` is the
  stronger claim of the documents.
- The part `NestedGivenBack` of `ShellSafe` excepts selections whose call or run is
  over; `terminal_given_back` shows what those do.
- `AnswerSafe` leaves failures of the screen to the screen: see section 8.

## 4. Bounds

- Executor: `Runs` is the number of run ids of one behaviour. Two runs suffice for
  launch against stop, three for overlap (the one that ends, the queued one it
  launches, the one a tick starts in between). Two triggers make coalescing differ
  from queueing. Two callers race two cancellations of one queue. `Calls` limits the
  requests of an instance; the `update` run has all of them. `MaxFaults` bounds
  failing writes: one failure at any write. Crashes are not bounded.
- Delivery: an inbox limit of 1 with two contacts makes pruning happen while the
  pruned item's delivery is queued; two adapters make "all of them" differ from "one
  of them"; one retry delay passes through both branches of the schedule; one user
  retry; one abandoned handler at any await. No keys: deduplication only
  answers a contact without a write. The theorems of section 6 hold for any number
  of each, keys included.
- Streams: three frames make a batch that is cut in the middle, continued and
  finished; two subscriptions; two faults, because the end of `execute` and the restart, or
  an append and the final record, may fail together. One client: clients do not share state
  that either changes. The theorems are for any number of each.
- Door: two daemons over the files of a former one are the smallest takeover race;
  one wait of 90 seconds makes a living holder silent; one faulty daemon. The
  theorems are for any number of processes, waits and faults.
- Schedule: hours of two minutes and days of three hours keep every field of cron
  alive within a horizon of five minutes and a window of seven; minutes 4 and 5
  repeat minutes 2 and 3. The eight sources contain each kind of part, a step, lists,
  Sunday as 0 and 7, an invalid range, both day fields, and an expression without an
  occurrence in the window. The theorems are for any fields, expressions and tables.
- Files: two calls of two handles with two attempts at the lock; turns and
  deletions (a rename takes the steps of a turn without a flow; the theorems cover all
  three); two imports of two
  paths with a limit of two sources; two edits over two profiles and two bundles, one
  of them signed; three uses, because an append that crosses another needs a third to
  have opened the file. One fault each. The files of plugins are alike (symmetry; the run
  checks safety only). The session, knowledge, configuration,
  trust and host-file theorems are for any number.
- Runs: two tokens of text, one tool iteration, two attempts; a queue of two bytes, one
  for each token or event. All bodies of at most three bytes over four
  symbols and ten longer ones that are split, follow the end, are not JSON, have arguments
  that are not, exceed the event or the response limit, or end in the middle. A form whose
  rows do not fit either terminal, with texts of two characters that open empty or with
  three, and two characters pushed out. Two queued lines are the least that a form can
  answer wrongly. Two plugin calls are the smallest number in which one call's timeout meets the
  other's worker. Two nested selections can leave in either order. The theorems
  are for any tokens, queue, form, width, number of lines, calls and arguments.

All runs together take less than ten minutes; the largest are `delivery` (about 960,000
states), `gateway` (about 730,000), `runs` (about 580,000) and `files` (about 410,000).

## 5. Fairness

- `GatewayExecutor`: weak fairness of every step of a run and of a request, and of
  the restart. The event loop runs each continuation whose promise is settled; file
  operations settle; a trigger's flow settles (the model has no flow that hangs:
  its time limit is the flow's own). Ticks, calls and crashes are not fair.
- `GatewayDelivery`: the tick comes every 30 seconds and adapters answer
  (`DeliverStep`), a contact under way goes on, and delays pass. Retries and
  contacts are not fair; faults are never forced.
- `GatewayRunStream`: a run that was launched goes on (`RunStep`, without obligation to
  emit frames); a queued one need not (`QueueStep`), because `failLaunch` never looks at
  the queue. Each of a subscription's two activities goes on, and clients read their
  sockets. Subscriptions and cuts are not fair.
- `GatewayDoor`: a call that was sent goes on (`CallStep`: the daemon answers, the
  socket is reset when its process dies, or the client's timer fires). Daemons are not
  fair: they may stall anywhere.
- `GatewaySchedule`: the tick. Time may stop at the horizon; it is not fair.
- `RuntimeRun`: the steps of the run whose promise is settled (`Goes`) and the
  consumer's `next()` (`Pull`). `HttpModelCall`: the timer, and the rejection of the
  await under way once a signal has been aborted; the server is not fair.
- `PluginSandbox`: continuations run, timers fire, messages are delivered,
  `terminate` ends a thread, and the trust provider answers.
  What the plugin does (loading, answering, asking, crashing) is not fair, and
  neither are aborts and disposes. A call and a worker take each step once, so in
  `runs` one condition for all of them says the same as one for each.
- `LineForm`: the next question is asked when a field has been answered. Lines are
  not fair. `TerminalShell`: the program's own continuations and the rejection of an
  awaited key by an abort; keys are not fair. `CommandLine`: its steps.

Each conjunct of `GatewayFairness` and `RunsFairness` has the guard of its part, so
that it says nothing of the parts that stand still.

Runs of the executor check deadlock: some step is always possible, because the
process may crash and restart. The other modules are bounded by
counters and really stop, so their configurations switch the deadlock check off.

## 6. Proofs

All theorems are for every value of the constants that the modules' assumptions
allow: null values are outside their sets, limits and bounds are natural numbers,
identifiers that are compared are numbers. Each rests on an inductive invariant of its
module, defined next to its proof.

`Recursion` has what several proofs need of the models' recursive functions. The
library's induction is an operator over operators, which the provers cannot use;
`Induction` says it of sets, from the well-foundedness of the numbers, and
`RecursionExists` gives the function that follows a step from a first value. So
`CHOOSE`n recursive functions have the values that their equations say, and facts
about lists of any length are proved by induction.

`GatewayExecutor_proofs`:

- `TypeCorrect`: `Spec => []TypeOK`, one lemma per group of actions.
- `OneFlowUnlessOverlapped`: `SoleFlow`. The invariant `SoleInv` adds who may hold
  `active` at each point of a run; only `LaunchNext` breaks it, and then it sets
  `overlapped`.
- `QueuedRunHasOneOwner`: `QueueOwned`. `QueueInv` relates `pc` to the map and to the
  callers' queues; the lemmas on `Append` and `Tail` of sequences without repetition
  carry the steps that move runs between them.
- `StopAwaitsLiveRun`: `StopAwaitsLive`. `WaitInv` says that a stop waits only for
  a run that has left `start` and has not passed the step that completes it: whoever
  takes a run out of those steps resumes its waiters in the same step.
- `RecordsAgreeWithRuns`: `RecordsAgree`. `RecordInv` needs `QueueInv`: a record is
  read by `cancelPending` or `launchNext`, never by both.
- `StopsFindItSettled`: `StopSettles`, an action property. From `RecordInv`, the record
  of a run that is completed is final on disk at that step, unless the step is the
  failing write.
- `ImplementsLifecycle`: `LifecycleSpec`. From `RecordInv`, every step is a step of
  `RunLifecycle` or leaves the records alone.

`GatewayDelivery_proofs`, from one inductive invariant `IInv`:

- `NewItemInv`: no delivery names the item being recorded, or a later one;
- `StatusInv`: the inbox never promises more than the deliveries, in the files, in
  the handler's copies, and with the new deliveries and the old inbox;
- `TodoInv`: a delivery that waits for its attempt is as the file has it;
- `TriesInv`, `SentInv`: the handler's copy is at most one attempt ahead of the
  file, so abandoning it costs one repetition, which `faults` counts.

It gives `TypeCorrect`, `InboxWrittenFirst` (`InboxFirst`), `DeliveredItemsAccepted`
(`DeliveredMeansAll`), `AcceptedOncePerFault` (`AcceptedOnce`) and
`TriesWithinSchedule` (`TriesBounded`). `MarksStay` (`ReadSticks`) needs `ReadInv`:
the handler's copy has every mark of the file, because marks need the lock.
`AcceptedItemsDelivered` (`AllMeansDelivered`) needs `ShownInv`: an item is shown as
delivered once all of its deliveries are, in the files and in the copies that the
handler will write, between which only the handler itself can be.

`GatewayDaemon_proofs`, the run stream, from `StreamInv`: `TypeOK`, `RunInv`, `LogInv`
and, for each client, `WatchInv` and `EndInv`. The frames on their way are one
sequence: what was consumed, then the socket (`Seen`), then the watcher's buffer up to
its cursor; `WatchInv` says it rises and, while the log is not torn, has no gap.
`LogInv` bounds the log by the frames written, `EndInv` says what the server must have
read before it ends a subscription as done. They give `TypeCorrect`, `FramesInOrder`
(`InOrder`), `DoneIsComplete` (`DoneMeansAll`) and `RecordBeforeCompletion`
(`CompletionAfterRecord`): `RunInv` says that the record is final from its last write to the end,
or `unwritten`.

The same module, the door, from `DoorInv`: from `DoorTypeOK`, `LockInv` (what the process at
each step has read of the lock is of an earlier maker or of the present one, at most
one process has created the file, and it is full once its maker owns it), `ServerInv`
(who serves, and whose token and path there are) and `CallInv`. A removal of the
lock that hits another file than the one judged sets an excuse; the proof shows that
nothing else makes two owners. They give `OneHolder` (`OneOwner`) and
`DoorIsSafe` (`DoorSafe`). The schedule: `PartMeant` says that one part of a cron
field adds what the reference reading names, by the cases of its form, and an induction
over the parts carries it to the field (`FieldsMeant`). `ScheduleInv` orders the times
of the tick, the starts and the next occurrences. They give `ScheduleIsSafe`
(`ScheduleSafe`) and `StartsAreMeant` (`StartsMeant`), for any fields and expressions,
any table of the wall clock, and any number of crashes.

`LocalFiles_proofs`:

- `TrustDecided` (`TrustIsDecision`) from `TrustInv`, which extends it to the copies
  that operations hold across the question to the user.
- `ConfigIsKept` (`ConfigKept`) from `ConfigInv`: while no two edits crossed, one
  is under way, and the document it will write is the present one, changed; the secrets
  are those of the listed profiles but for the profile whose edit is between its two
  stores. That a deletion takes one profile out of the list and leaves the others in
  order is proved by induction over the list.
- `IndexIsKept` (`IndexKept`) from `KnowledgeInv`: while no two operations crossed, the
  one under way is the last that began and holds the list and the index as they are,
  changed; while nothing was cut short, the index is of the ready sources and every
  source has its copy, but for those the operation is about. What stays of the index
  and of the vectors (`Kept`) is a recursive function, known by induction.
- `HostFilesAreKept` (`HostFilesKept`) from `HostInv`: the bytes of a use under way are
  the present file, or the file is `lost`.
- `TypeCorrect`, `LocksAccounted` (a save that returned left no lock file behind),
  `OneInside` (`OneWriter`) and `HistoryStays` (`HistoryKept`) of `SessionStore`, from
  `SessionTypeOK`, `ReferenceInv` (which record object each call and handle refers
  to), `HolderInv` (who is inside has created the lock) and `LockAccounted`.

`Runtime_proofs`, a run: `RunInv` is `ControlOK` (the types), `QueueOK` (the count of
waiting bytes is the sum of what waits, by induction over the queue, and it fits),
`PathInv` (which ends are still possible at each step), `CallInv`, and what has become of
the text. `TextInv`: what the consumer got and what waits, joined, is what was let
out. `LastInv`: the last event waiting or taken that is no plugin's log is the run's end;
a log that is pushed leaves that so (`Tells`). `FirstInv`: in a
first attempt of a Skill what was let out is what the call under way has said, so
a mismatch needs a second attempt or an agent (`MismatchExplained`). They give
`TextIsOutputAlways` (`TextIsOutput`) and `EndIsTold` (`EndTold`).

The plugin sandbox, from one inductive invariant `IInv`. Its part `WorkersInv`
says that `loading` and `worker` are set and reset together, that an open start
belongs to the worker or to one being terminated, that a call with no worker yet
has touched nothing, and that a call which goes on after `load` has either the worker
it waited for or one that is still ending. From it: `TypeCorrect`, `NobodyForgotten`
(`RegistryServed`), and three statements that no run repeats: `NoThreadLost`
(`ThreadsKnown`, which excepts the threads of finding 3), `RegistryIsWaiting`
(`RegistryWaits`), `ReadyBeforePost` (`PostedToReady`, which excepts calls whose
worker was disposed of just before its ready message was delivered).
`CallsAreAnswered` is the refinement of `PluginCalls`, step by step: from
`RegistryWaits`, what ends every registered invocation ends exactly the calls that
work, so that every `failAll`, of whichever worker, is one `EndAll`. No run repeats it
(`CallsAnswered` as a `PROPERTY` under `SandboxSpec` holds for two calls).

`HttpModelCall_proofs`: `ReplyIsMeant` (`ReplyMeant`), for any bodies over the kinds of
bytes, any division into chunks, any limits, and a cancellation or a deadline at any
step. The invariant is `HttpInv`: `HttpTypes`, `Unread` (nothing was taken while the
response is awaited) and `Reading`, the relation of what the decoder holds to the part
of the body fed so far. It cannot be said of whole frames, because a chunk ends
anywhere; `DecoderAt` therefore goes through three positions. The bytes fed end in a
prefix of `Text`, the characters read as a whole, and at most one unfinished character
(`CharAt`); that prefix ends in a prefix of `Lines` and the line being collected
(`LineAt`); those lines end in a prefix of `EventsOf` and the data of the frame being
collected (`EventAt`). One lemma advances the positions by a byte (`ByteFed`), one by a
chunk (`ChunkFed`, by induction over its bytes), and what the decoder yields for a chunk
is the next segment of the events up to the done marker (`YieldMeant`). The tokens and
tool calls that the accumulator holds are those of the events yielded, and an error is
raised only where the reference reading names the same one. The recursive functions of the
decoder and of the reading have the values of their equations by `RecursionExists`.

`Terminal_proofs`:

- `ShellIsSafe` (`ShellSafe`) from `ScreenInv`: `ScreenAt` says exactly which screens
  are in at each place of the program, `FoundInv` what each of them found, while no
  selection has outlived its call. `EntersByConsent` (`EnteredByConsent`) from
  `ConsentInv`, what has been asked and told before each place.
- `FormIsSafe` (`FormSafe`) and `FocusIsLabelled` (`FocusLabelled`) from `FormInv`: the
  cursor is in the text or as far behind it as newlines pushed characters out
  (`EditorInv`), the keys have a reader while a prompt is open
  (`ReaderInv`), the painted window holds the label of the field in focus
  (`WindowInv`). The layout is a recursive function; by induction its cells lie within the
  width and in the order of the fields, for any widths and number of fields.
- `LinesAreSafe` (`LinesSafe`). `OrderInv` says that the lines used and the lines
  queued together rise, and that a gap in them was dropped.
- `AnswersAreSafe` (`AnswerSafe`) from `CliInv`: what the words of the command line
  allow at each stage (`ChosenInv`, by induction over the argument loop), how the answer
  will be given (`EmitInv`), and that nothing is answered before the last step
  (`EndingInv`).

Only model-checked: liveness (`QueuedSettles`, `StopReturns`, `DeliveriesSettle`,
`NobodyWaits`, `WaitsEnd`), which is beyond the prover. The other properties of the
passing runs are proved.

## 7. Disagreements between the code and its documents

1. `one_flow`: `USAGE.md:322` says that an app has one active background flow.
   `execute` releases the app, awaits `stream.cleanup` and then calls `launchNext`,
   which takes the slot without looking; a tick or `runNow` in between has started
   another run. Two flows execute, and stops see only the second.
2. `false_loss`: a watcher reads the frames and then the record. When the run writes
   its last frames and its record in between, the watcher reports the stream as
   expired (or incomplete) although the log is complete; one more pass would have
   delivered it.
3. `plugin_left`: the catch in `load` forgets its worker (`plugin-sandbox.ts:74`)
   before `dispose` looks for it, so a plugin that fails to start, or takes more than
   five seconds, leaves a live thread that nothing terminates, and the process does
   not end by itself. `USAGE.md:440` says that `runAiFile()` releases package
   resources.
4. `text_consistent`: `USAGE.md:498` says that text mode emits only content consistent
   with the final OUTPUT. A Skill that a Workspace calls as a tool is invoked
   with the Workspace's node id and without tools, so the coordinator takes its tokens
   for output and lets them out at once (`streaming.ts:174`). The run then fails with
   a mismatch, after the consumer has seen the text.
5. `terminal_given_back`: `USAGE.md:95` says that the terminal state is restored. A
   plugin call that waits for a file selection is rejected when its time is over
   (`plugin-sandbox.ts:125`) without aborting the selection's screen
   (`terminal-launcher.ts:56`). When the user answers it after the renderer has left,
   the screen puts back the raw mode it had found, and the terminal stays raw.

## 8. Observations

What the models brought up and no document contradicts, or what lies outside them.

Run execution and installer:

- `start` claims the app before its first await and records the run id after it; a
  stop in between finds no id and returns. An update that comes then replaces the
  package while the old run goes on to execute (compare `USAGE.md:326`).
- `runNow` may wait for ever when the run ends between its read of the record and
  its request for the completion. `failLaunch` never calls `launchNext`, so runs
  queued behind a failed launch wait for the next start.
- When the last write of a run fails and an uninstall takes its records away
  before `failLaunch` reads them, `failLaunch` falls back on the record in memory,
  which is final already, and returns without a completion: a disable that waited for
  the run waits for ever. (The model has the uninstall and the failing write; the
  liveness properties exclude failures.)
- When the last write of a run fails and that of `failLaunch` fails too, the run is
  completed with its record still "running": `waitForRun` returns, but a watcher polls
  every 50 ms until the daemon restarts. The restart cancels a record that counts no
  frame (`lastSequence` 0), so a client that subscribes then may be told "done" with the
  frames that it was sent, and the log may hold more.
- `dispose` stops the heartbeat and then waits for live runs; if that takes more than
  90 seconds another daemon may take the lock over.

Notifications: when one adapter failed for good and another accepted later, the item
stays queued, and the TUI offers the retry only for failed items (compare
`DEVELOPER.md:727`). The signal handed to an adapter is never aborted: one that does
not answer holds the app's notifications.

Lock and socket: with no `liveness.json` yet, `Math.max` is NaN and a fresh lock
counts as stale (`GatewayLock.ts:22`). A crash between the creation and the write of
the lock leaves an empty file, on which every later start fails with
`GATEWAY_STATE_CORRUPT`. `close` of a server removes the socket path whoever made
it. A start whose first tick fails releases the lock while its server stays open.
The client has no `close` handler: a connection that ends without an answer and
without an error settles nothing.

Schedule: an expression whose next occurrence is more than two years away makes the
tick throw; the range 7-7 means every day; a restart puts the heartbeat off; when the
oldest missed occurrence is out of its grace, a later one within it is passed over
too (compare `USAGE.md:324`, `USAGE.md:325`).

Files: the session lock covers the write and not the read before it, so turns of two
processes lose one another. A failed turn leaves its session open. Knowledge has no
lock at all; a reindex that throws has removed the sources it did not reach. The
provider editor says "saved" after a cancelled save.

Plugins: `run` counts invocations before its await of `load` and registers after it,
so every call that waits for the same start passes `maxConcurrency` (compare
`README.md:60`). A plugin's log that fills the event queue rejects in the worker's message
handler, where nobody catches it: without a handler of its own the process ends, the
daemon with all its runs included (compare `STREAM_BACKPRESSURE_EXCEEDED` in
`USAGE.md:500`).

Terminal: the viewport's marks may hide the value line of the field in focus
(`tests/terminal-renderer.test.mjs:125` tests its label). A text longer than its limit is
not cut when it is edited, and what is pasted into it loses as many characters at its end
as the text has too many. Lines beyond 256 that nobody
asked for are dropped silently. The path browser may paint the rows of the directory
it just left. `leave` of a screen does not pause the input. A signal that comes while
`waitForExit` waits is swallowed. Refusing the consent while the daemon is down throws
and leaves the app enabled.

Program: a failure before the terminal renderer's first event is told by nobody
(`cli.ts:262`; compare `USAGE.md:90` and `USAGE.md:599`), nor is one of `gateway
run`. `--help` gives a document with `ok: false` and exit code 0. `--input --stream`
takes `--stream` for the value and still counts as a request for a stream.

## 9. Not modelled

Within modelled components: trigger sessions (`sessions.json`), the package file
`app.ai` and its rename, removal of credentials and directories by uninstall, the
limit of 1,000 run records, the text projection of event streams, malformed log
lines, frame sizes of the socket protocol, session listing and migration, search in the
knowledge, the choice of a skill's tools, schemas and signatures of plugins (an answer
that is yes or no), the JSON of the four providers, painting and lists of the
screens, the inbox and run views of the TUI. None of these decides a step of the
modelled control.

Not modelled at all:

- the scheduler of flow nodes: it is not in the repository as source, only inside a
  bundle (`dist`); `RuntimeRun` has the runtime's side of a flow;
- the login service: it writes launchd, systemd and Windows definitions and calls
  the platform's tools;
- the SDK builder and hooks: they transform definitions into packages, without
  concurrency or state;
- generated bundles and third-party libraries.

## 10. What could come next

1. An abstract specification of a streamed run that `RuntimeRun` implements.
2. `sessions.json` and the package file in `GatewayExecutor`.

## 11. How to run

`tlc -config GatewayExecutorQueue.cfg MCGatewayExecutor` and likewise for the other
configurations (the module of each is in `PROJECT.json`); `tlapm
X_proofs.tla` checks the proofs of module X.
