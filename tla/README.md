# PicoOraClaw: a TLA+ verification project

PicoOraClaw is a personal agent in Go: chat channels publish messages on a bus,
an agent loop answers them with an LLM and tools, jobs and heartbeats wake the
agent up, and sessions, jobs and notes are kept in files or in Oracle. This
directory holds TLA+ models of the parts whose correctness depends on the order
in which goroutines, processes and crashes interleave, the TLC configurations
that check them, and TLAPS proofs of what matters most.

Paths below are relative to `src/`. `loop.go` is `pkg/agent/loop.go`.

## 1. Inventory

| Component | State | Operations | Hard because |
|---|---|---|---|
| Message bus, `pkg/bus` | two channels of 100, `closed`, handler map, one `RWMutex` | `PublishInbound/Outbound`, `ConsumeInbound`, `SubscribeOutbound`, `RegisterHandler`, `GetHandler`, `Close` | publishers block under the read lock; `Close` needs the write lock |
| Cron service, `pkg/cron`, `pkg/tools/cron.go`, `cron` subcommands in `cmd/picooraclaw/main.go` | job list in memory, `jobs.json`, scheduler goroutine | `Start`, `Stop`, `checkJobs`, `executeJobByID`, `AddJob`, `UpdateJob`, `RemoveJob`, `EnableJob` | jobs run outside the lock; crashes and torn writes; several processes on one file |
| Sessions, `pkg/session`, `loop.go`, `pkg/agent/context.go` | messages, summary, session file, `summarizing` marks | `AddFullMessage`, `SetSummary`, `TruncateHistory`, `Save`, `summarizeSession`, `BuildMessages` | a summarizer runs beside later turns; saves in the middle of a turn; crashes |
| Agent loop, `loop.go`, `pkg/tools/message.go` | message in hand, `sentInRound` | `Run`, `processMessage`, `processSystemMessage`, `runAgentLoop`, the message tool | cron and heartbeat turns share the tools with `Run` |
| LLM iteration, `loop.go` | request, retries, tool definitions, counts of repeated calls | `runLLMIteration` | retries with compression, parallel tools, refused repetitions |
| Subagents, `pkg/tools/subagent.go`, `spawn.go`, `toolloop.go` | task map, `sm.mu` | `Spawn`, `runTask`, callback | publishes on the bus with its lock held |
| Channel manager, `pkg/channels/manager.go`, `base.go` | channels, dispatcher goroutine, `m.mu` | `initChannels`, `StartAll`, `StopAll`, `dispatchOutbound` | lock held while channels start and stop; the dispatcher runs from before the first start to after the last stop |
| Web channel, `pkg/channels/web` | ring of 1000 events per session, subscribers | `Emit`, `Subscribe`, `Unsubscribe`, HTTP handlers | two locks per event; slow subscribers; resumption; three kinds of emitters |
| Chat adapters, `pkg/channels/*.go` | placeholders, reactions, reply tokens, webhooks, ids seen, the connection | `Start`, `Stop`, event handlers, `Send` | handlers and `Send` meet in maps without order; events delivered again; reconnects; devices accepted during `Stop` |
| State, heartbeat, devices, `pkg/state`, `pkg/heartbeat`, `pkg/devices` | last channel, its file, a copy per manager, the timer | `SetLastChannel`, `saveAtomic`, `executeHeartbeat`, `sendNotification` | each manager loads the file once; crashes; heartbeat turns record too |
| Oracle stores, `pkg/oracle`, `pkg/agent/memory.go` | notes, memories, session rows; files without Oracle | `AppendToday`, `Remember`, `Recall`, `Save`, `loadAll` | several statements per operation and no lock; statements fail |
| Credentials, `pkg/auth` | credential file, tokens of the server | `SetCredential`, `RefreshAccessToken`, logins, logouts | read-modify-write of a whole file by several processes; refresh tokens rotate |
| Tools, `pkg/tools` | the workspace, processes | file tools, `exec`, `RunToolLoop` | calls of a round run in parallel; a killed command's children |
| Providers, `pkg/providers` | none | `Chat` | translation of HTTP APIs: answers and errors only |
| Routing, skills, config, migration | files | parsing, scoring, copying | sequential |
| Voice, logger | little | transcription, lines | I/O |
| Gateway, `cmd/picooraclaw/main.go`, `pkg/health` | the processes above | start and stop | order of shutdown |

How they interact. A channel calls `PublishInbound`; `AgentLoop.Run` is the only
consumer of that queue and handles one message at a time; what it publishes is
taken from the outbound queue by the channel manager's dispatcher. Cron jobs and
heartbeats call the agent on goroutines of their own and so run turns beside
`Run`, with the same tool registry. Subagents run on goroutines too and come back
as "system" messages on the inbound queue. A finished turn may start a summarizer
goroutine that reads, cuts and saves the session while the next turn appends.

What makes the modelled parts correct:

- Bus: no send on a closed channel, no loss, duplication or reordering, no
  publisher or closer that waits for ever while consumers consume.
- Cron: a one-time job fires at most once; a recurring job is never stranded and
  runs again; a removed job stays out and is not looked up again; the file holds what
  memory holds.
- Sessions: one summarizer at a time, which always ends; the history is one
  piece; every request pairs tool calls and results.
- Agent loop: a message is answered, by the response or by the message tool; a
  subagent's result is told once; nobody waits for ever but for what may never
  answer.
- LLM iteration: requests well formed after any retry; a repeated call is executed
  twice at most; the turn ends if the LLM and the tools answer.
- Channel manager and gateway: messages go to channels that were started; shutdown
  ends whatever is queued.
- Web channel: between replay and live events nothing falls through; what a client
  misses was dropped because its channel was full.
- Adapters: a placeholder, reaction or token serves one message and is not left
  behind; an event delivered again is handled again only after the adapter had to
  forget it; a lost connection comes back where the code redials; a stop hangs up.
- Last channel: the file survives crashes and failed saves; the place is that of
  the last user turn, or of a heartbeat or a cron job since.
- Stores: what was written alone stays, unless later calls overlap, fail or are
  interrupted; a memory is stored once.
- Credentials: a login lasts until the logout, through every refresh.
- Tools: a round's calls have the effect of running one after the other where the
  loop promises it; every loop ends.

The hazards, each at its line, are listed in `PROJECT.json`.

## 2. Modules

| Module | Models | Composition |
|---|---|---|
| `BusPromise` | the abstract promise of the bus: two queues and a shutdown | instantiated by `MessageBus` |
| `MessageBus` | `pkg/bus/bus.go` | refines `BusPromise` |
| `CronService` | the cron service, the tool, the subcommands, `jobs.json` | gateway and one other process |
| `AgentSession` | one session: turn, summarizer, file, crash | turn and summarizers over one history |
| `AgentLoop` | `Run`, side turns, message tool, subagents | over an inbound queue with the bus's capacity |
| `AgentTurn` | `runLLMIteration` | the inside of one turn |
| `WebChannel` | `pkg/channels/web` and the steps of a turn that emit | server, broker, clients |
| `ChannelManager` | `manager.go`, `gatewayCmd`, `pkg/health` | main, dispatcher, publishers |
| `LastChannel` | `pkg/state`, `pkg/heartbeat`, `pkg/devices` | three managers over one file |
| `Stores` | notes, memories, session rows | concurrent turns over a database or files |
| `ChatAdapters` | events, `Send` and what is kept between them, for ten platforms | handlers and the dispatcher's sends |
| `ChatConnections` | `Start`, `Stop` and the goroutines of the connections | OneBot, WhatsApp, MaixCam; the others by their start and stop |
| `Credentials` | `pkg/auth`, the auth commands, the token sources | callers over one file and one server |
| `WorkspaceTools` | file tools, `exec`, `RunToolLoop`, the subagent tool | parallel turns and sequential subagents over one file |
| `MCServices` | the last eight | one at a time: they share nothing but the bus |
| `X_proofs` | theorems about `X`, a module of the core | extends `X` |
| `Gateway_proofs` | theorems about `ChannelManager`, `LastChannel`, `WebChannel` | extends them |
| `Stores_proofs` | theorems about `Stores` and `Credentials` | extends them |
| `Services_proofs` | theorems about the other services and their composition | extends `MCServices` and the two above |
| `MCX` | the instance TLC checks | extends `X` |

**MessageBus.** The variables are the fields of `MessageBus` (`queue`, `closed`,
`handlers`) and Go's `RWMutex` as it behaves: `readers`, `writer`, and an announced
writer that keeps new readers out. A publish is `Call`, `RLock`, `PublishCheck`
(the test of `closed`), `Send` (which waits for room with the read lock held) and
the unlock. `Close` closes the channels; a receive from a closed, drained channel
returns the zero message, as the code's consumers see it (`ConsumeZero`).

**CronService.** `store` is `cs.store.Jobs`, `disk` the file. A save is three
steps, `Truncate`, `Saved` or `SaveFails`, with `cs.mu` held (`writing`), because
`os.WriteFile` truncates in place. `CheckJobs` collects the due jobs, clears their
next run and saves; `LookUp` looks each one up again under the lock, `CallHandler`
calls `onJob` without it, so that a removal may come between the two; the handler
returns (`HandlerReturns`) or not; `Finish` takes the lock once more. The tool's `addJob` calls `AddJob` and then, for commands, `UpdateJob`
with the copy it was given (`copies`). A subcommand is a process that loads
(`CliLoad`), changes and saves. Time is what the scheduler asks of it: `set`, then
`due`; the fixed time of a one-time job passes once.

**AgentSession.** A message is its number in the conversation, its role and what
pairs calls and results; a summary is the set of the messages it accounts for. The
turn is the sequence of the calls of `runAgentLoop`: the request is built before
the user's message is added, results are added one by one, `Save` takes a snapshot
and renames the file later. The summarizer reads history and summary, waits for
the LLM, sets the summary, truncates what is there by then, and saves. `Oversized`
are the messages too long for the summarizer, which the batch leaves out (`LeftOut`,
`Spoken`); `NewSummaries` are the summaries the LLM's calls can give. `Crash` loses memory and every goroutine, and `loadSessions` reads the file.

**AgentLoop.** `pc` says where the turn of `Run` and of each side goroutine is.
`sentInRound` is the one flag of the shared message tool, which `BeginTurn` resets
and `MarkSent` sets after it has published. `smLock` is `sm.mu`: `FinishTask` takes
it and `Announce` releases it, after it found room in the inbound queue. The
message tool sends to the chat of the turn or to one its arguments name
(`SendMessage`), `Delegate` is the subagent tool, which runs in the turn and has a
message tool of its own, as the goroutines of `spawn` have (`SubagentWrites`);
`CallOther` is any other tool, and `ToolReturns` need not come. `result` says how a
subagent ended: only a text is told to the user (`Tell`). The histories `heard` and
`told` record what was published, and by whom.

**AgentTurn.** The request as a sequence of messages with role and round; one
action per outcome of the LLM call (`Again`, `Compress`, `GiveUp`, `Answer`,
`CallTools`), tools that start and end in any order, and `Collect`, which is
`wg.Wait` and the loop that appends the results in the order of the calls.

**WebChannel.** `ring` is the session's buffer in full (`Kept` is what of it the code
still has), an event its number there. `Buffer` and `FanOut` are the two locked
halves of `Emit`, with any number of steps between; `Subscribe` replays what fits
(`Fitting`), and `stream` is what the client received or has in its channel.
`TurnBegins`, `ToolEvent`, `TurnEnds` and `SendText` are the callers of `Emit`.

**ChannelManager.** `main` is the next statement of `gatewayCmd`, `dispatcher` the
place of `dispatchOutbound`, `managerLock` is `m.mu`. `StartAll` starts the
dispatcher and then the channels under the lock. The signal cancels the context
and `StopHealth`, `StopService`, `StopLoop`, `StopAll`, `Exit` follow. `SendLocks`
are the channels whose `Send` holds the lock that their `Stop` needs over a write
without deadline (`SendWrites`): WhatsApp and MaixCam.

**LastChannel.** `loaded` is each manager's copy; a save is `WriteTemp`, then
`Rename` or `SaveFails`. `Beat` is `executeHeartbeat` up to the turn it starts, which
records the place it was given (`Record`); `Plug` and `Notify` are the USB source
and the service's queue. `UserTurn` and `JobTurn` are the turns of users and of cron
jobs that name a place. `acked`, `pending`, `latest`, `override` and `jobPlace` are
histories.

**Stores.** `job` is what each turn is in the middle of: a statement per step, with
what it read (`seen`) kept until it writes. The file journal is truncated and then
written (`NoteCut`, `NoteWriteFile`). `owed`, `alone` and `savedAlone` are histories
of the calls that nothing overlapped and nothing failed in; what a day is owed is
forgotten where a later call may lose it (`Truncated`).

**ChatAdapters.** `PlatformEvents` has the fields the handlers ask for; one operator
per handler (`TelegramMessage`, `LineEvent`, ...) says what becomes of an event, and
`Arrive`, `Mark`, `Keep`, `HandleMessage` are its visible steps in the order the
handler takes them. One operator per `Send` says which calls it makes; they are
steps of `sending`. `kept` maps a chat to the message whose placeholder, reaction,
token or webhook is kept; `dedup` and `dedupRing` are OneBot's, `dedup` alone QQ's.
`Blank` is the id of an event that has none, which OneBot does not compare. `sees`
and `reached` are histories: the mark that was shown when a Send began, and the
marks a message has met.

**ChatConnections.** `link` is the connection, `listener` and `reconnecting` the
goroutines that read and redial it, `device` each MaixCam connection and `clients`
the table of them. For adapters whose SDK owns the connection only `Start`'s
outcomes and `Stop` are in the code, and in the model.

**Credentials.** `errand` is the place of each caller in load, change and save;
`authFile` may be torn, as `SaveStore` truncates in place. `valid` are the refresh
tokens the server takes: a refresh may rotate them. `crossed` records that a save
overwrote another's, was cut short, or that an answer of the server was lost.

**WorkspaceTools.** `file` is one file of the workspace as a sequence of blocks,
`round` the calls of each loop with their place: a tool that reads and then writes
is two steps or three. `MayStart` is the difference between the two loops.
`ExecTimesOut` kills the shell; whoever else holds its output keeps `Run` waiting.
`Delegated` is a call of subagent or spawn, which waits for the manager's lock
(`DelegateStarts`); a spawned subagent holds that lock while it announces itself
(`Announce`, `Announced`).

## 3. Runs

| Run | Question | Instance |
|---|---|---|
| `bus` | can a publisher send on a closed channel, does the bus lose, double or reorder, does anyone wait for ever | 3 goroutines, any operation each, capacity 1 |
| `cron` | are one-time jobs run once, recurring ones kept scheduled, do removed ones stay out, is the file current | 1 one-time and 1 recurring job, 1 crash or failed write, 1 subcommand |
| `cron_live` | does a recurring job run again, unless a handler hangs | the same jobs, no faults |
| `cron_two_processes` | is a job another process added kept (it is not) | 1 recurring job, 1 subcommand |
| `session` | is the history whole, are requests paired, is there one summarizer | 3 turns, 1 call each, keep 2, 1 oversized message, 1 crash |
| `forgotten` | is every message in the history or the summary (it is not) | 4 turns, no crash |
| `unpaired` | are requests paired after a crash (they are not) | 4 turns of up to 2 calls, 1 crash |
| `agent_loop` | is each message answered by the response or the tool, handled to its end unless something hangs, each result told once | 1 message, 1 command, 1 side turn, 1 subagent, 2 tool calls per turn, queue of 1 |
| `spawn_blocks` | does a call of `spawn` return (it need not) | 2 tool calls per turn |
| `unanswered` | is something sent for each message (it need not be) | no side turns |
| `services` | what each service keeps, below | one component per behaviour |
| `turn` | are requests well formed, repeated calls bounded, does the turn end unless a call hangs | 2 distinct calls, 3 rounds of up to 3 calls |

The runs that expect a violation each check one statement of the repository that
the code does not keep; `findings` in `PROJECT.json` quotes it:

- `cron_two_processes`: README.md:118 promises jobs "full ACID guarantees", but
  every process writes its whole store over `jobs.json`.
- `forgotten`: `summarizeSession` cuts the history as it is after the LLM answered,
  the summary is of the history before.
- `unpaired`: the summarizer's `Save` can catch a turn between a call and its
  results; after a crash every later request of the session is malformed.
- `spawn_blocks`: `runTask` publishes with `sm.mu` held, and `Run`, the only one
  who makes room, may be waiting for `sm.mu`.
- `unanswered`: a slash command resets no tracker, so its response is taken for a
  duplicate of what an earlier round sent.

`services` checks, each of its own component:

| Property | Shows |
|---|---|
| `StreamKept` | a client misses only what its full channel dropped; one emitter's events come in order, except those caught between buffering and fan-out |
| `DispatcherInStep`, `ShutdownEnds` | nothing is sent before all channels were started; at most one message after the signal; the gateway exits, unless a write of WhatsApp or MaixCam never returns |
| `FileSurvives`, `RecentUnlessOverridden` | a crash or failed save costs nothing acknowledged; only a heartbeat's stale place or a cron job's own can displace the latest user's |
| `StoresKept`, `StoredOnce` | entries and versions are lost, and memories doubled, only by calls that overlapped, failed or were cut short, which can cost a day's whole note |
| `MarksAnswered`, `DuplicateAfterEviction` | placeholders, reactions and tokens are used once, and none is left behind by a message to its chat; repeats of an event with an id are handled only after eviction |
| `LinksFollow` | OneBot hears again after each loss; a stopped MaixCam has hung up every device |
| `LoginLasts` | without crossing saves and lost answers a login survives every refresh |
| `ToolRounds` | a subagent's calls take effect in order, a single change of a turn too; no append that succeeded is lost; both loops end unless the model, a command's child or the inbound queue never answers |

Several of these name what they excuse: that is the boundary of what the code
keeps, and section 5 lists what lies beyond it.

Every property of a passing run has a mutant: a definition with a plausible bug
(named and commented next to the original) with which TLC finds it violated.

**Bounds and why they suffice.** `MaxCalls` of `MessageBus` bounds calls per
goroutine; with capacity 1 and three goroutines a channel is full with a second
publisher blocked on it while the third closes or registers. `MaxFaults` and
`MaxCli` bound crashes, failed writes and subcommands; one of each already falls
between any two steps of a save or of a job's run. `MaxTurns`, `MaxRounds`,
`MaxCalls` and `MaxCrashes` bound a conversation; the sizes the code fixes at 4 and
10 are 2 and 3, so that three short turns cross each of them, with a truncation
during a later turn; the second message is the oversized one. `MaxTools` and
`MaxSideTurns` bound the turns of `AgentLoop`: two calls let a turn send and then
wait for the lock of a subagent it spawned; a message, a command and the two
announcements of one subagent fill `Cap`, which is 1 instead of 100. `MaxIter` and `Past` give
requests long enough for both compressions, and nine calls in a turn are more than
four times what the limit of repetitions allows. Deadlock is not checked where the
bounds end the run (goroutines out of calls, turns used up) or where standing
still is itself the subject (`agent_loop`).

In `services`: a ring of 2 and a channel of 1 against 3 events, so that events leave
the ring and are dropped, with 3 emitters and a client that comes back; two
platforms, one of whose Sends holds the lock of its Stop, one queued message and one
more; two places and two turns, with a crash
or failed save between; two turns at once over notes of two days, three entries and
two texts alike; three message ids against a ring of 2, four deliveries, so that an
evicted one returns, with one that has no id, and one failing call of the platform; two MaixCam devices, one
before and one during `Stop`; two callers, one of which runs commands, two tokens
(a login and its rotation) and one fault; one turn and two subagents, of the tool or
spawned, with three calls in rounds of up to three, two rounds each and one failed
write; the file is there only after a call has written it. An older version's state
file is tried only with a heartbeat that has its prompt: the two do not meet. 1000 failed reads of a websocket are 3,
1024 and 10000 remembered ids are 2.

**Fairness.** Goroutines that can take a step take one (weak fairness per
goroutine); consumers receive while their context lasts; writes of files end; the
clock advances. Nothing makes a user write, a job be added or a turn begin, and
nothing makes an LLM call, a tool, a job's handler, a Send or a full inbound queue
return: a provider that runs a CLI waits for a process, `exec` for whoever holds the
output of its command (`shell.go:177`), and the other tools for one of those. The
liveness properties name what they excuse instead: `HandlerHangs`, `SumHangs`,
`TurnHangs` and `Wedged`, `LlmHangs` and `ToolHangs`, `SendHangs`, and `ModelHangs`,
`CommandHangs` and `AnnouncementHangs`. A behaviour is excused only if that one step
never comes; all other orders of steps must lead to the end. After the signal main
goes on when it can: what it stops beside the channels has a timeout of its own. A
dial of OneBot's that is tried again and again succeeds again and again (strong
fairness of `Redialled`): the property is about the program, not the bridge.
`CronService` asks for strong fairness of the scheduler's steps that need
`cs.mu`, which other holders can take again and again: Go's mutexes hand over to a
goroutine that has waited for a millisecond.

## 4. Proofs

The theorems about the core are of `SafeSpec`, without fairness, those about the
services of their specifications, for every value of the constants that satisfies
the named assumptions (disjoint kinds, capacities and bounds that are natural
numbers). Every invariant and every action property of a passing run is the
statement of one of them, but for `RoundsInOrder` (below).
Leaves are found by Z3 and Zenon; nothing is assumed but those assumptions.

- `MessageBus_proofs`: `TypeCorrect`; `SendSafe` (no send on a closed channel);
  `BusRefines` (the bus implements `BusPromise`). The invariant ties each
  goroutine's place to the lock: who is in a read section is in `readers`, who is
  in a write section is `writer`, and there are never both. `NoSendOnClosed` is
  inductive only with it, since `Close` must find no sender.
- `CronService_proofs`: `TypeCorrect`; `OneTimeRunsOnce`; `RecurringScheduled`.
  The invariant `CronInv` accounts for every place from which a job that ran could
  come back as due: the tick's list, the store, the stale copy of a caller, the
  file, and the store another process loaded (`Spent`, with `Stores` for what is
  never in any of them), and for the scheduler holding a list only while it works
  (`Looping`). `Scheduled` extends `NeverStranded` to the time before `Start` is
  done, where its first save may still be under way. `RemovedForGood`
  (`RemovedStaysOut`): a removed job is not in the store and no step of this
  process puts it back (`RemovedStays`), so that a later lookup of the tick fails.
  `DiskKeepsUp` (`DiskCurrent`): whoever writes writes what is in the store, and who
  does not has written it (`Written`).
- `AgentSession_proofs`: `TypeCorrect`; `SummarizerAlone`; `HistoryWhole`. A
  running summarizer has its mark (`Marked`), so `LoadOrStore` starts no second
  one. For the history, lemmas say that an append and a suffix of a consecutive
  history are consecutive, and that a suffix ends where the history ended.
  `RequestsPaired` (`PairedUntilCrash`): every history is whole but for the round in
  progress (`Paired`: `Whole`, `RoundOpen`). A truncation keeps a suffix, which may
  begin with results whose calls are gone, and the request drops exactly those; that
  a call in it has all its results is counted with cardinalities.
  `TruncationForgetsOversizedOnly` (`TruncationCovered`): between the two calls of
  `summarizeSession` the summary is the one it set (`OwnSummary`), since it is alone.
- `AgentLoop_proofs`: `TypeCorrect`; `AnsweredOnce` (`LoneTurnAnswered`);
  `ResultOnce` (`ResultToldOnce`). A message is in one place and there once
  (`Queued`, `Handled`), so what the histories say of it is of its own turn; and
  the tracker says exactly whether the turn's tool sent, wherever to, from its reset
  to the reply, as long as no side turn ran (`Tracked`).
- `AgentTurn_proofs`: `TypeCorrect`; `PromptFirst` (`SystemFirst`, which no run checks: the
  theorem says it of histories of any length);
  `ToolsEachRound` (`ToolsOfferedAgain`); `RepeatedTwice` (`AtMostTwice`). For the
  prompt, a compression keeps the first message and a proper suffix. For the
  repetitions, the calls executed and those still to begin together stay within
  the limit and within the count (`Accounted`): the last call of a round that is
  let go had counted all that were let go before it. `RoundsPaired` (`RoundsWhole`):
  everything before the open round is paired (`Pairing`), and `Collect` appends the
  results behind the calls they are of. `NewestMessageKept` (`NewestKept`).

- `Gateway_proofs`, the channel manager: `ManagerTypeCorrect`; `DispatchInStep`
  (`DispatcherInStep`). The lock is held exactly while main is in `StartAll` or
  `StopAll` (`Stages`), so no lookup falls among the starts; a dispatcher that waits
  for a message has taken none since the signal (`InStep`); what is handed out, in
  hand and queued never exceeds what was published (`Accounted`).
  The last channel: `PlaceTypeCorrect`; `StateFileSurvives` (`FileSurvives`);
  `RecentPlace` (`RecentUnlessOverridden`). The file is what was acknowledged, and while
  there is none that is what the old version's file says, so a migration can only
  repeat it (`FileInv`); a beat needs a started heartbeat, whose manager is loaded
  (`BeatInv`).
  The web channel: `WebTypes`; `StreamsKept` (`StreamKept`). An event its emitter
  still holds is that emitter's newest (`InHandNewest`), and a client that has it
  already got it by the replay (`HandedTwice`): the fan-out can only repeat what lies
  between. That the replay is a run of consecutive events needs the largest element
  of a set, which well-founded induction gives (`LargestElement`).
- `Stores_proofs`, notes, memories and rows: `StoresTyped`; `WrittenStays`
  (`StoresKept`); `RememberedOnce` (`StoredOnce`). The invariant says what a call that
  has read and not yet written holds: all that is owed of its day (`RowsKept`,
  `FilesKept`), a text nothing stored is like if it is alone (`MemoriesKept`), a
  version at least as new as the last that was saved alone (`SnapshotsKept`).
  Logins: `CredentialsTyped`; `LoginsLast` (`LoginLasts`). The file alone does not say
  that a login lasts: while a refresh has an answer to save, the token on file is used
  up. So the invariant speaks of the writer (`WriterSound`), the file (`FileSound`) and
  those that have read it (`ReaderSound`), and gives up only when saves have crossed
  or an answer is `Doomed` to be saved over what it has not read. A new refresh token
  is nobody else's (`Fresh`).
- `Services_proofs`, chat adapters: `AdaptersTyped`; `MarksMeet` (`MarksAnswered`): what
  waits to be used was not used (`UsesKept`), in one place only, and what a message
  has met is no longer kept unless it is excused (`ReachedKept`); `DuplicatesDropped`
  (`DuplicateAfterEviction`): OneBot's ring is the end of what it accepted, each id
  once (`RingKept`), QQ's table all of it until it is full (`TableKept`).
  Connections: `LinksTyped`. Tools: `ToolsTyped`; `NothingAppendedLost` (`AppendsKept`):
  the numbers of a round's calls are its own (`OwnIds`) and, until such a call has
  appended, not in the file (`AppendsThere`).
  `ServicesImplement`: a step of the composition is a step of one service and a
  stutter of the others, so `ServicesSpec` implies every service's specification and
  what is proved of it; `ServicesTyped` (`ServicesTypeOK`) follows.

Model-checked only: liveness (`PublishReturns`, `WriterProceeds`, `RecurringRuns`,
`MarkRemoved`, `HandledUnlessStuck`, `TerminatesUnlessStuck`, `ShutdownEnds`, `LinksFollow`,
`LoopsEnd` of `ToolRounds`), which needs fairness and ENABLED; and `RoundsInOrder`,
which speaks of a fold over the calls of a round: what a fold computes for every
sequence needs induction over data.

## 5. What is left out, and why

Abstracted in the modules:

- What messages, summaries, job payloads and tools say; logging. Events of a turn
  are emitted at fixed places; `WebChannel` has them with the broker.
- `AgentLoop` takes the tool calls of a turn one after the other (their
  parallelism is in `AgentTurn` and, with their effects, in `WorkspaceTools`), the
  outbound queue as drained, and no shutdown of `Run` (its flag is in
  `ChannelManager`). A cron message that begins with "/" would be a command on a
  side goroutine; side turns are turns here.
- `AgentSession` triggers the summarizer by the number of messages only, not by
  the token estimate, and takes the summary of what it was given as complete.
- `CronService` takes the jobs' schedules as kinds (fixed time, repeating, none).
- `WorkspaceTools` has one file; commands of `exec` leave it alone; a read is one
  step. The arguments of a call are chosen at the step that first looks at them.
- `ChatConnections` models the websockets of OneBot and WhatsApp and the sockets of
  MaixCam; the reconnects inside vendor SDKs are theirs.
- The torn files (`jobs.json`, `auth.json`, a day's note): a crash during
  `os.WriteFile` is modelled and loses what the code loses.

### Not modelled

- Providers: requests and responses of HTTP APIs and CLIs, no state between calls.
- Web search and fetch, I2C, SPI: one request or ioctl per call.
- Routing, skills, configuration, migration, onboarding, `oracle-setup` and
  `oracle-inspect`, prompt seeding: one goroutine, once per command; their result is
  a file or rows nobody writes at the same time.
- The Oracle state store: `Get` fills the cache without the lock, so an older value
  can replace a newer one, but only tests call it.
- Telegram's slash commands, Markdown conversion, LINE's loading animation, voice.

### What the code does beyond the properties

Met while modelling, excused by name in a property or outside all of them:

- A heartbeat turn records the place its own manager loaded at the start
  (`pkg/heartbeat/service.go:61`) as the last channel, over the newer one, and the
  turn of a cron job the place of its job (`pkg/tools/cron.go:301`).
- A job removed between its lookup and its handler (`service.go:189`, `197`) runs
  once more. There is one scheduler goroutine: a handler that hangs stops all jobs.
- A message that the tool sends elsewhere keeps the response from the user
  (`message.go:70`). Subagents' messages come on top of the response. Messages too
  long for the summarizer are cut off unsummarized (`loop.go:1045`).
- Queued outbound messages are lost at shutdown (`manager.go:137`); a message whose
  send fails is logged and lost (`manager.go:196`).
- Telegram's `Load` and `Delete` of a placeholder are two steps (`telegram.go:143`),
  and a newer message of the chat takes the place of an older one's mark, there and
  on Slack; the older one stands for ever. Slack marks messages it then drops, and
  those marks stand until something else is said there. OneBot handles events without
  an id, or with 0, as often as they come (`onebot.go:642`).
- `Stop` of WhatsApp and MaixCam waits for a `Send` whose write has no deadline
  (`whatsapp.go:100`, `maixcam.go:233`).
- WhatsApp never reconnects: a lost websocket is read every two seconds until the
  library panics (`whatsapp.go:120`). OneBot's redial may succeed after `Stop`.
- QQ evicts a random half of its ids, possibly the newest (`qq.go:229`). LINE events
  of one chat run in goroutines of their own and may be published out of order.
  DingTalk can only answer chats that wrote since the start.
- `AppendToday` takes a failed read, or a file another call has just truncated, for an
  empty note; a write that fails after the truncation loses the day (`memory.go:97`); a failed Oracle at the start
  moves the journal to files and splits it; a failed `loadAll` lets the next `Save`
  replace a row it never read (`session_store.go:201`).
- A torn `auth.json` makes every load fail, a login's included, until a logout
  without provider removes it. A lost answer to a refresh that rotated the token
  ends the login.
- Parallel `edit_file` and `write_file` of one round lose edits (`edit.go:97`);
  `exec` outlives its timeout while a child holds its output (`shell.go:177`); a
  subagent out of iterations is reported as completed with no content
  (`toolloop.go:150`).

## 6. Plan

Done: bus, cron, sessions, agent loop, iteration, and in `services` web channel,
channel manager, last channel, stores, adapters, connections, credentials, tools.

Proved: every invariant of every run, and the action properties but one.

Next, most important first:

1. An abstract log of events that `WebChannel` refines, a journal that `Stores`
   refines while calls do not overlap, with proofs of the refinements.
2. `RoundsInOrder` for a single change, whose fold has one step that counts.
3. The steps of `LinksFollow` and `LoopsEnd` as action properties (what brings a
   connection back, what shrinks as a loop goes on).
4. `Schedules` and the routing score as pure operators against reference
   definitions over bounded inputs.
