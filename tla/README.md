# Verification of nishi-dsh-suite

TLA+ models of the parts of nishi-dsh-suite whose correctness depends on the
order of events: several processes that share memory files, overlapping
asynchronous calls in the host and in the browser, vendor child processes that
answer late or die. TLC checks the models on small instances; TLAPS proves the
central safety properties for every value of the constants.

- [The system](#the-system) - the parts, their state, how they interact
- [Modules](#modules) - which module models which code, and how
- [Runs](#runs) - what TLC checks, with which bounds, and why they are enough
- [Findings](#findings) - where the code departs from what its documents say
- [Proofs](#proofs) - what is proved, from which assumptions, how
- [Limits](#limits) - what is only model-checked and what is not modelled
- [Plan](#plan) - the order of the work, and what is left

## The system

The suite extends the DSH host with vendor routes (Codex, Antigravity, Grok,
Claude), a usage display and a project memory. Seven packages:

| part | state | operations | interacts with |
|---|---|---|---|
| project memory: writer lock (`project-memory/src/filesystem.ts`, `process-identity.ts`) | `<target>.lock` directories with an owner marker | `withWriterLock`, owner reads, reclaim of dead owners | every writer; plain-file locks of `dsh-atomic-write` in the same place |
| project memory: transaction (`transaction.ts`) | the journal file | create pending, mark committed, clear, recover, claim, settle | the writer locks of the journal, `MEMORY.md` and topics |
| project memory: operations (`topics.ts`, `bootstrap.ts`) | `MEMORY.md` and topic files | write/edit topic, write/edit `MEMORY.md`, map entries, bootstrap, reads | both of the above; called by tools, commands and the session context |
| project memory: init, context, runtime | `.gitignore`, the session context cache | initialise, refresh of the context | operations |
| core: usage service (`core/src/usage/service.ts`) | registrations, cache, refreshes in flight, invalidation tokens | register, withdraw, invalidate, cached reads, refresh | collectors of the vendors; the rpc of the host |
| core: browser controller (`core/src/client/controller.ts`) | phase, roster, rows, refreshes in flight | initialize, refreshAll, refreshProvider, ensureAllFresh, dispose | the usage service through rpc |
| core: registry, registration, host (`core/src/registry`, `runtime/registration.ts`, `host`) | provider records, their routes, adapters and model listers, announcements | register with rollback, reconcile, invalidate, withdraw | usage service, web search, model list |
| core: routed web search (`core/src/web-search`) | none between calls | one tool call, its queries at once | the search backends of the vendors |
| core: model visibility (`core/src/client/model-visibility.ts`, `registry/service.ts`) | hidden models in the browser and in the host | hide, show, load | storage, rpc, the model list DSH builds |
| core: sidebar (`core/src/client/view-model.ts`, `ui`) | order and visibility of usage groups | move, show, hide, reset | the controller, the browser's storage |
| core: vendor process runtime (`core/src/runtime`) | one supervised child at a time | spawn, bound the output, time out, settle once | every vendor package |
| codex | app server children, threads, turns, the verified runtime, the model list | stream a turn, history projection, model list, web search, usage | DSH's model loop |
| antigravity | live children per conversation, digests of what they were told, the model list, the last usage | stream a turn, repair, retry, reap, dispose, model list, web search, usage | DSH's model loop |
| grok | vendor sessions and their delivered prefix, the model list, the last billing | stream a turn with a headless child, model list, web search, billing | DSH's model loop |
| claude | none between reads | one control session of the CLI per read | usage service |
| suite (`suite/src/preset-manager.ts`) | the installed preset directory | install, update, remove with stage and backup | the file system |

What is hard in it, and what correctness means for each part:

- **Writer lock.** Processes race over one pathname with calls that are each
  atomic but never together: publish by `rename`, list, read the marker,
  unlink, `rmdir`. It must exclude every two holders, survive the death of a
  holder, never let a delayed release or reclaim remove a successor, and serve
  a waiter once the lock is free.
- **Transaction.** A topic write changes two files. A process may die between
  any two steps; the next process finds the journal and must complete or undo
  it, while others may be recovering too, and a committed transaction must
  never be undone. Seen from outside an operation takes effect at once or not
  at all.
- **Memory map.** Topics share one file with what a person wrote into it. Each
  must have exactly one entry and nothing else may change; a session must read
  as much of the file as its limits allow.
- **Usage service.** A collection may end after its provider was invalidated,
  withdrawn or replaced. A superseded result must not reach the cache, a call
  made after an invalidation must not be answered by a collection begun before
  it, and a withdrawn provider must leave nothing behind.
- **Usage sources.** However often and however many ask, few vendor processes
  run, and the panel shows what the vendor said.
- **Browser.** Answers arrive in any order and after the roster has changed. A
  ready row shows an answer asked for under the present roster, no row stays
  loading for ever, and an older roster never replaces a newer one. A setting
  changes what the user clicked and nothing else; what is hidden in the browser
  comes to be hidden in the host.
- **Registry and host.** A provider registers several capabilities; when one
  fails the others are withdrawn in reverse. A plugin may be unloaded and loaded
  again while an earlier load still installs. What is present serves, and what
  is gone leaves nothing.
- **Vendor turns.** Turn results, process exits, timeouts, cancellations and
  disposal race. A vendor conversation may be continued only if it has heard
  exactly the beginning of the history it is now asked to continue; an answer
  must be read as what it is and handed on unchanged.
- **Joined work.** Model lists, runtime verification and usage readings are
  shared by callers of different sessions; the abort or failure of one must
  reach those it concerns only.
- **Preset manager.** A replacement is two renames; a crash between them leaves
  nothing at the target, and commands of two terminals may interleave.

`PROJECT.json` lists each hazard with its line and the properties that would
catch it going wrong.

## Modules

Each module has one action per step that another actor may interleave with:
one file-system call for the lock, one lock or file operation for the
transaction, one run between two awaits for the host, the browser and the
vendor turns.

### Project memory

`AbstractLock` is what `withWriterLock` promises: `Grant` gives a free lock to
a fresh generation of a live process, `Leave` and `Free` give it back, `Die`
kills a process, and a dead holder's lock may be freed by anyone.

`WriterLock` is the code. `entry` is what stands at `<target>.lock` (the token
of a generation, the plain file of an upstream process, or nothing), `marked`
the tokens whose directory still holds its owner marker. `Publish` is the
rename of a prepared directory, which on POSIX also replaces an *empty*
directory: exclusion rests on the marker, not on the directory. `ReadFile` to
`CheckAlive` are the calls of `readWriterLockOwner`; `RemoveStat` to `RemoveDir`
those of `removeDirectoryWriterLock`, where `expected` is the identity compared
on the way; `RemoveFileCheck`/`RemoveFile` remove legacy plain files;
`UpstreamAcquire`/`UpstreamRelease` are the processes of `dsh-atomic-write`,
external. `Crash` may happen anywhere. `BirthIdentity = FALSE` is a platform
without a process-birth identity, where a marker's owner can never be called
dead. `InodeReuse` lets a freed inode number reappear on the next directory.

`AtomicMemory` is what the memory operations promise: a request takes effect in
one step (`Apply`), then succeeds, or fails. It keeps `applied`, `acked` and
`failed` so that an acknowledged operation is one that took effect.

`MemoryTransaction` is the code of `transaction.ts`, `topics.ts` and
`bootstrap.ts` over the mutex that `AbstractLock` specifies. Each process runs
one operation at a time through the labels of `pc`: `Probe` to `ClaimVerify`
recover, `RestoreTopic` to `ClearRemove` settle a record, `MapLock` to
`MapWrite` keep a map entry, `TopicLock` to `MarkWrite` are a transaction,
`BootLock`/`BootWrite`, `OnlyLock`/`OnlyWrite` the single-file operations.
`Unwind` and `Unlock` are the nested `finally` blocks: locks are released
innermost first. `seen` is the record an operation relies on, `plan` the map it
computed, both of them possibly stale. `TimeOut` is the lock deadline, `Fault`
and `SettlementFault` an I/O error or a cancellation, `Crash` a death that
leaves locks and journal where they are.

`MemoryMap` is the text those operations write and read (`bootstrap.ts`), where
`MemoryTransaction` says when. A line is one of the kinds the code tells apart;
`WithTopic` is the insertion of an entry, `SectionLines` and `Settle` its search
for the section and for older entries of the topic; `ReadPrefix`, `TruncateLines`
and `TruncateUtf8` are the bounded read over characters of one to four bytes.
`MapKept` compares the file with what a person last left there (`foreign`) and
the topics added since, `ShownIsLongest` the text a session is shown with the
longest prefix within both limits.

### Usage display

`UsageService` models `UsageLimitsService`. A registration is a generation
number, an `InFlightRefresh` names the call whose promise it holds, an
invalidation token is the number of the invalidation, `Undefined` when the map
has none. `RefreshProvider` runs up to its first await in one step (join, answer
from the cache, or collect), `CollectorAnswers`/`CollectorFails` are the end of
the collector, `RefreshSettled` the `finally` that removes the entry *if it is
still its own*, `Return` the continuation of the caller.

`UsageClient` models `UsageController`. `Start` is a call up to its first await;
`RosterAnswers`, `CachedAnswers` and `RefreshAnswers` with their failures are the
continuations of the three rpc requests, `AfterRoster`, `AfterCached` and `Loop`
what the calling operation does next. `rosterGeneration`, `rosterRequestSerial`
and `inFlightRefreshes` are the three fences of the code. `published` records the
request whose roster is shown. A usage is `FRESH` or `STALE`; `FRESH` stands for
`UNSUPPORTED` too, which the controller treats alike.

`UsageSources` is what a collector calls: the source of one of the four
providers. Grok's and Antigravity's join the process under way (`inFlight`) and
leave a floor after the start of the last one, within which `last` is served;
Codex's and Claude's start one for each read. `Pass` and `SetBack` move the wall
clock. `Bounded` limits the processes, and requires that a reading is never
followed by an older one.

`UsageReadings` follows what a vendor said through the provider's normalizer
(`Codex`, `Claude`, `Antigravity`, `Grok`), the contract (`MeetsContract`), the
projection (`Public`) and the groups of the panel (`Groups`). `ShownAsSaid`
compares both ends. Claude's connected apps and `model_scoped` entries are
checked and dropped: they can spoil an answer and are never shown.

### Host and browser

`ProviderRegistry` composes `registerProvider`, the registry and the host's
reconciliation. A plugin's `Load` goes through `stage`: `Register` is the
synchronous beginning up to `await install`, `InstallDone` and `RegisterFails`
its two ends, `Forget`/`DisposeAdapter`/`Rollback` the withdrawal in reverse,
`Unload` an unloading that may come while the install is pending, `OrphanDone`
and `OrphanRollback` what such an install does afterwards. `HostMount` and
`HostUnmount` derive the usage registrations anew (`Reconciled`).

`ModelVisibility` has the browser's storage, the settings section and the calls
on its connection on one side, the host's hidden set and the catalogue built
from it on the other. `Mount`, `Commit` and `Reload` send calls,
`Arrives` handles the first of them in the host, `Answer` brings the results
back, `Break` loses the connection.

`SidebarSettings` is the order and visibility of usage groups. Providers come
and go and one may show as several pools while the settings persist; `Resolved`
is the order shown, `Slots` and `Filled` the way a move is written back into an
order that holds ids not shown now.

### Vendor turns

`AgyPrimary` is the Antigravity route: `stream`, `runTurn`, `repairTurn`,
`closeSession`, `armIdleReaper` and `dispose` of `AntigravityCliAdapter` over
`AgyTurnProcess`. `child` holds a vendor child with the `AgySessionState` it
belongs to, `call` the step each caller is in: `starting` awaits the child,
`turn` and `repair` a result, `closing` the exit of a child that was closed, and
`next` says what follows. `rejected` is a rejection that has not reached its
step yet. `Stream`, `StartProcess`, `AgyTurnResult`, `Rejected` and `Closed` run
from one await to the next; `Judge` is the loop of `stream`. `line`, `buffered`
and `structured` are what makes answers stale: the line the child has not
answered, a result left behind by a turn that was given up, and the decision
that `structured_output` keeps. `told`, `executed`, `opened`, `late`, `lines` and
`answered` are history variables.

`GrokTurn` is the Grok route, a process per step. `session` holds the
`VendorSession` objects by the step that made them, `sessions` which of them is
mapped, `heard` what the vendor's conversations hold. `Stream` is `prepareTurn`
with the synchronous beginning of `runTurn` (which decides `resume` before it
awaits), `PromptWritten` the argv with the session's id of that moment,
`TurnThrows`, `TurnRejected` and `TurnSucceeds` the three ways a turn ends.
`clean` records that no turn of a session threw and no two overlapped, the
condition of `HeardHistory`.

In both, DSH is external: it asks with a history that has grown, is the same, was
compacted, pruned, or (for Grok) rewound, and appends a reply to the history the
step was asked with. `HeardMessages` is what both compare by: `Unheard` leaves out of
a history the replies that a conversation made itself (`isOwnReply`), which no
request repeats to it. It is a recursive function, for the provers know nothing of
`SelectSeq`.

`BridgeReply` is what these two routes make of one answer. `Replies` are the
answers a CLI may give (a structured object of this turn or an earlier one, a
JSON response, prose, nothing); `StructuredResult` and `ReadDecision` read them,
`Refused` ends the conversation, `AskedAgain` is the repair, `TakenAsProse` the last
resort. `View`
and `Mapped` are the ids under which calls go back to the vendor.

`CodexThread` is the Codex route, a process per step. `Stream` looks for the
latest checkpoint in DSH's history; `Resume`, `Rollback`, `ForkThread`, `Rebuild`
and `StartThread` bring a vendor thread to that history, `Inject` adds what it
has not heard, `StartTurn` runs the turn. `Requests` gives the order of these
requests, `Effects` what each does to the vendor's `thread` even when its answer
never arrives. `TurnFails`, `Abort`, `Exit`, `Die` and `CloseSession` are the ways
a step ends early.

`CodexStream` is one such turn as DSH reads it: `ItemStarted`, `Delta`,
`Completes`, `Error`, `TokenUsage` and `TurnCompleted` are the notifications, in
any order, `chunks` what the adapter yields for them. `ToolArguments` follows the
arguments of a call through a schema rewritten for codex's strict mode
(`Rewrite`), what the model can send under it (`Sent`), and the restoration
(`Invert`).

`VendorSearch` is one web search: `Start` opens a child and a directory per
query, `KeepFirst` and `Settle` are the tool's join, `Ensure`, `Verify` and
`Clear` codex's preflight, which concurrent searches share as long as the
command resolves to the same executable (`Reinstall` changes that).

`ModelCatalog` is `models()` of the three adapters: a cached list or one load
that callers join. Codex's load has a signal of its own and each caller may
leave; the others run under the signal of the caller that began it
(`LoadAborted`), whose abort is told to the rest by `Outcome`.

### Suite

`PresetManager` runs the commands of two terminals a file operation at a time:
`StageBegins`, `StageEnds`, `BackUp`, `Replace`, `Restore`, `Clean`. `Interrupt`
kills a command between any two of them and leaves its stage and backup as
`litter`; `Edit` is a change by the user.

### Composition

`MemoryTransaction` runs on `AbstractLock`, which `WriterLock` implements;
`ProjectMemory` has both, each with its own state (`MCWriterLock` lets the lock move
and the transaction stand still);
`ProviderRegistry` holds the host's side of what `UsageService` does inside.
`Parts` instantiates nine modules that share no state, each with variables of its
own, and states what each promises; `MCParts` adds four more, which are functions or
have recursive operators. `part` names one of the thirteen, and only that one moves:
a behaviour of `MCParts` is a behaviour of that part's own `Spec`, beside which the
rest stands still. It is a way to check them in one run, and no claim about their
interaction. The theorems of `PartsProofs` and `CodexThreadProofs` start
from each part's own `Spec`.

## Runs

Deadlock is not checked: callers stop when the bounds on calls are used up.
`MaxCalls`, `MaxSteps`, `MaxChildren`, `MaxCrashes`, `MaxFaults`,
`MaxSettlementFaults`, `MaxTime`, `MaxInFlight` (steps of codex sessions at a time),
`MaxGenerations` and `MaxInvalidations` are such bounds, and so are those of `Parts.cfg`; `MaxObservations`, `MaxRetrying`, `Floor`,
`MaxLines` and `MaxBytes` are constants of the code, made small.

| run | question | instance |
|---|---|---|
| `lock` | mutual exclusion, refinement of `AbstractLock`, service of waiters | two processes with two calls each and a plain-file locker, any number of reclaims, deaths, reused inodes |
| `transaction` | operations are atomic and durable (refinement of `AtomicMemory`), files are written under their lock | two processes, two calls of any kind, one death |
| `transaction_settlement` | atomic with failures of the work and of its settlement; no committed transaction is rolled back, recovery leaves nothing, every call returns | two processes, two calls, one death, one fault and one fault of settlement |
| `usage` | no resurrection, one collection, fresh refreshes, invalidation ends freshness | three overlapping calls, two registrations, two invalidations |
| `client` | ready rows are current, refreshes settle, the roster never goes back | three calls at once, two providers, disposal |
| `antigravity` | conversations hear DSH's history, no orphans, turns undisturbed, no decision twice, every idle conversation can be reaped | two overlapping steps of one session, three in all, auxiliary calls, three children |
| `grok` | sessions are resumed only with what they have not heard, failures drop only their own | two overlapping steps, four in all, auxiliary calls |
| `parts` | the properties below | see below |

| part of `parts` | properties | instance |
|---|---|---|
| codex thread | `Consistent` (one turn per thread, books kept, dispose closes all), `HeardHistory` | two sessions, three steps, one failure, one auxiliary step |
| codex stream | `WellFormed` | three items, one delta each, one error that is retried |
| tool arguments | `ArgumentsSurvive` | objects of one property whose node is any scalar, free node, array, object or union the module lists, required or not |
| provider registry | `PresentServes` (also: the gone leave nothing), `RosterFollowsRegistry` | two loads, two ids, two routes |
| vendor search | `NothingOutlives` (also: only the caller's abort is reported as one), `VerifiedRuns` | two calls, two queries in all, two executables, two preflights |
| usage sources | `Bounded` (also: answers never go back) | two callers, three calls, three processes, clock to 2, floor 2 |
| usage readings | `ShownAsSaid` | two readings of at most two meters, at 40 or 120 per cent |
| sidebar settings | `ClicksCount` | two providers, two pools, one id stored at first, two changes |
| model visibility | `AllAgree` | two models, five calls |
| preset manager | `NothingLost` | two terminals, two versions |
| memory map | `MapKept`, `ShownIsLongest` | three lines at first, two topics, one edit; limits of five lines and 14 bytes |
| bridge reply | `RepliesRead` | three decisions, two ids and the empty one |
| model catalog | `CatalogAnswers` | two callers, three loads, three versions |

The runs `transaction_commit`, `usage_cached`, `antigravity_reaped` and
`grok_opened` each check one sentence of the documentation or a comment that the
code does not keep; they are described under [Findings](#findings).

Why the bounds suffice. In `lock` two processes with two calls are a holder, a
delayed releaser or reclaimer and a newcomer, for each can meet its own past; the
plain-file locker is a third contender. One death gives a journal to recover; its
recovery by two others is in `transaction_commit`. The transaction's runs have one
topic: they tell the lock of the map, of the journal and of a topic apart, and that a
topic is written under its own lock among several is `WritersHoldLocks`, proved for
any topics. The menu of `transaction` (`Mutations`) has every kind of operation.
Two invalidations and three calls let a token be set, cleared and set again with a collection of each epoch running. A
stale decision needs a turn that answered and a second one on the same child, an
orphan two overlapping steps, a retry on the wrong conversation a third; four
`grok` steps are an opening, a continuation, a rewritten history and a step that
overlaps any of them.

In `parts` two sessions, loads, searches, callers or terminals are each other's
rivals, and a third actor could only repeat one of them, for each part keeps one
thing that is shared; the pair is interchangeable everywhere, which is the run's
symmetry. Three codex steps are a reply, its loss or rewriting, and the step that
must notice. Three items are a comment, an answer and a second answer or an
image. Three processes of a usage source are one within the floor, one beyond
it and one after the clock went back. Percentages within and beyond 0..100 are
the two sides of the contract. Two preset versions tell the backup from what
replaces it. Limits of five lines and 14 bytes cut within a character of every
width, at a line end and after one; files of three lines hold a heading, an
entry and a stranger. Three loads are one that is aborted, one after it and one
after the cache ran out.

The proofs below have no such bounds.

Fairness. `WriterLock` and `MemoryTransaction` have weak fairness on the next step
of each live process: it is the return of a file-system call or of a timer that
polls, which the event loop resumes. Timeouts, faults, deaths and reclaims have
none, and nothing forces a process to make a call. So `CallsReturn` and
`WaiterServed` are never won by a timeout. In `MemoryTransaction` waiting for a
lock is a disabled step, so weak fairness does not promise any one waiter its
turn; with few calls per process the holders leave and every waiter is served.
`WaiterServed` excepts a lock whose holder is dead or a plain file: the code
promises to remove neither.

## Findings

Each is a run that TLC must find violated.

- `transaction_commit`: a recovery's claim, written from a record read earlier,
  may replace a committed record; the transaction is then rolled back.
- `usage_cached`: a collection begun before an invalidation republishes after the
  newer collection has cleared the token.
- `antigravity_reaped`: the idle timer armed by one turn is not cleared by the
  next, and closes the conversation in the middle of it.
- `grok_opened`: a first turn that throws (a timeout, an abort, no envelope) leaves
  its session mapped with nothing delivered, and the next step opens it with a
  delta, which carries neither tools nor system instruction.

## Proofs

| module | theorem |
|---|---|
| `ProjectMemoryProofs` | the writer lock: types (`LockTypeCorrect`), exclusion, intact locks (`HeldLockIntact`), releases by the holder only (`OnlyHolderReleases`), refinement of `AbstractLock`. The transaction: types (`TypeCorrect`), locks belong to who holds them (`LocksHeld`); every file is written under its lock; locks are taken in one order (`LocksInOrder`), so that no processes wait in a circle (`NoCircularWait`); refinement of `AtomicMemory` and `CommittedNeverRolledBack` as far as they hold, see below |
| `UsageServiceProofs` | types (`TypeCorrect`) and four safety invariants of the service, one of which is `NoLeakedEntry`; invalidation ends freshness |
| `UsageClientProofs` | ready rows are current, loading rows are looked after, the roster never goes back: all three properties of the run |
| `PartsProofs` | ten properties of the run `parts`: `PresentServes`, `RosterFollowsRegistry`, `NothingOutlives`, `VerifiedRuns`, `Bounded`, `CatalogAnswers`, `NothingLost`, `AllAgree`, `RepliesRead`, `WellFormed` |
| `CodexThreadProofs` | two more of them, about codex threads: `Consistent`, `HeardHistory` |
| `HeardMessagesProofs` | lemmas about `Unheard`: of a concatenation, a message, a prefix |
| `GrokTurnProofs` | a continued conversation has heard what the request repeats; a step drops its own session only: both properties of the run |
| `AgyPrimaryProofs` | all five properties of the run: histories heard, no orphans, turns undisturbed, no decision twice, idle conversations reapable |

Those named in parentheses, and `NoLeakedEntry`, are theorems only: the runs check
what they lead to. `OrderInv` and the two properties of the order of locks also hold on
each instance of the runs of `MemoryTransaction`, though no run lists them. The
`TypeOK` of `UsageClient`, `AgyPrimary`, `GrokTurn` and of most parts is a conjunct of
a property of their runs or of the invariant behind it, and so proved with it.

The assumptions are those of the modules' `ASSUME`s: bounds are naturals,
sentinels differ from the values they stand beside. `Parts` states the latter for
each part (`RegistryAssumption` to `StreamAssumption`): `null` is no load, no
executable, no reading, no step and no message. `ProjectMemory` states what
`WriterLock` assumes (`WriterAssumption`). `BridgeAssumption` tells the ids a model
writes from the ones DSH makes, which `RepliesRead` needs and the code cannot ensure
(see Limits). `AgyPrimary` has finitely many sessions and callers (`FiniteAssumption`), without which a step
might find no message and no stamp that is not in use. The numbers of processes,
calls, sessions, providers, children, and the lengths of histories are arbitrary;
the bounds on counters are any natural number.

*WriterLock.* "At most one holder" is not inductive: a stalled release or reclaim
may act on whatever has replaced what it looked at. `WriterInv` adds what limits it:
what a process removes is its own acquisition or a dead process's
(`RemovalTarget`), the unlink happens in the directory whose marker was compared
(`UnlinkTarget`), a holder that releases looks at its own directory all along
(`ReleaseLooksAtOwn`), and a caller that waits has drawn its token (`Drawn`).
Exclusion follows from `LockIntact`, since the entry names one token. The proof
covers plain-file lockers beside the package's own, with inode reuse or not,
and platforms without a birth identity. The
refinement maps `holder` to the marked entry, and its steps use `WriterInv`.

*MemoryTransaction.* `LocalInv` and `SharedInv` are the types of what a process keeps
and of what all share, and say where a process relies on a record (`Shape`). `LockInv`
says of each label which locks its process holds there, and that it is alive;
`WritesUnderLock` is then immediate for each writing action. `OrderInv` is the converse of `LockInv`: `MayHold` says which locks a process may hold at each
label, and that a settlement in the middle of an operation runs without the journal's
lock. So whoever waits holds only locks that come before the one it waits for, in the
order journal, `MEMORY.md`, topic; along a chain of waiting processes that order
rises, and no chain of any number of processes closes. `CallsReturn` shows the same of
the instance with liveness; the theorem needs no fairness and no time-outs.

*UsageService.* `Inv` conjoins `Identities` (generations and tokens in use were
handed out), `NoResurrection`, `InFlightAlive`, `CurrentIsJoinable` and
`JoinableIsCurrent` (the entry in the map is the collection of the present epoch),
`OneCollection`, `Answers` and `FreshRefresh`.

*UsageClient.* `Serials` tells roster requests apart and counts the generations they
open. `Refreshes` relates the entries of `inFlightRefreshes` to the calls behind them:
a refresh of the present roster is the one others join, one of an older roster
belongs to nobody. `RefreshesSettle` is not inductive, for a row is shown as loading
before its refresh begins; `LoadingCovered` says which call looks after it until
then: one that has still to reach the row and will not take it for fresh.

*MemoryTransaction, atomicity.* `ImplementsAtomicMemory` is not true for all values of
the constants: with three processes and a death the code breaks it
(`transaction_commit`). `Undisturbed` names what is missing, in three conditions:
a claim replaces the very record it read (`transaction.ts` compares, then writes by
pathname); `ensureMemoryMapEntry` and the bootstrap writes do not land on `MEMORY.md`
while a record is pending; a plain topic write does not land on the topic of a pending
record. No lock ensures them once three processes meet a death, or a settlement
fails. `OperationsAreAtomic` shows that nothing else can go wrong: under `Undisturbed`
every step maps to a step of `AtomicMemory`, with any number of processes, deaths,
faults of work and of settlement, time-outs and cancellations; `CommittedStays` says
the same of committed versions. Each condition is needed: TLC breaks the refinement
when any one of them is dropped. `AtomicWhileAllLive` supposes nothing but that
nobody dies and no settlement fails, and derives the conditions from it: a pending
record then always has a process at work on it that holds both its locks (`Calm`,
`Tending`). The invariant `AtomicInv` says of each process what it has reported
(`Reports`), that what it is about to write still follows from what is stored
(`Planned`), that a process that writes the participants has its own pending record
in the journal and how far it got (`Writing`), and that one that settles has the
record that is there, whoever claims it, and clears it only when both participants
are restored (`Settling`). `Beside` is what a step of one process leaves to the others.

*ProviderRegistry.* `Owned` says of each map which loads it may name: those that
declared the entry and have not left. Adapters are the exception, for they outlive
a rollback that could not dispose of them. `AllServe` is the other direction, and
`Roster` is what the host derived at the last announcement. Each announcement changes
one entry only, so the roster it derives replaces no load by another.

*VendorSearch.* `QueryOK` says what a query holds at each stage, `PreflightsOK` that what
is remembered as verified was found good by a preflight. That preflights only grow
(`PreflightsGrow`) is what a query that awaits one relies on.

*UsageSources.* `OneProcess` says that the process new reads join is the newest and the
only one that has not settled, and that each began a floor after the one before it unless
the clock was set back. `Ordered` keeps every answer of a shared source between the
newest one served and its last reading.

*ModelCatalog.* A load runs only while there is no list to give out (`LoadOK`), and who
waits has a load to wait for (`CallerOK`); a load comes to an abort only when its owner
aborted (`OutcomeOK`), and no list is newer than the vendor's.

*PresetManager.* Unless it was removed on request, a whole preset is at the target, in the
litter of a killed command, or in a backup that no command is about to clean away
(`WholeKept`); from the user's first edit on no command proceeds (`EditedOK`).

*ModelVisibility.* Calls are handled in the order in which they were sent (`CallsOK`); the
last one that sets carries what is wanted, and the host has it once it is handled
(`SetsOK`); a section that is ready shows what the host hides (`SectionOK`).

*BridgeReply.* Calls already restored have distinct ids (`RestoredInv`); the id of
a call is restored for the first call that has it and for no other.

*CodexThread.* A thread is known by the step that began it: `Roots` says that the thread
a checkpoint names was begun by a step of the same session, `Owns` that a step works on
its own or such a one, `OneStep` that a session has one step at a time. `CallInv` says
at which labels a step has a thread, none before one is established, and where its
checkpoint stands in DSH's history.
`Consistent` follows for any number of sessions and steps, with any request lost,
late, failed or aborted.

`HeardHistory` needs more than that: a thread is taken up again long after it heard
what it holds, by a step whose history DSH may have rewound, edited or copied since.
`HeardInv` says what makes going back safe. Histories are in order, no message twice
and each tool result right after its call (`Histories`). Wherever a thread holds the
turn of a reply DSH still knows, the thread up to there has heard what that reply was
given to and the reply, and nothing else but what failed steps left (`ThreadOK`, for
every such turn and not the last only, since a rollback may go back to any of them;
`Follows` is `HeardHistory` of one thread and one history). The same holds of the
rollout a fork copies from (`RolloutOK`); no thread holds a turn of a step that has
not begun one (`TurnsFresh`). `StepOK` carries this through the requests of a step:
resumed or rolled back, its thread has heard its history up to the checkpoint;
injected, up to the turn's input; streaming, all of it.
Two facts do most of the work. A message that was injected again is found
after the one before it, since each message counts where the thread heard it last
(`HeardInOrder`); and what a failed step leaves in a thread is in `lost` for good.

*CodexStream.* The chunks given so far are one message whose open blocks are those the
turn keeps. There is one lemma for each kind of chunk, that appending it to such a
message leaves one, and one for each notification.

*HeardMessages.* That the recursion has a solution, and what it makes of a
concatenation, is shown by induction on the length of the history. The library's
induction theorems are out of reach (see below), so the induction is an argument
about the least length at which the claim fails (`UpTo`).

*GrokTurn.* What a conversation has heard concerns a session only if no other one
is in it. `Apart` says that, including the conversation a running turn may still be
told it is in. `Mapping` gives each vendor session to one DSH session, and `Hears`
says what a session nobody uses has heard, and what it will have heard with the
prompt of the turn that uses it; both of sessions whose turns ended well
(`clean`).

*AgyPrimary.* Sessions, guards, children and steps name each other, and an action
changes several of them: a failed turn rejects its waiter, closes its child, drops the
session and leaves the step waiting for the exit. The invariant `Good` is therefore
an operator of any sessions, guards, children and steps: each action is cut into the
end of one part of a step (`Drop`, `Answered`, `Forgets`, `Closes`, `Kills`) and the
beginning of the next (`Waits`, `Writes`, `Born`), each with one lemma, and what lies
between them satisfies `Good` too. It conjoins what a step is (`StepOK`), what a child
has been told and whose it is (`ChildOK`), that a step that waits for a child is the
one the child will answer (`LinkOK`), that a conversation without a timer has a step
that will arm it (`KeyOK`), and one step for each guard (`GuardsOK`). That a step can draw an unused
stamp and a message with an unused number is proved from `FiniteAssumption`, since
only finitely many are in use.

## Limits

Only model-checked:

- Liveness (`WaiterServed`, `CallsReturn`), which the provers do not do.
- Of `MemoryTransaction`, `RecoveryLeavesNothing`; and the refinement of `AtomicMemory`
  and `CommittedNeverRolledBack` where `Undisturbed` is not given: they hold on the
  instances of the passing runs with a death and a failing settlement, and TLC finds
  all three violated on the instance of `transaction_commit`.
- `ShownAsSaid`, `ClicksCount`, `MapKept` and `ShownIsLongest`: what functions on
  sequences compute is an induction over data. `ArgumentsSurvive` needs recursive
  operators, which the provers do not do either.

What proving changed in the models. `ImplementsAtomicMemory` turned out to be a
property of the instances and not of the code, whence `Undisturbed`. Operators that
had a meaning for TLC only (a set difference that binds otherwise than it reads, a
`CASE` whose arms overlap, operators of a library the provers know nothing of) are
written as sets, functions and sequences.

`BirthIdentity = FALSE` is covered by the proof only.

What the models leave out:

- `MemoryTransaction` does not include the identity checks on directories, fsync,
  or reads of a file replaced while it is read. One operation runs per process.
- `UsageService` leaves out the call for an unregistered provider, which throws
  at once. TLC explores one provider; the proof covers any number.
- `UsageClient` leaves out listeners and time stamps; the sidebar settings are in
  `SidebarSettings`. It assumes `initialize` is called first and once, as
  `client/index.ts` does.
- `AgyPrimary` and `GrokTurn` leave out workspaces, schema text and usage counts.
  A message is its digest, a tool allowlist violation and an unexecutable
  decision are results no conversation survives; how a reply becomes one is in
  `BridgeReply`, the model list in `ModelCatalog`.
- `MemoryMap` leaves out files that mix line ends, which an insertion evens out,
  and malformed UTF-8. It has no fences and no nested lists: the code reads lines, not
  Markdown, so that it takes a fenced heading for one. The placeholder is one line;
  the code replaces any line of the section that holds its phrase, and so loses what
  else a person wrote on it.
- `BridgeReply`: responses that hold several equal values, or prose before one, are
  that one. `RepliesRead` supposes that the model does not write an id DSH has made;
  if it did, two results would go by one id.
- `CodexThread` and `CodexStream` leave out images, configuration and the text of
  requests. A death of the host is the failure of its steps, for a checkpoint
  lives in DSH's history. Two sessions, which share nothing, do not overlap. A thread may
  be forked even where it could be resumed: threads live on in the user's account. An auxiliary step asks one message; the App Server is
  taken to keep an item's phase and to complete a message once. There is no
  liveness.
- `ToolArguments` has no branch with a constant that may be left out (`Marked` is
  empty), see below; the branches of a union are a scalar and two objects.
- `ModelCatalog` has the life of a list, not its text: parsing it and grouping it by
  effort are left out.
- `VendorSearch` leaves out the events a child prints; `UsageReadings` extra usage, timestamps,
  labels and amounts; `ProviderRegistry` treats the validation of a descriptor as
  one refusal, and loads each plugin context once.
- `ModelVisibility` has one window, whose connection keeps the order of calls.
- `PresetManager`: the user edits the preset while no command runs.
- The comment at `filesystem.ts:488` says exclusion comes from `link()`; the code
  uses the rename of a populated directory, which is what is modelled.

What the code does not promise, or does not keep, besides the findings:

- A lock left by a process that died without a journal is not reclaimed: later
  writers time out. `CallsReturn` and `WaiterServed` except it.
- Cleaning up the plain-file lock of a dead process compares and then removes by
  pathname (`filesystem.ts:533`): two reclaimers can remove a live one's.
- Reading an owner (`filesystem.ts:501`) throws when the owner unlinks its marker
  between the listing and the read, and so fails the reader's own operation.
- A recovery fails its caller when an operation that holds `MEMORY.md` settles the
  journal it has just claimed (`transaction.ts:462`).
- Past `MaxObservations` a recovery returns as if nothing were pending
  (`transaction.ts:512`), and an operation without a journal writes over it.
- Bootstrap writes and plain topic writes do not settle a pending journal under
  their lock. After a failed rollback, or with three processes and a death, a
  later rollback can restore an older content over what they acknowledged; the
  passing runs keep to menus where this does not happen.
- A roster that arrives after `dispose` of the browser controller is published
  (`controller.ts:197`). A failed refresh shows again the usage that the host's
  cached list had dropped while it ran (`controller.ts:313`).
- An Antigravity request with a block that cannot be serialized throws after its
  child was mapped (`antigravity-primary.ts:1037`): the child stays, without an
  idle timer and unopened, and a later request continues it with a delta.
  `Reapable` is stated for opened conversations.
- A turn that awaits `startProcess` when the adapter is disposed spawns its child
  afterwards; `NoOrphan` excepts such children (`late`).
- The Grok route has no guard against overlapping steps of one session, and
  accepts steps after `dispose`. When only the vendor's last reply was rewound,
  both routes continue a conversation that still holds that reply: it is no part
  of the delivered prefix.
- The Codex route injects before it starts a turn. When the turn then fails and is
  rolled back, the injected items may stay in the thread; `HeardHistory` allows
  those (`lost`).
- A Codex turn that ends at its token limit may leave a block of the message open.
- A branch of a union whose constant is optional is not told from the others when
  the model leaves it out (`stepped-schema.ts:328`), and the arguments inside an
  array branch are not restored.
- A list of models read by Antigravity or Grok runs under its first caller's signal:
  when that caller aborts, the others fail too, and Grok reports a plain failure.
  The process of codex's list is not closed by `dispose`.
- A usage source serves its last reading, however old, with the time of the present
  one, when a read fails or comes within the floor; Grok's may belong to a billing
  period that is over (`usage-billing.ts:113`). Of two callers of a failing read the
  one who started it gets the last reading, the one who joined gets none.
- One window of Claude's without a percentage passes its normalizer and makes the
  listing of all cached providers throw (`public-projection.ts:191`). Windows of one
  model belong to no group of the panel.
- A hidden provider hides its pools, whose own boxes then do nothing
  (`view-model.ts:181`).
- The host keeps the hidden models in memory: when the connection breaks between a
  change and its answer, host and storage differ until the page is loaded again.
- The adapter of a load that failed stays when disposing of it threw.
- An edit the user makes while a preset command runs is deleted with the backup; a
  death while a preset is removed leaves a part that counts as modified.

### Not modelled

- Storage scopes and paths: path arithmetic and one pinned chain of directory
  descriptors, with no state of their own.
- Initialisation, context and runtime of the project memory: one file each, under
  the lock that `WriterLock` models, and a cache of what `MemoryMap` reads.
- Commands, tools, command lines: they parse arguments and make one call each.
- Text: prompts, the bridge schema, the events of a search, the parsing of lists of
  models, markup, wording of errors.
- Build and release scripts, which run outside the program.

## Plan

In order: the writer lock and the transaction, because data is lost when they
are wrong; the usage service and the browser controller, the most concurrent
parts of the host; the vendor turns; registration and host composition; then
pure functions and the preset manager.

| module | models | state |
|---|---|---|
| `WriterLock`, `AbstractLock` | writer lock | checked, proved |
| `MemoryTransaction`, `AtomicMemory` | transaction and operations | checked, proved as far as it holds |
| `UsageService` | usage service | checked, proved |
| `UsageClient` | browser controller | checked, proved |
| `AgyPrimary` | antigravity turns: live children, repair, retry, reaper, disposal | checked, proved |
| `GrokTurn`, `HeardMessages` | grok turns: delivered prefix, failures, disposal | checked, proved |
| `CodexThread`, `CodexStream` | codex turns and their events | checked, proved |
| `ToolArguments` | arguments of codex calls | checked |
| `ProviderRegistry` | registration, rollback, reconciliation | checked, proved |
| `VendorSearch`, `UsageSources`, `ModelCatalog`, `BridgeReply` | searches, sources, lists, replies | checked, proved |
| `UsageReadings` | from a vendor's reading to the panel | checked |
| `ModelVisibility` | hidden models | checked, proved |
| `SidebarSettings` | order and visibility of usage groups | checked |
| `PresetManager` | install, update, remove, interruption | checked, proved |
| `MemoryMap` | insertion into the memory map, truncation | checked |
