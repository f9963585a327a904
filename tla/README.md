# Verification of TheoCode

TLA+ specifications of TheoCode: the collection of old sessions beside the
sessions that are in use, the goal that drives the agent of a TUI beside its
operator, the session a TUI is in while its commands wait for the disk, what a
turn may do and who said so, what a terminal shows and does with a key while a
turn waits, and the headless command line from its arguments to its exit code.
TLC checks each specification on a small instance; TLAPS proves the properties
that matter most for every value of the constants.

Every definition is translated from `src/`; `PROJECT.json` ("map") names the
lines each one stands for. A definition named `X_SomeDefect`, just before `X`,
is `X` with a plausible bug: each property is checked to catch one of them.

    tlc -workers 2 -config goal.cfg MCGoalLoop.tla        # a run
    tlapm GoalLoopProofs.tla                              # the proofs of a module

## 1. The system

TheoCode is a coding agent: a monorepo of four packages over an agents SDK
(`@theokit/agents`, not in this repository) that runs the turns, streams them,
and keeps transcripts, leases and a registry of agents on disk.

| component (`src/packages/...`) | state it keeps | operations | what is hard |
| --- | --- | --- | --- |
| session sweeps `agent/src/session/gc` | none of its own; a plan between its two phases | plan a project, apply a candidate, remove an empty project; a per-session variant; a root's ownership marker | another process writes, resumes, archives or sweeps between any two reads; two names per session; stat, pointer and registry reads that fail; kills |
| automatic sweep `gc/auto*.ts`, `gc/guarded-start.ts`, `gc/spawn-sweep.ts` | the stamp file, shared by all the TUIs of a user | read, decide, stamp, spawn, report | races of launches; a stamp that is damaged or cannot be written; a child that dies, or outlives its TUI |
| session operations `agent/src/session` | registry, transcripts, per-project pointer | delete, fork, rename, archive, list, rewind | each is several steps on several files; guards are read before they are used |
| TUI goal `tui/src/commands/goal*.ts`, `tui/src/persistence` | goal on screen, ref to the running loop's controller, `tui-goal.json` and its queue of writes | `/goal <objective>`, `pause`, `resume`, `clear`, Esc, `/new`, load at launch | a loop that was told to stop ends later; its `finally` writes state that is somebody else's by then; turns of the operator between those of the goal; failed and late writes |
| TUI session `tui/src/agent-session`, `tui/src/persistence` | session id on screen, pointer file and its queue, the turn that streams | new, resume, fork, archive, interrupt, send | session id read after an await; switches under a running turn |
| backtrack `agent/src/session/backtrack.ts`, `tui/src/backtrack` | rungs of the ladder, armed flag | prime, step, confirm | the transcript the rungs were read from may no longer be the current one |
| composer commands `tui/src/commands` | panels, templates being expanded | every slash command | refusals made before an await, acted on after it |
| configuration and trust `agent/src/config` | nine settings files, the trust store and the two lists of before it | load, layer, fold, grant, migrate | precedence of layers, profiles and environment under a floor; read at several times by several readers |
| hooks and consent `agent/src/hooks`, `tui/src/consent` | the hooks approved and declined, the gates on the screen | review, approve, decline, run | files that change between review and use |
| agent of a turn `agent/src/chat`, `composition`, `delegation` | none between turns | build, with tools, hooks, servers, instructions, sandbox | built from the disk of that moment, while cards are answered by what the session loaded |
| instructions `agent/src/context` | none | collect, budget, cut | budgets of several sources, one after the other |
| approvals `tui/src/consent/use-approvals.ts` | the ledger of what was asked and answered, the card | absorb, prune, decide, approve at once | the framework redraws messages and notes answers a render later |
| question bridge `agent/src/ask` | a question pending and one remembered per session | ask, answer, abandon, time out | sessions are switched while questions wait; late answers |
| PTY owner `agent/src/pty` | the sandbox mode, the backend in use | start, rotate, stop, dispose | turns that outlive the backend they were built with |
| keyboard `tui/src/terminal-io` | the layers, what is armed, the file of bindings | route a key, apply an action | layers, panels and cards have orders of their own |
| CLI `cli/src` | one process | run, resume, goal, review, sessions, doctor, migrate-config | busy sessions, retries, signals, two outputs, exit codes |
| credentials `agent/src/auth` | the credential file, the environment | resolve, refresh, route, login, logout | resolved twice: to choose the route, and to pay |
| the rest | none that outlives a call | MCP failure list, skills, memories, rendering, theme, clipboard | - |

How they interact: the TUI and the CLI send turns through the SDK, which takes
a *writer lease* (a `.lock` file), appends to the transcript and registers the
agent. The TUI points its working directory at a session
(`.theokit/tui-session`). The sweeps read all of this - lease, registry,
pointer, transcripts' dates - from another process, and remove what none of it
protects. Inside a TUI everything is one JavaScript thread: what interleaves
there are the continuations of its awaits, React's renders, and keys. Every
turn builds its agent from the files as they are then; the screen answers for
it with what the session loaded. A tool of a turn asks through the conversation
(approvals) or through a bridge (questions), and the screen shows one card.

What makes each component correct, and where it is checked, is the list of
hazards in `PROJECT.json`: the line where each bites and the properties that
would catch it.

## 2. Modules

| module | models | checked by | proved in |
| --- | --- | --- | --- |
| `SessionsOnDisk` | what sessions leave on disk and what programs do to it | (through the next two) | |
| `AllProjectsSweep` | `sessions gc --all-projects`, plan and apply, beside sessions and other sweeps | `MCAllProjectsSweep` | `AllProjectsSweepProofs` |
| `ProjectSweep` | `sessions gc` and `sessions delete` in one directory, beside sessions | `MCProjectSweep` | `ProjectSweepProofs` |
| `Collector` | what every collector promises: the abstract specification both sweeps implement | (as `Collects`) | both of the above |
| `SweepTrigger` | the daily sweep a TUI launch may start | `MCSweepTrigger` | `SweepTriggerProofs` |
| `GoalLoop` | the goal of a TUI | `MCGoalLoop` | `GoalLoopProofs` |
| `SessionSwitch` | the session of a TUI: its turn, pointer file, screen and backtrack | `MCSessionSwitch` | `SessionSwitchProofs` |
| `ConfigLayers` | settings files, layers, profiles, the security floor: pure | (through the next two) | |
| `AgentBuild` | the agent of a turn: tools, hooks, servers, roles, policy, shells: pure | (through the next) | |
| `TurnAuthority` | the gates, `/sandbox`, `/approval`, turns and cards over a disk that is edited | `MCTurnAuthority` | `TurnAuthorityProofs` |
| `CliArgs`, `Credentials`, `Instructions`, `ExecEvents` | a command line; a credential and its route; the instruction document; what a turn prints: pure | (through the next) | |
| `HeadlessRun` | one process of the CLI | `MCHeadlessRun` | `HeadlessRunProofs` |
| `KeyRouter`, `ApprovalLedger` | what a key means; the approvals a screen remembers: pure | (through the next) | |
| `Console` | the terminal while a turn runs: approvals, questions, keys, shells | `MCConsole` | `ConsoleProofs` |

### SessionsOnDisk and AllProjectsSweep

`SessionsOnDisk` holds the shared state: `disk` (a date per transcript, lock
and temporary), `dirs`, `registry`/`modified`, `pointer`, `lease`. Its actions
are the *effects* of a turn, `/new`, `/resume`, `/fork`, archive and delete on
that state. `AllProjectsSweep` EXTENDS it with the sweeps; its `Next`
interleaves any number of sweepers with all the sessions.

A step of a sweep is what runs between two points where another process can
change what it read. Planning a project: `ListProject` (readdir and the stats;
one that fails leaves an undatable file) with the quota of the newest;
`ReadPointer`; `PlanProject` (the registry and the rest of the plan; a live
lease excludes). `GuardReadFails` and `ListFails` are the two ways a project
becomes an error of the plan. Applying: `StartApply` reads every pointer once;
per candidate `PassBackstop` or `Refuse`, then `RemoveCandidate` or
`RemovalFails`; `CandidatesDone`; `RemoveEmptyProject` for the projects
touched. `CrashSweep` ends it anywhere.

Abstracted: dates are ranks, `Fresh` being that of everything written while
sweeps run and `Cutoff` the window's end; a session has two *names* (the hash
its transcript is stored under since 5.x, and the id itself) because guards
that compare one with the other are the bug this code has had before (B-020,
B-021); the verdict on a project's working directory is a constant, since
nothing in the program creates or removes one; two spellings of a lock are one.
`StartTurn` makes a directory and the first file in it in one step: both are the
framework's, so that what `rmdir` meets between them is not shown.

### ProjectSweep and Collector

`ProjectSweep` EXTENDS `SessionsOnDisk` with two commands of one directory. A
sweep is `ReadTranscriptDir` (the names and their dates), `ListRegistry`,
`Decide` (the window, the quota of the newest, the pointer), `ResolveApply` (the
apply phase's own look at pointer and newest), then per candidate `Remove` or
`NotRemoved`. A deletion is `CheckDelete`, `Unregister`, `UnlinkSession`,
`Verify`, `EndDelete`, each of which may find what the earlier ones did not
leave. History variables say which sessions acted since a step looked (`acted`,
`since`, `rmActed`, `raced`): what the commands cannot know, as they hold no lock.

A candidate is a transcript's name, but what `Remove` unlinks for an orphan is the
path that `transcriptPath` makes of that name (`Unlinked`). The name of a 4.x
transcript is its session's id, and the path of an id is the session's 5.x
transcript: the removal takes *that* file where there is one, and leaves the
candidate. The guards, the lock and the window were asked about the candidate.
What follows from it is stated where it bites: as `Takes` in `LiveSessionsKept`, as
the history variable `crossed` in `NewestKept`, as `Crossing` in `Collects`, and as
the finding `newest_deleted`. Of a 5.x name, which is a hash, the path is its own or
one that no session has, as the framework has it (`Addressable`).

`Collector` has four actions over what was seen, doomed and taken: a collector
looks at what is on disk, dooms only what was beyond the window and not the
newest of what it saw, takes only what it doomed, and may spare any of it.
Sessions write and delete at any time. In both sweeps `doomed` is mapped to the
transcripts that are still candidates and have not been reported; the plan, its
guards and the backstop are its implementation. Entries of the registry,
leftovers and directories are outside of it.

### SweepTrigger

One launch: `Decide` (config, stamp, command line), `WriteStamp` or
`StampFails`, `Spawn` or `SpawnFails`, `ChildEnds`; `Close` and `DamageStamp`
at any time. The clock is a counter; the interval is `Interval` ticks.

### GoalLoop

A step is what runs between two awaits. `RunGoalLoop` is the synchronous part
of `runGoalLoop`; `DriveGoal` its imports and credential, which may throw;
`SendTurn`, `WaitBegins`, `Poll` the store agent's send and its two polling
waits; `Judge`, `RunnerStops` the runner; `EndLoop` the `finally`. `stop` is
the loop's AbortSignal, `goalAbort` the ref that holds the *latest* loop's
controller. `status` is the agent store's, and `seen` the snapshot of the last
render, which is all the polling can see. `WriteSettles`/`WriteFails` are the
queue behind `tui-goal.json`; `Relaunch` ends the process at any point and
loads the file. The operator acts only after a render (`seen = status`): a key
is handled after React has drawn what went before.

Abstracted: completed, failed, budget-limited and blocked are one "ended" -
what reads a status asks only whether it is active; the token budget bounds a
run in the way turns do; what a turn says is the judge's choice.

### SessionSwitch

`session` is the id in `TuiSession`; six paths set it (`/new`, `/fork`, the
fork of an interrupt, `/resume`, `/archive`, a rewind) and each queues a write
of the pointer file (`writes`, `pointer`). A turn is `Send`, then `OpenTurn` -
the session's id is read only after the credential and the agent were awaited -
then `TurnEnds`. `Resume`, `Archive` and `Compact` are what runs when the
command is typed; `...Lands`, `...Fails` and `ResumeRefused` what runs when its
await is over, on whatever state there is by then. `Prime`/`PrimeLands` read
the rungs of the ladder, `Advance`, `ResetLadder`, `Rewind` use them. The
screen is `history` (read by the effect of `useResumedHistory`: `Render`,
`HistoryArrives`) before `thread`, the framework's live conversation. A
command or a key comes after a render (`Rendered`).

Abstracted: a transcript is the sequence of its users' messages, each of its
own, and where its last compaction is; assistants' turns, tokens and previews'
wording go. What the framework does with a message sent under a turn is not
modelled. History variables (`left`, `sentSince`, `moved`, `mixed`,
`lostWrite`) name the exceptions of the properties, and no action reads them.

### ConfigLayers, AgentBuild and TurnAuthority

`ConfigLayers` folds seven layers (`defaults` to `cli`) of up to nine files:
which of a scope's files is read, what a file may set, what profiles and the
environment add, what is accumulated, and `enforceSecurityFloor`, which takes
back what a layer of the repository, a profile or the environment loosens.
`AgentBuild` is `buildChatAgent` on its result: trust and its three stores,
tools by surface, scope and search, hooks as declared, fingerprinted and
approved, servers, skills, roles and their approvals, the approval policy, the
sandbox with the session's switch, and what is confined.

`TurnAuthority` is the session around them. `Launch` loads a configuration;
`Trust`, `TrustPersisted`, `TrustFails` are the gate, whose screen goes before
its disk; `ApproveHook` and `RefuseHook` the hook gate, `Render` what it asks;
`Sandbox` and `ApprovalMode` the commands; `Send` builds the agent of a turn from
the disk; `CallTool`, `AutoApprove`, `Decide`, `CallReturns` a tool's card.
`EditFile` (between turns) and `Migrate` change the disk; `Exit` ends the process
anywhere, and its memory.

Abstracted: a settings file is the values of the keys a turn's authority depends
on (`SchemaKeys`); a hook is its event, command, matcher and timeout; text and
JSON go, and that a file may fail to parse or to validate stays.

### CliArgs, Credentials, Instructions, ExecEvents and HeadlessRun

`HeadlessRun` follows `main()`: `Parse`, `Chdir`, the mode. A run reads its
prompt, probes the credential to route the model, composes, resolves again,
opens its session, and streams: `ChunkArrives`, `RateLimited`, `StreamEnds`,
`StreamThrows`; a busy session is forked once and the turn begun again. A goal
and a review are followed by the life of their agents. `Interrupt` comes at any
point, and the shutdown (`FinishInterrupted`, `AbortGoal`,
`CancellationReturns`, `Dispose`, `ShutdownExits`) is a race of its own with
the drain and the watchdog.

`CliArgs` is `parseExecArgs` over sets of flags; `Credentials` the resolution
over environment and store, the check of a key's prefix, the routes; `ExecEvents`
the two processors of chunks, the hold on the first of them, and the wording of a
failure; `Instructions` the document of an agent as a sequence of pieces with
lengths, and what its budgets cut.

Abstracted: a message is the number of its deltas; a flag's value is whether it
is one; what git, disk and provider answer is a choice. In `Instructions` a
paragraph break is a unit long and the budgets are some twenty units, so that
every piece may be the one that is cut.

### KeyRouter, ApprovalLedger and Console

`ApprovalLedger` is `pending-approvals.ts`: messages absorbed by index, settled,
pruned once final. The Map of what is in flight is a set of entries with their
places: parts only come after the others, so that its order is theirs. `KeyRouter` is `routeKey`: question, demo, gated, then the
ladder of Escape and the keys a file binds. `Console` has the turn by phases
(`Submit`, `BuildAgent`, `OpenTurn`, `TurnEnds`), the conversation's
approvals (`RequestApproval`, `ApprovalCloses` by the framework, `Render`,
`Decide`, `AutoApprove`), the bridge (`Ask`, `AnswerQuestion`, `CancelQuestion`,
`QuestionLapses`), the ways the session moves (`Fork`, `ResumeLands`,
`ArchiveLands`, `RewindLands`, `ResetConversation`), the shells (`StartShell`,
rotation within `BuildAgent`, `HandleStopPtys`) and `Press`, which routes a key
on the state of the screen and applies every action it yields.

Abstracted: what a panel shows; text is whether there is any; a shell is its
backend, the mode it was started in, and whether its backend was gone by then
(`late`).

## 3. Runs

| run | instance | what it shows |
| --- | --- | --- |
| `sweep` | one sweeper; a live, a dead and an undetermined project; two sessions in the live one, one of them with both names, an old lock and a file whose stat may fail; quota 1 | what is planned, what goes between a check and its removal, what is left, what is reported; the sweep is a `Collector`; it ends |
| `project_sweep` | one sweeper, deletions, two sessions, one with both names | live sessions are kept short of the races named; a deletion says what it did; the newest stays, and the sweep is a `Collector`, but for what a 4.x name leads to |
| `trigger` | three launches, interval 2, four ticks | no first sweep applies, one sweep per interval, short of the races named |
| `goal` | one goal, two loops, one turn, two queued writes | one driver, on screen and stoppable; messages refused; the operator's turn never overrun; the file follows the screen |
| `goal_budget` | one loop, two turns, fairness | the budget over pauses and relaunches; a stopped loop ends |
| `session_switch` | three sessions, two messages, one queued write, one command awaited | a turn streams into the session on screen; the pointer follows; the screen holds that session's turns, once; a rewind cuts at the turn shown - each short of the exceptions its comment names |
| `turn` | two starting disks, one edit or migration, three files with three contents each, two ways to have been trusted | a repository only tightens; nothing of an untrusted one reaches a turn; hooks run approved; the loaded configuration is current; what is approved at once is confined |
| `headless` | every shape of line in a plain place, a plain run with every credential, model and set of documents, four turns followed chunk by chunk | flags are used or refused; a turn is on the route of the credential that pays, whatever the two resolutions read; cuts are told; stdout is the final message; exit code and attempts are true; nothing is left behind |
| `console` | four launches: three approvals over two turns; three questions in three sessions; two shells over three turns with edits and switches; every three keys from the trust gate on, with one surface opened | what a turn waits for is seen; shells are confined; no key passes a card |
| `newest_deleted` | as `project_sweep` | violated: see *Findings* |
| `goal_owns_agent` | as `goal` | violated |
| `sandbox_confirm` | as `turn` | violated |

Why these bounds are enough. Sweeps: a race takes one sweeper, one session it is
about to remove and one that changes what protects it; two sessions of one
project are needed for the quota and for the pointer to move; ranks 0 and 1
order two transcripts beyond the window, and `Fresh` is inside it. The number
of turns, crashes and restarts is not bounded. `sweep` lets the first session have
its turns, switches to and from the second, keeps the dead project's one quiet, and
visits the dead project first (`FirstSession`, `DeadFirst`): what happens in one
project does not bear on the plan of another. `project_sweep` lets the first
session act and keeps the second quiet (`FirstSession`), and does not follow a
state in which a look was overtaken past the end of the command that looked.
Trigger: two launches race, the third meets the stamp they leave. Goal: one loop
drives, one winds down; a third adds nothing that a second ending does not (loops
are reused once off). `goal_budget` needs two turns to split between a run and
its resumption, and drops the second loop. Session: one left, one current, one to
switch to; two turns are the least a ladder can step over, or a compaction
separate. Turn: one edit between the load and the turn is what makes them differ,
and every file that can be written by an edit has a loosening and a tightening
content, and hooks that differ in what their fingerprint covers and in what it
does not. Headless: a final message is distinguished from an earlier one by one
tool call between two texts, three chunks; two retries are the first that a report
words otherwise; four lines are followed because the shapes of the outputs are
four. Console: two messages and a redraw are what the ledger's index is for; a
third question meets one that lapsed and one of another session; two shells and
three turns are one on each side of a rotation, and one late; keys are armed by
one, confirmed by the next, and a third meets what that left. The bounds of the
models themselves: `MaxClock` (trigger), `MaxWrites` (writes queued; the code's
queue is unbounded), `MaxAwaits` (commands awaited at once), one read of previews
at a time, the saturation of `spent` at `MaxTurns + 1`, `MaxEdits`, `MaxRetries`,
the `chunks` of a machine and the limits of a `Launch`.

Deadlock is checked but where the system may stop: in the trigger, where all
launches may be over, in `turn` and `sandbox_confirm`, where the process may have
ended with a disk that resolves to no configuration, and in `console`, where a
launch may have used up what it is given.

Fairness. `SweepEnds` assumes weak fairness of each sweep's own steps: its
loops await nothing but its own file operations. It assumes nothing of the
sessions, nor that a sweep ever begins. `StopReachesLoop` assumes that a turn
ends (weak: the SDK ends or fails every stream), that writes settle (weak),
that React renders a changed store (strong: a change may be undone before the
render), and of a loop's own steps strong fairness: its 120 ms poll finds an
idle store if the store is idle again and again, as it is between two turns,
for those are separated by a judge's call or by a human; and `MaxWrites`, which
the code does not have, may disable its end now and then. The refinements are of
safety only: `Collector` promises nothing that must happen.

## 4. Proofs

Each proof module proves `Spec => []Inv` from an inductive invariant by one
lemma per group of actions; TLC checked every invariant first.

* `AllProjectsSweepProofs` (any number of sweepers, projects, sessions, any
  quota, dates and verdicts):
  * `TypeInv` = `TypeOK` and `AtWork` (a sweep that lists has a project, one
    that removes has a target).
  * `CandidatesReported`: `Reported` adds that the target is not reported yet.
  * `WritersKept`: `LeaseWindow` is inductive with the types.
  * `UnreadUntouched`: `PlanInv` adds that what was seen and guarded is of the
    current project, and that a project visited, or being visited, has neither
    candidates nor errors beforehand.
  * `PointedKept`: `PointerInv` adds what the apply phase's snapshot holds
    (`PointersHeld`: both names of every pointer that has not moved since) and
    that the target passed the backstop (`TargetPassed`).
  * `ProtectedNotPlanned`: `GuardInv` adds `GuardsHeld`: between the pointer's
    read and the decision, `guarded` covers every session nobody acted on.
  * `IsCollector`: every step is one of `Collector`'s, or a stutter. `CollectorInv`
    adds to `PlanInv` that a transcript is planned once (`PlannedOnce`: one
    that was taken would be doomed still) and that the newest are guarded from
    the listing to the decision (`QuotaGuarded`). That the doomed are never the newest needs a quota
    of at least one in every project (`QuotaHasNewer`, by the cardinality of the
    transcripts that are newer): the theorem assumes it, since with
    `keepLast: 0` the newest of a project that is gone may go.
  * `QuotaStays` (one sweeper): `FloorInv` carries, for whatever a
    sweep may still take and whatever was taken, a set of `KeepLast` transcripts
    at least as new that nobody but their users takes, as a witness.
* `ProjectSweepProofs` (any number of sweepers and sessions, any quota and dates):
  * `TypeCorrect`: `TypeInv` adds that there are no candidates before a decision.
  * `DeletionIsTrue`: `DeletionInv` adds which parts of the report each step may
    have filled in, and that what is deleted is of the directory; no sweep and no
    other deletion adds to what is on disk (`Lessens`), so none makes a report
    untrue.
  * `LiveKept`: `SweepInv` follows what a sweep knows from the listing through
    the two looks to the removals, one clause per phase, for every session that
    did not act since (`acted`, `since`). What is taken is of the candidate's
    session whichever of its files it is (`TakesType`), so that the guards over a
    session's both names cover it; a writer's lock is on one of the two, which is
    why its clause leaves out 4.x names.
  * `IsCollector`: as above, and with no assumption on the quota: the newest is
    protected by its own guard. A removal that takes another file than its
    candidate is no step of a collector, and the theorem says so (`Crossing`).
  * `NewestStays` (one sweeper): `NewestInv` says that as long as nobody was
    active meanwhile and nothing was crossed, whatever may still go without another look has something
    newer beside it that may not.
* `ConsoleProofs` (any number of sessions, launches, keys and bindings):
  * `KeysSpare`: from `RoutePastApproval` alone: with a card on the screen the
    router yields nothing, the keys of a question, or those of a demo.
  * `ShellsKept`: `ShellsInv` adds that no turn and no shell has a backend later
    than the one in use, so that a rotation leaves nothing on the next.
  * `QuestionsSeen`: `QuestionInv` adds that a question's number is not given again,
    and that a turn that was not moved is in the session on the screen.
  * `WaitsSeen`: `ApprovalInv` adds what makes the ledger's skipping of final
    messages safe: of those, everything that waits is known (`FinalIsKnown`); of
    those that will be read again, everything that was answered is still known
    (`AnsweredIsKnown`: an answer forgotten there would ask again), because a
    marker is only dropped in a message that is final (`Placed`). The first of
    what waits exists since a set of numbers has a least one.
* `SweepTriggerProofs`: `FirstSweepInv` ties each decision to the run that has
  been on record; `PairInv` relates two launches through their stamps and the
  set of those that stamped since each decided.
* `GoalLoopProofs` (any number of goals and loops, any budget): `TypeInv` =
  `TypeOK`, a loop has a goal, a run stays in what its budget has left
  (`WithinBudget`, the reason `carried + used` cannot overflow the record), and
  the last queued write is the screen (`QueuedLast`). `ScreenInv` =
  `DriverIsOnScreen` and `OperatorsTurn` (while a loop that drives is about to
  send, no plain message streams); the two action properties follow from it.
  `CostBounded`: `CostInv` adds that what a goal cost is at most what the record
  says and the loop that drives has used since (`CostsTold`), so that the budget
  it is resumed with is the rest.

* `SessionSwitchProofs` (any number of sessions, messages, queued writes and
  awaited commands): `TypeInv` = `TypeOK` and `QueuedLast` (the last queued write
  is the screen's session, whose id is used up), from which `PointerKept`
  follows; `TurnInv` adds `SentUnderResume` (a turn that runs while a `/resume`
  lists was sent after it was typed); `LadderInv` adds `LadderOfSession` (unless
  the ladder was moved, its rungs are turns of the session's window, and no
  ladder is up while previews are read), from which the cut of a rewind follows.
  `ScreenKept` (`ScreenIsOfSession`): `ScreenInv` compares what is drawn with every
  transcript by their sets of messages. It needs that a message is sent once and
  written once (`SentOnce`, `NoneTwice`), that no fork is given the id of a session
  with a transcript or of the one that was drawn (`UsedForGood`), that what is drawn
  was read from the transcript it is drawn for (`DrawnAsRead`), and that the live
  conversation is apart from what is drawn and from what is still to be read
  (`ThreadApart`): the property itself says nothing while a read is pending.

* `TurnAuthorityProofs` (any files with contents of the schema, any store of
  trust and approvals, servers and skills):
  * `LoadedStaysCurrent`: `LoadedInv` adds that what is loaded was read after an
    edit there was.
  * `TurnIsBuilt`: `TurnInv`, the agent of a turn is a function of its files, its
    trust and its switches; `AutoApprovedStaysConfined` and `UntrustedIsUnread`
    compare that function with the loaded configuration, and with the files of the
    repository taken away.
  * `RepositoryOnlyTightens`: by `FilesInv` the files are of the schema. The seven
    layers are folded by a recursive function over seven places, which is unfolded
    and needs no induction; that the floor finds the operator's own value does need
    that a set of numbers has a least one (`HasMin`, from the well-foundedness of
    finite subsets).
  * `HooksWereApproved`: `GateInv` adds that what is on the gate was neither
    approved nor declined, so that an answer never makes a hook both.
* `HeadlessRunProofs` (any command lines and machines):
  * `FlagsTakeEffect`: `ParsedInv` carries what the parser gave to where it is used.
  * `TurnIsServed`: `RoutedInv` adds that the first resolution found a sign-in if and
    only if there is one where it looked (`ProbedWell`), as long as the store is as it
    was. The second resolution looks elsewhere, and finds the same for two reasons:
    where it hides the keys, a sign-in that was found beside keys is still found
    (`HiddenKeys`); where it does not, it looks where the first did.
  * `EndsCleanedUp`: `EndInv` follows each agent to the task that disposes of it
    (`AgentsInv`) and the word of a goal to the task that waits for it (`GoalInv`).
  * `StdoutIsTheAnswer` and `ReportHolds`: `TurnInv` relates the stream as it
    arrived to what the processor has heard (`HeardInv`), what a pass still holds
    (`PassInv`), what was printed (`OutInv`) and whom an error blames (`BlameInv`).
    It is needed since neither property speaks of a run that is still streaming,
    and since a chunk that is held back is heard late, or never.
  * `CutsTold`: the step is `ComposeTells`, about `Compose` and no state. `Tells` is
    what joining preserves: a text has a notice, or holds exactly what was asked for.
    `AssembleTells` shows it of a list of rules, `DocumentTells` of the project
    document, and `Uncut` carries it through the three cuts of `withinBudget`. Sums
    and joined texts are recursive functions on `0 .. N`; that there are such
    functions (`Recursion`) and the inductions over their arguments (`UpTo`) come
    from the least number of a set (`LeastOf`), since the library's induction
    theorems take an operator and cannot be cited.

Two hypotheses narrow theorems. `OneSweeper`: two sweeps that listed together spend
one quota twice, and two that see two transcripts of one date may each keep another
(`sweep` and `project_sweep` have one sweeper for the same reason; what two sweeps do
to one quota is therefore not covered). And a quota
of one for `Collects` of the sweep of all projects. The constants' assumptions are
the `ASSUME`s of the modules, which TLC evaluates in every run: that a session
belongs to a project, that sentinels differ from what they stand beside, that bounds
are numbers, that files, command lines and machines are of the kinds the code reads
(`DocumentsAssumption`, `StartAssumption`, `StartsAssumption`, `BudgetsAssumption`).

Model-checked only: every safety invariant and action property of the passing runs
is a theorem; liveness (`SweepEnds`, `StopReachesLoop`) and ENABLED are out of the
prover's reach.

## 5. Findings

Runs that are expected to be violated quote a line of the repository that the
code contradicts; `PROJECT.json` has the details.

* `newest_deleted`: an orphan of a 4.x name is removed by a path of the other
  namespace (`per-session.ts:228`). The apply phase compares the candidate's own name
  with the newest transcript's, lets it pass, and unlinks the newest, of which its
  message says that it "must never be deleted"; the candidate stays and is reported
  removed. It takes a machine that was upgraded from 4.x and a session that was
  continued under the new name and has no entry in the registry.
* `goal_owns_agent`: the `finally` of a loop that was told to stop ends the
  record and clears the ref of the goal that came after it. Every theorem about
  the goal is therefore conditional on `~usurped`, a history variable that says
  whether that has happened.
* `sandbox_confirm`: `/sandbox` asks for a confirmation before it loosens, by
  comparing the mode asked for with the one in force; what it is given as the one
  in force is the label of the screen, which is no mode, so nothing is ever a
  loosening.

Seen while modelling, with no run of their own. What the properties' exceptions
name (history variables in brackets) is among them.

Sweeps and sessions:
- the pointers are read once before the loop that removes, where the comment
  says "at the last moment" (`PointerWindow` is what holds); a turn that opens
  and closes between a sweep's listing and the backstop leaves its transcript in
  the plan; two concurrent sweeps and one turn leave fewer transcripts than
  `keepLast`; the transcript of an archived session goes through `Agent.delete`,
  which leaves the file, and is reported removed;
- the apply phase of the per-session sweep compares the pointer's session id with
  transcripts' names (`project_sweep`, `since`); by the way of `newest_deleted` the
  transcript of a session that was archived, whose registry entry was not listed, goes
  under its running writer (the exception for 4.x names in `LiveSessionsKept`); `sessions gc` never asks whose
  the root is; a failing removal inside the framework is "already gone";
- the first, dry sweep counts as the operator's look although it may never have
  reported.

The TUI's session and goal:
- `/archive` of the current session, and `/resume`, switch without the reset
  `/new` makes (`mixed`); `/fork`, `/archive` and a `/resume` that lands late
  switch the session under a running turn, although `resume-command.ts` says why
  one must not (`left`); a history read again after a fork, or while a turn opens,
  is drawn twice; a compaction, or a switch, that lands while the ladder is open
  makes the rewind cut elsewhere, or fail (`moved`); a `/resume` whose listing
  rejects is caught by nobody;
- `/init` and a custom command reach the agent while a goal drives; what a goal's
  run used is lost when it throws or the process ends (`forgot`).

What a turn may do:
- `/sandbox` may loosen past the security floor: `sandbox-switch.ts:13` says that "It
  can only be set to a mode the SECURITY FLOOR already permits; `chat.ts` still
  applies that floor to the result", and `effective-config.ts:154` that "The security
  floor is NOT re-applied, and that is a decision". The code does the latter.
  `RepositoryTightensOnly` is of the files, profiles and environment, and leaves the
  switch out;
- full-auto approves by the configuration the session loaded
  (`use-tui-composition.ts:258`), the turn runs on the one it read itself and on
  the switch (the premises of `AutoApprovedIsConfined`);
- a hook is matched with its origin by command and event only
  (`build-handlers.ts:138`), so that one that was declined may run under the
  approval of another with the same two (what `HooksAreApproved` says is what
  holds);
- the screen is trusted before the trust is stored, and hooks of the project
  that become readable only then are not asked about; the toast of a grant that
  failed says that the session keeps its configuration, and every turn reads it
  again; `profiles` of a foreign settings file are dropped.

The console:
- a switch under a running turn leaves its question on the old session: nothing
  draws it until it lapses, which the comment of `wire` in `ask-bridge.ts` says
  cannot happen (`moved`); the question of a turn that ended stays and refuses
  later ones; Ctrl-C with a question and a card abandons a question that is
  hidden, and does not stop the turn;
- the demo's layer comes before the gated one, so that its keys work under a card
  (the exception in `KeysSpareTheAskedTurn`); an approval that lapsed unanswered
  stays in the ledger and its card goes on taking keys;
- a turn that runs across a rotation starts shells on the backend that was
  killed: nobody can list or stop them (`late`).

The command line:
- who signs in between the two resolutions of a run has a ChatGPT token sent to the
  provider of API keys (`machine.operator` in `ServedByItsCredential`), which is what
  the order of `resolveRunTarget` is there to prevent;
- `theocode constructor` does nothing and exits 0; `-o` of a goal is ignored;
  a signal in the drain prints the final message twice;
- `goal -m openai/...` is not routed for a ChatGPT sign-in; a key of another
  provider passes as openai's, since every prefix begins with `sk-`; the events of
  a forked turn name the session that was busy;
- `usage.ts` says that an interrupted run exits 1, `main.ts` that it exits 130,
  which it does; a goal that throws does not dispose of its agent; `doctor --cd` of
  a relative directory is resolved twice;
- the instructions cut by as much as they are long are kept whole
  (`agents-md.ts:219`, `slice(-0)`), and a document is split at the first rule
  separator, whoever wrote it.

## 6. Not modelled, and what is left

Not modelled: the ownership marker of a transcript root (one write and one read);
`/rename`, `/login` and the panels that only read; the list of failures behind
`/mcp`; the run of a squad, which is the SDK's (its roles and their tools are
modelled); the prompt and the parsing of a review; the texts of memories, skills
and prompts; rendering, theme, clipboard and formatting, which keep no state that
another part decides on; the SDK itself, which is modelled only as its callers
meet it and marked external. The parsing of a settings file and of a slash
command is modelled by its outcome.

Left, most valuable first: two sweepers on one quota, with the bound that does hold;
the directory of a project between its making and its first record, once the
framework's order is known; the approvals' ledger and the bridge as
implementations of one abstract "each thing that is asked is answered at most once"; a second process in `TurnAuthority`, for grants made by another
terminal.
