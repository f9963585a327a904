---------------------------- MODULE HeadlessRun ----------------------------
(***************************************************************************)
(* One process of the headless command line (cli/src/main.ts and           *)
(* cli/src/commands): from its arguments to its exit code.  The model      *)
(* follows main() through its modes; `run` and `resume` down to the chunks *)
(* of the turn, `goal` and `review` down to the life of their agent.       *)
(*                                                                         *)
(* The surroundings are a machine, [env, store, operator, asked, config,   *)
(* docs, chunks]: the environment and the credential store of Credentials, *)
(* whether the operator is near another terminal, where she may sign in or *)
(* out, or has done so, the model ids of -m and of the configuration, the  *)
(* documents of Instructions, and the bound on the chunks of content in a  *)
(* pass.                                                                   *)
(* Everything else that is answered by the disk, git, the provider or the  *)
(* operator is a choice of the step that asks.                             *)
(***************************************************************************)
EXTENDS CliArgs, Credentials, Instructions, ExecEvents

CONSTANTS
  Starts,       \* the pairs [line, machine] a process may begin with
  MaxRetries    \* rate_limit events in a pass

ASSUME BoundsAssumption == MaxRetries \in Nat \ {0}

ModelIds == [route : STRING, name : STRING]

ASSUME StartsAssumption ==
  \A start \in Starts :
    /\ start.line.words \in Seq(STRING)
    /\ DOMAIN start.machine = {"env", "store", "operator", "asked", "config", "docs", "chunks"}
    /\ start.machine.operator \in {"away", "near"}
    /\ {start.machine.asked, start.machine.config} \subseteq ModelIds
    /\ start.machine.docs \in Documents

VARIABLES
  line,      \* process.argv, until it is parsed
  machine,   \* the surroundings
  args,      \* ExecArgs
  phase,     \* where main() is
  code,      \* the exit code recorded or exited with
  printed,   \* what went to stdout and to stderr
  agent,     \* what the turn is built with
  session,   \* the session it runs in
  turn,      \* the stream, what consumes it and what it has delivered
  cleanup,   \* the shutdown: [tasks, sent, left, aborted, settled, gaveUp]
  alive      \* the agents nobody has disposed of yet: "goal", "reviewer"

vars == <<line, machine, args, phase, code, printed, agent, session, turn, cleanup, alive>>
input == <<line, machine, args>>
work == <<agent, session, turn>>
end == <<cleanup, alive>>

NoLine == [flags |-> {}, bad |-> {}, approval |-> "", config |-> <<>>, words |-> <<>>,
           tty |-> FALSE, unknown |-> FALSE]
NoAgent == [probe |-> NoCredential, cred |-> NoCredential, model |-> [route |-> "", name |-> ""],
            text |-> <<>>, cuts |-> {}, warned |-> FALSE]
NoSession == [id |-> "", forks |-> 0, begun |-> FALSE]
NoTurn == [proc |-> NewProcessor(FALSE), pass |-> NewPass(FALSE), attempts |-> 0,
           stream |-> <<>>, thrown |-> FALSE]
NoCleanup == [tasks |-> {}, sent |-> FALSE, left |-> {}, aborted |-> FALSE, settled |-> FALSE,
              gaveUp |-> FALSE]

Init ==
  /\ \E start \in Starts : line = start.line /\ machine = start.machine
  /\ args = Error
  /\ phase = "line"
  /\ code = ""
  /\ printed = Nothing
  /\ agent = NoAgent
  /\ session = NoSession
  /\ turn = NoTurn
  /\ cleanup = NoCleanup
  /\ alive = {}

Prints(items) == printed' = printed ++ items

(* process.exit, and main().catch for what nothing else catches.           *)
Exit(with) == phase' = "exited" /\ code' = with
Throw == Exit("1") /\ Prints(Err("ERROR", 0))
Go(to) == phase' = to /\ UNCHANGED code

-----------------------------------------------------------------------------
(* main, up to the mode.                                                   *)

Parse ==
  /\ phase = "line"
  /\ args' = ParseExecArgs(line)
  /\ CASE args'.mode = "error" -> Exit("1") /\ Prints(Err("usage", 0))
       [] args'.mode \in {"version", "help"} -> Exit("0") /\ Prints(Out(args'.mode, 0))
       [] OTHER -> Go("parsed") /\ UNCHANGED printed
  /\ UNCHANGED <<line, machine, work, end>>

(* process.chdir throws where there is no such directory.  The bootstrap,  *)
(* which follows for every mode but migrate-config, warns of what it       *)
(* cannot read and goes on.                                                *)
Chdir ==
  /\ phase = "parsed"
  /\ line' = NoLine
  /\ \/ Go("moved") /\ UNCHANGED printed
     \/ "cd" \in args.carried /\ Throw
  /\ UNCHANGED <<machine, args, work, end>>

Report(words) == Prints(IF "json" \in args.carried THEN Out(words, 0) ELSE Err(words, 0))

(* sessionsCommand.  A sweep reports and exits by its errors, and what an  *)
(* operation throws is told on stderr.  Of a deletion the report and the   *)
(* code both say when the entry is still registered; a fork of a session   *)
(* that has no transcript exits without a report.                          *)
Sessions ==
  /\ phase = "moved"
  /\ args.mode = "sessions"
  /\ \/ Exit("0") /\ Report("report")
     \/ args.action \in {"gc", "delete"} /\ Exit("1") /\ Report("report")
     \/ Exit("1") /\ Prints(Err("error", 0))
  /\ UNCHANGED <<input, work, end>>

(* doctorCommand exits by the verdict of its checks, or as main does.      *)
Doctor ==
  /\ phase = "moved"
  /\ args.mode = "doctor"
  /\ \/ \E verdict \in {"0", "1"} : Exit(verdict) /\ Report("checks")
     \/ Throw
  /\ UNCHANGED <<input, work, end>>

(* migrateConfigCommand goes on to the next file when one fails, says each *)
(* on stdout and exits by the failures.                                    *)
MigrateConfig ==
  /\ phase = "moved"
  /\ args.mode = "migrate-config"
  /\ \E skipped, converted \in BOOLEAN :
        /\ Exit(IF skipped THEN "1" ELSE "0")
        /\ Prints((IF converted THEN Out("converted", 0) ELSE Nothing)
                    ++ (IF skipped THEN Out("SKIPPED", 0) ELSE Nothing)
                    ++ (IF skipped \/ converted THEN Nothing ELSE Out("nothing-to-convert", 0)))
  /\ UNCHANGED <<input, work, end>>

(* gitGate.                                                                *)
GitGate ==
  /\ phase = "moved"
  /\ args.mode \in {"run", "resume", "goal", "review", "none"}
  /\ \/ /\ IF args.mode = "none" THEN Exit("0")
           ELSE Go(IF args.mode = "resume" THEN "run" ELSE args.mode)
        /\ UNCHANGED printed
     \/ /\ "skip-git-repo-check" \notin args.carried
        /\ Exit("1")
        /\ Prints(Err("not-inside-a-git-repository", 0))
  /\ UNCHANGED <<input, work, end>>

-----------------------------------------------------------------------------
(* runCommand.                                                             *)

(* readPrompt: a line that leaves the prompt to stdin needs something there. *)
ReadPrompt ==
  /\ phase = "run"
  /\ \/ Go("probing") /\ UNCHANGED printed
     \/ args.stdin \in {"required", "forced"} /\ Exit("1") /\ Prints(Err("no-prompt-provided", 0))
  /\ UNCHANGED <<input, work, end>>

Requested == IF "model" \in args.carried THEN machine.asked ELSE machine.config
Renewals == {"renewed", "passing", "refused"}

(* resolveRunTarget: what the credential is decides the route, and then    *)
(* the credential is resolved again, for the id the agent is built on.     *)
Probe ==
  /\ phase = "probing"
  /\ \E renewal \in Renewals :
        LET found == IF "model" \in args.carried
                     THEN ResolveForModel(machine.asked, machine.env, machine.store, renewal)
                     ELSE ResolveFresh(machine.env, machine.store, renewal)
        IN IF Usable(found)
           THEN Go("composing") /\ agent' = [agent EXCEPT !.probe = found] /\ UNCHANGED printed
           ELSE Throw /\ UNCHANGED agent
  /\ UNCHANGED <<input, session, turn, end>>

(* composeRun: a configuration that does not resolve, or a model nobody    *)
(* serves, is refused.                                                     *)
ComposeRun ==
  /\ phase = "composing"
  /\ LET composed == Compose(machine.docs)
     IN \/ /\ ~OverridesFail(args.overrides)
           /\ Go("credential")
           /\ agent' = [agent EXCEPT !.model = RouteToCredential(agent.probe, Requested),
                                     !.text = composed.text, !.cuts = composed.cuts,
                                     !.warned = composed.warned]
           /\ UNCHANGED printed
        \/ Throw /\ UNCHANGED agent
  /\ UNCHANGED <<input, session, turn, end>>

ResolveAgain ==
  /\ phase = "credential"
  /\ \E renewal \in Renewals :
        LET found == ResolveForModel(agent.model, machine.env, machine.store, renewal)
        IN IF Usable(found)
           THEN Go("opening") /\ agent' = [agent EXCEPT !.cred = found] /\ UNCHANGED printed
           ELSE Throw /\ UNCHANGED agent
  /\ UNCHANGED <<input, session, turn, end>>

(* The operator signs in or out from another terminal meanwhile.           *)
Signed(store) ==
  {Logout(store), DeviceLogin(NoCredential, store, FALSE)}
    \union {Login(store, "openrouter", given, overwrite) :
              given \in {"", "openai"}, overwrite \in BOOLEAN}

OperatorSigns ==
  /\ machine.operator = "near"
  /\ phase \in {"composing", "credential"}
  /\ \E store \in Signed(machine.store) :
        machine' = [machine EXCEPT !.store = store, !.operator = "signed"]
  /\ UNCHANGED <<line, args, phase, code, printed, work, end>>

(* resolveSession and availableIdOrFork.  A listing that fails is taken for *)
(* an empty one, unless it is for pages that were not drained.             *)
Resolved ==
  IF args.mode = "run" THEN {[id |-> "new", begun |-> TRUE]}
  ELSE IF args.resume = "id" THEN {[id |-> "given", begun |-> FALSE]}
  ELSE {[id |-> "latest", begun |-> FALSE], [id |-> "new", begun |-> TRUE]}

OpenTurn(json, emit) ==
  [proc |-> NewProcessor(json), pass |-> NewPass(emit), attempts |-> 0, stream |-> <<>>,
   thrown |-> FALSE]

(* The processor speaks as soon as it is made, and its end is registered   *)
(* with the shutdown.                                                      *)
OpenSession ==
  /\ phase = "opening"
  /\ \/ /\ \E found \in Resolved, leased \in BOOLEAN :
              /\ leased => found.id # "new"
              /\ session' = [id |-> found.id, begun |-> found.begun,
                             forks |-> IF leased THEN 1 ELSE 0]
        /\ Go("streaming")
        /\ turn' = OpenTurn("json" \in args.carried, FALSE)
        /\ Prints(Opened("json" \in args.carried))
        /\ cleanup' = [cleanup EXCEPT !.tasks = {"finish-processor"}]
     \/ /\ args.resume = "last"
        /\ Throw
        /\ UNCHANGED <<session, turn, cleanup>>
  /\ agent' = NoAgent
  /\ UNCHANGED <<input, alive>>

-----------------------------------------------------------------------------
(* The stream.  The framework opens with a structural chunk, says that the *)
(* session is busy before any content and then ends, and closes with a     *)
(* finish.                                                                 *)
At(chunks) == {i \in DOMAIN turn.stream : turn.stream[i] \in chunks}
Amount(chunks) == Cardinality(At(chunks))
Latest == IF At(Chunks) = {} THEN "" ELSE turn.stream[Max(At(Chunks))]

CanArrive(chunk) ==
  /\ Latest \notin {"busy", "finish", "unused"}
  /\ Latest = "" <=> chunk = "start"
  /\ chunk = "busy" => Latest = "start" /\ session.id # "new"
  /\ chunk = "output" => Latest \in Tools
  /\ chunk \in Content => Latest # "error" /\ Amount(Content) < machine.chunks

(* consumeWithForkIfBusy opens the second stream as it opened the first:   *)
(* perTurnStream sets the attempts back.                                   *)
SecondPass_Counting ==
  [turn EXCEPT !.pass = NewPass(TRUE), !.stream = <<>>]

SecondPass ==
  [turn EXCEPT !.pass = NewPass(TRUE), !.stream = <<>>, !.attempts = 0]

Streaming == phase = "streaming" /\ UNCHANGED <<input, agent, end>>

RateLimited ==
  /\ Streaming
  /\ Amount({"retry"}) < MaxRetries
  /\ Latest \notin {"busy", "finish", "unused"}
  /\ turn' = [turn EXCEPT !.stream = Append(@, "retry"),
                          !.attempts = Highest(@, Amount({"retry"}) + 1)]
  /\ UNCHANGED <<phase, code, printed, session>>

ChunkArrives ==
  /\ Streaming
  /\ \E chunk \in Chunks :
        LET over == HandedOver(turn.pass, chunk)
            before == HeardAll(turn.proc, turn.pass.held)
        IN /\ CanArrive(chunk)
           /\ turn' = [turn EXCEPT !.stream = Append(@, chunk), !.pass = Taken(@, chunk),
                                   !.proc = HeardAll(@, over)]
           /\ IF over = <<>> THEN UNCHANGED printed
              ELSE Prints(Said(before, chunk, AttemptsNamed(turn.attempts)))
  /\ UNCHANGED <<phase, code, session>>

(* The stream ends: the turn is over, or the session is another's and a    *)
(* fork of it is opened, once.                                             *)
StreamEnds ==
  /\ Streaming
  /\ Latest \in {"busy", "finish", "unused", "error"}
  /\ IF ~turn.pass.contended
     THEN /\ Go("finishing")
          /\ turn' = [turn EXCEPT !.proc = HeardAll(@, LeftOver(turn.pass))]
          /\ UNCHANGED <<printed, session>>
     ELSE IF turn.pass.emit
     THEN Go("finishing") /\ turn' = [turn EXCEPT !.thrown = TRUE] /\ UNCHANGED <<printed, session>>
     ELSE /\ UNCHANGED <<phase, code>>
          /\ Prints(Err("forking", 0))
          /\ session' = [session EXCEPT !.forks = @ + 1]
          /\ turn' = SecondPass

StreamThrows ==
  /\ Streaming
  /\ Go("finishing")
  /\ turn' = [turn EXCEPT !.thrown = TRUE]
  /\ UNCHANGED <<printed, session>>

(* The rest of runCommand: the answer, what git holds of it, the file of   *)
(* -o, which may fail, and the exit code, which the draining output keeps. *)
Status == IF turn.thrown THEN "error" ELSE "finished"

FinishRun ==
  /\ phase = "finishing"
  /\ LET p == Finished(turn.proc, Status)
         empty == EmptyTurn(p, Status)
     IN /\ phase' = "draining"
        /\ code' = IF p.errorSeen \/ empty THEN "1" ELSE "0"
        /\ turn' = [turn EXCEPT !.proc = p]
        /\ \E diff \in {"same", "diff", "unavailable"}, written \in BOOLEAN :
              Prints((IF turn.thrown /\ ~p.json THEN Err("ERROR", 0) ELSE Nothing)
                      ++ FinalWords(turn.proc, Status, diff)
                      ++ (IF empty THEN Err("never-called", 0) ELSE Nothing)
                      ++ (IF "output-last-message" \in args.carried /\ ~written
                          THEN Err("-o", 0) ELSE Nothing))
  /\ UNCHANGED <<input, agent, session, end>>

Drained == phase = "draining" /\ Exit(code) /\ UNCHANGED <<input, printed, work, end>>

-----------------------------------------------------------------------------
(* goalCommand: what resolving throws is main's to report; from there on   *)
(* the command reports it.  The agent is disposed of before the outcome is *)
(* said, unless the goal threw.                                            *)
Register(tasks) == cleanup' = [cleanup EXCEPT !.tasks = @ \union tasks]

BuildGoal ==
  /\ phase = "goal"
  /\ \/ Go("pursuing") /\ alive' = {"goal"} /\ Register({"goal-cancellation", "dispose-goal-agent"})
          /\ UNCHANGED printed
     \/ Throw /\ UNCHANGED <<cleanup, alive>>
     \/ phase' = "draining" /\ code' = "1" /\ Prints(Err("ERROR", 0)) /\ UNCHANGED <<cleanup, alive>>
  /\ UNCHANGED <<input, work>>

Settled == [cleanup EXCEPT !.settled = TRUE]

PursueGoal ==
  /\ phase = "pursuing"
  /\ UNCHANGED <<input, work>>
  /\ \/ Go("reporting") /\ alive' = {} /\ UNCHANGED <<printed, cleanup>>
     \/ /\ phase' = "draining"
        /\ code' = "1"
        /\ Prints(Err("ERROR", 0))
        /\ cleanup' = Settled
        /\ UNCHANGED alive

ReportGoal ==
  /\ phase = "reporting"
  /\ phase' = "draining"
  /\ code' \in {"0", "1"}
  /\ Prints(Out("outcome", 0) ++ Err("goal-status", 0))
  /\ cleanup' = Settled
  /\ UNCHANGED <<input, work, alive>>

-----------------------------------------------------------------------------
(* reviewCommand: an approval policy is refused, there being nothing to    *)
(* approve.  The reviewer is discarded whatever became of the review; what *)
(* it answered is a review or is refused as none.                          *)
AsksApproval == \E i \in DOMAIN args.overrides : args.overrides[i].key = "approval_policy"

CreateReviewer ==
  /\ phase = "review"
  /\ UNCHANGED <<input, work>>
  /\ \/ AsksApproval /\ Exit("2") /\ Prints(Err("approval", 0)) /\ UNCHANGED end
     \/ ~AsksApproval /\ Throw /\ UNCHANGED end
     \/ /\ ~AsksApproval
        /\ Go("reviewing")
        /\ alive' = {"reviewer"}
        /\ Register({"discard-review"})
        /\ UNCHANGED printed

ReviewEnds ==
  /\ phase = "reviewing"
  /\ \E to \in {"reviewed", "unreadable"} : Go(to)
  /\ alive' = {}
  /\ UNCHANGED <<input, printed, work, cleanup>>

ReportReview ==
  /\ \/ phase = "reviewed" /\ Exit("0") /\ Prints(Out("review", 0) ++ Err("findings", 0))
     \/ phase = "unreadable" /\ Throw
  /\ UNCHANGED <<input, work, end>>

-----------------------------------------------------------------------------
(* The shutdown.  A signal starts every task that is registered, in an     *)
(* order that is the framework's, and the process exits when they are all  *)
(* done, or when the watchdog has seen enough; meanwhile main goes on.     *)
(* With no task there is nothing to wait for.                              *)
Interrupt ==
  /\ phase \notin {"line", "exited"}
  /\ ~cleanup.sent
  /\ cleanup' = [cleanup EXCEPT !.sent = TRUE, !.left = cleanup.tasks]
  /\ IF cleanup.tasks = {} THEN Exit("130") ELSE UNCHANGED <<phase, code>>
  /\ UNCHANGED <<input, printed, work, alive>>

Done(task) == cleanup' = [cleanup EXCEPT !.left = @ \ {task}]
Task(task) == phase # "exited" /\ task \in cleanup.left /\ UNCHANGED <<input, phase, code, agent, session>>

FinishInterrupted ==
  /\ Task("finish-processor")
  /\ Done("finish-processor")
  /\ Prints((IF turn.proc.json THEN Nothing ELSE Err("ERROR", 0)) ++ FinalWords(turn.proc, "error", "same"))
  /\ turn' = [turn EXCEPT !.proc = Finished(@, "error")]
  /\ UNCHANGED alive

(* createGoalCancellation: the goal is aborted, and its end waited for up  *)
(* to half of the watchdog's time.                                         *)
AbortGoal ==
  /\ Task("goal-cancellation")
  /\ ~cleanup.aborted
  /\ cleanup' = [cleanup EXCEPT !.aborted = TRUE]
  /\ UNCHANGED <<printed, turn, alive>>

MayReturn_AtOnce == cleanup.aborted
MayReturn == cleanup.aborted /\ cleanup.settled

CancellationReturns ==
  /\ Task("goal-cancellation")
  /\ \/ MayReturn /\ Done("goal-cancellation")
     \/ /\ cleanup.aborted
        /\ ~cleanup.settled
        /\ cleanup' = [cleanup EXCEPT !.left = @ \ {"goal-cancellation"}, !.gaveUp = TRUE]
  /\ UNCHANGED <<printed, turn, alive>>

Dispose(task, whose) ==
  /\ Task(task)
  /\ Done(task)
  /\ alive' = alive \ {whose}
  /\ UNCHANGED <<printed, turn>>

ShutdownExits ==
  /\ cleanup.sent
  /\ phase # "exited"
  /\ Exit(IF cleanup.left = {} THEN "130" ELSE "hung")
  /\ UNCHANGED <<input, printed, work, end>>

Exited == phase = "exited" /\ UNCHANGED vars

Next ==
  \/ Parse \/ Chdir \/ Sessions \/ Doctor \/ MigrateConfig \/ GitGate
  \/ ReadPrompt \/ Probe \/ ComposeRun \/ ResolveAgain \/ OperatorSigns \/ OpenSession
  \/ RateLimited \/ ChunkArrives \/ StreamEnds \/ StreamThrows \/ FinishRun \/ Drained
  \/ BuildGoal \/ PursueGoal \/ ReportGoal
  \/ CreateReviewer \/ ReviewEnds \/ ReportReview
  \/ Interrupt \/ FinishInterrupted \/ AbortGoal \/ CancellationReturns
  \/ Dispose("dispose-goal-agent", "goal") \/ Dispose("discard-review", "reviewer")
  \/ ShutdownExits \/ Exited

Spec == Init /\ [][Next]_vars

-----------------------------------------------------------------------------
(* The properties.                                                         *)

(* A flag that means something to one command only is either used by the   *)
(* command that was run or refused: it is never read and dropped           *)
(* (SCOPED_FLAGS, args.ts).                                                *)
ScopedOptions ==
  {"last", "uncommitted", "base", "commit", "max-turns", "token-budget", "apply",
   "all-projects", "keep", "max-age-days"}

ScopedFlagsTakeEffect ==
  phase = "parsed" => line.flags \intersect ScopedOptions \subseteq args.carried

(* The route is chosen for one resolution and the turn is paid for by      *)
(* another, which may read other places: the first goes by the id of -m,   *)
(* or by none, the second by the routed one.  Nevertheless a ChatGPT       *)
(* sign-in is never sent to the provider of API keys, and a key is sent to *)
(* the ChatGPT provider only if that is the id that was asked for; unless  *)
(* the operator signed in or out between the two (resolveRunTarget).       *)
ServedByItsCredential ==
  phase = "opening" /\ machine.operator # "signed" =>
    /\ agent.cred = OAuth => IsChatGPT(agent.model)
    /\ IsChatGPT(agent.model) => agent.cred = OAuth \/ IsChatGPT(Requested)

(* Whatever of the instructions is left out of the prompt is said: by the  *)
(* notice a shortened set of rules ends with, by a cut of the composition, *)
(* or by a warning (assemble, withinBudget).                               *)
CutsAreTold ==
  agent.text # <<>> =>
    \/ ContentOf(agent.text) = Asked(machine.docs)
    \/ Holds(agent.text, "notice") \/ agent.cuts # {} \/ agent.warned

(* What a turn nobody interrupted leaves on stdout is, for a reader, the   *)
(* text after its last tool call and nothing else, once; and with --json,  *)
(* one turn that is opened first and closed last, as failed if and only if *)
(* an error was seen (usage.ts, createHumanProcessor,                      *)
(* createJsonlProcessor).                                                  *)
IsRun == args.mode \in {"run", "resume"}
Stdout == printed.out
AfterLastTool == Cardinality({i \in At({"text"}) : \A j \in At(Tools) : j < i})
Failed == turn.thrown \/ At({"error", "busy"}) # {}
Closing == {i \in DOMAIN Stdout : Stdout[i].what \in {"turn.completed", "turn.failed"}}

StdoutIsFinalMessage ==
  IsRun /\ phase = "exited" /\ ~cleanup.sent /\ session # NoSession =>
    IF turn.proc.json
    THEN /\ Stdout[1].what = "thread.started"
         /\ Closing = {Len(Stdout)}
         /\ (Last(Stdout).what = "turn.failed" <=> Failed)
    ELSE Stdout = IF AfterLastTool = 0 THEN <<>> ELSE Out("final", AfterLastTool).out

(* A run exits 0 if and only if the turn failed in nothing and either      *)
(* answered or spent tokens; and an error is blamed on as many attempts as *)
(* this turn made, whatever was made before the session was forked         *)
(* (silentEmptyTurnDiagnostic, perTurnStream).                             *)
Answered == AfterLastTool > 0 \/ At({"finish"}) # {}

ReportIsTrue ==
  /\ IsRun /\ phase = "exited" /\ ~cleanup.sent /\ session # NoSession =>
        (code = "0" <=> ~Failed /\ Answered)
  /\ IsRun /\ phase = "streaming" /\ ~turn.proc.json /\ turn.stream # <<>>
       /\ Last(turn.stream) = "error" /\ ~cleanup.sent =>
        Last(printed.err).n = AttemptsNamed(Amount({"retry"}))

(* A process that an interrupt ends has disposed of its agent, and a goal  *)
(* it ends has said how it stands unless that took half of the watchdog's  *)
(* time; a review that ends leaves no reviewer behind                      *)
(* (createGoalCancellation, createReviewAgent).                            *)
Spoke ==
  \E stream \in {printed.out, printed.err} :
    \E i \in DOMAIN stream : stream[i].what \in {"outcome", "ERROR"}

CleanedUp ==
  phase = "exited" =>
    /\ code \in {"0", "1", "130"} => "reviewer" \notin alive
    /\ code = "130" => alive = {}
    /\ code = "130" /\ cleanup.aborted => cleanup.gaveUp \/ Spoke
=============================================================================
