------------------------- MODULE HeadlessRunProofs -------------------------
(***************************************************************************)
(* What is proved of HeadlessRun for every set of command lines and        *)
(* machines a process may begin with.                                      *)
(*                                                                         *)
(*  - a flag of one command is used or refused: what the parser reads;     *)
(*  - a turn runs on the model its credential pays for;                    *)
(*  - what is left out of its instructions is said: ComposeTells, over the *)
(*    sums and the texts the composition is built of;                      *)
(*  - an interrupt leaves no agent behind and no goal without a word:      *)
(*    EndInv, which follows every agent to the task that disposes of it;   *)
(*  - what a run nobody interrupted prints, and what it exits with, are    *)
(*    its answer and its failures: TurnInv, which relates what the         *)
(*    processor has heard, what the pass still holds and what was printed  *)
(*    to the stream as it arrived.                                         *)
(***************************************************************************)
EXTENDS HeadlessRun, FiniteSetTheorems, SequenceTheorems, TLAPS

-----------------------------------------------------------------------------
(* The invariants.                                                         *)

(* The line is parsed once, and what is not refused goes on.               *)
ParsedInv ==
  /\ phase \in {"line", "parsed"} => line.words \in Seq(STRING)
  /\ phase = "parsed" =>
       /\ args = ParseExecArgs(line)
       /\ args.mode \notin {"error", "version", "help"}

(* The first resolution found a ChatGPT sign-in if and only if there is    *)
(* one to be found where it looked; the model is the one requested, routed *)
(* by what was found; and the second resolution finds what the route is    *)
(* for.                                                                    *)
Looked ==
  IF "model" \in args.carried /\ IsChatGPT(machine.asked)
  THEN StoreLocationOnly(machine.env) ELSE machine.env

ProbedWell ==
  phase \in {"composing", "credential"} /\ machine.operator # "signed" =>
    (agent.probe = OAuth <=> ResolveCredential(Looked, machine.store) = OAuth)

RoutedInv ==
  /\ DOMAIN machine = {"env", "store", "operator", "asked", "config", "docs", "chunks"}
  /\ {machine.asked, machine.config} \subseteq ModelIds
  /\ DOMAIN agent = {"probe", "cred", "model", "text", "cuts", "warned"}
  /\ phase = "credential" => agent.model = RouteToCredential(agent.probe, Requested)
  /\ ProbedWell
  /\ ServedByItsCredential

(* What the turn is told is what its documents compose to.                 *)
TextInv ==
  /\ machine.docs \in Documents
  /\ DOMAIN machine = {"env", "store", "operator", "asked", "config", "docs", "chunks"}
  /\ DOMAIN agent = {"probe", "cred", "model", "text", "cuts", "warned"}
  /\ CutsAreTold

(* The shutdown.                                                           *)
BeforeWork ==
  {"line", "parsed", "moved", "run", "probing", "composing", "credential", "opening", "goal",
   "review"}
Quiet == {"line", "parsed", "moved", "goal", "pursuing", "reporting"}
TaskOf == [goal |-> "dispose-goal-agent", reviewer |-> "discard-review"]

Tasks == {"finish-processor", "goal-cancellation", "dispose-goal-agent", "discard-review"}

CleanupType ==
  cleanup \in [tasks : SUBSET Tasks, sent : BOOLEAN, left : SUBSET Tasks, aborted : BOOLEAN,
               settled : BOOLEAN, gaveUp : BOOLEAN]

AgentsInv ==
  \A who \in alive :
    /\ who \in {"goal", "reviewer"}
    /\ phase # "exited" =>
         /\ TaskOf[who] \in cleanup.tasks
         /\ cleanup.sent => TaskOf[who] \in cleanup.left
    /\ who = "reviewer" => phase \in {"reviewing", "exited"}

TasksInv ==
  /\ phase \in BeforeWork => cleanup = NoCleanup /\ alive = {}
  /\ phase \in Quiet => printed = Nothing /\ "finish-processor" \notin cleanup.tasks
  /\ cleanup.left \subseteq cleanup.tasks
  /\ ~cleanup.sent => cleanup.left = {} /\ ~cleanup.aborted
  /\ phase = "draining" => code \in {"0", "1"}

GoalInv ==
  /\ cleanup.settled =>
       Spoke /\ phase \in {"draining", "exited"} /\ "finish-processor" \notin cleanup.tasks
  /\ phase # "exited" /\ cleanup.aborted =>
       "goal-cancellation" \in cleanup.left \/ cleanup.gaveUp \/ cleanup.settled

EndInv == CleanupType /\ AgentsInv /\ TasksInv /\ GoalInv /\ CleanedUp

(* The turn.                                                               *)
Procs ==
  [json : BOOLEAN, message : Nat, errorSeen : BOOLEAN, used : BOOLEAN, wrote : BOOLEAN,
   open : BOOLEAN]
Passes == [emit : BOOLEAN, held : Seq(Chunks), released : BOOLEAN, contended : BOOLEAN]
Streams == Seq(Chunks \union {"retry"})
Turns == [proc : Procs, pass : Passes, attempts : Nat, stream : Streams, thrown : BOOLEAN]
Whats ==
  {"thread.started", "turn.started", "item.started", "item.completed", "turn.failed",
   "turn.completed", "preamble", "tool", "done", "ERROR", "final", "diff", "unavailable",
   "status=error", "status=finished", "forking", "never-called", "-o"}
Items == [what : Whats, n : Nat]
Words == [out : Seq(Items), err : Seq(Items)]

In(stream, chunks) == {i \in DOMAIN stream : stream[i] \in chunks}
LatestOf(stream) == IF In(stream, Chunks) = {} THEN "" ELSE stream[Max(In(stream, Chunks))]
TextsAfterTools(stream) == {i \in In(stream, {"text"}) : \A j \in In(stream, Tools) : j < i}

TypeInv == turn \in Turns /\ printed \in Words

(* What the processor has heard is what has arrived, but for the tokens of *)
(* a finish that is still held.                                            *)
HeardInv(t) ==
  /\ t.proc.message = Cardinality(TextsAfterTools(t.stream))
  /\ t.proc.errorSeen <=> In(t.stream, {"error"}) # {}
  /\ t.proc.open <=> ~t.proc.errorSeen

(* What a pass holds and what it knows, by the latest chunk.               *)
PassInv(t, latest) ==
  /\ ~t.thrown
  /\ t.pass.contended <=> latest = "busy"
  /\ In(t.stream, {"busy"}) # {} <=> latest = "busy"
  /\ In(t.stream, {"finish"}) # {} <=> latest = "finish"
  /\ t.pass.emit \/ t.pass.released => t.pass.held = <<>>
  /\ t.pass.released /\ ~t.pass.emit => latest \notin {"", "start", "busy"}
  /\ ~t.pass.emit /\ ~t.pass.released =>
       /\ In(t.stream, Content) = {}
       /\ \/ latest = "" /\ t.pass.held = <<>>
          \/ latest \in {"start", "busy"} /\ t.pass.held = <<"start">>
          \/ latest \in {"finish", "unused"} /\ t.pass.held = <<"start", latest>>
  /\ t.proc.used => latest = "finish"
  /\ latest = "finish" => t.proc.used \/ t.pass.held # <<>>

(* The blame of an error, which names the attempts of this turn.           *)
BlameInv(t, err) ==
  /\ t.attempts = Cardinality(In(t.stream, {"retry"}))
  /\ ~t.proc.json /\ t.stream # <<>> /\ Last(t.stream) = "error" =>
       err # <<>> /\ Last(err).n = AttemptsNamed(t.attempts)

(* What is on stdout before the end.                                       *)
Ends(out) == {i \in DOMAIN out : out[i].what \in {"turn.completed", "turn.failed"}}

OutInv(t, out) ==
  IF t.proc.json
  THEN /\ out # <<>>
       /\ out[1].what = "thread.started"
       /\ Ends(out) = IF t.proc.open THEN {} ELSE {Len(out)}
       /\ ~t.proc.open => out[Len(out)].what = "turn.failed"
  ELSE out = <<>>

OverInv(t) ==
  ~t.thrown => /\ In(t.stream, {"busy"}) = {}
               /\ t.proc.used <=> In(t.stream, {"finish"}) # {}

EndedInv ==
  /\ IF turn.proc.json
     THEN /\ Stdout[1].what = "thread.started"
          /\ Closing = {Len(Stdout)}
          /\ (Last(Stdout).what = "turn.failed" <=> Failed)
     ELSE Stdout = IF AfterLastTool = 0 THEN <<>> ELSE Out("final", AfterLastTool).out
  /\ code = "0" <=> ~Failed /\ Answered

(* A signal makes no promise of what is printed.                           *)
TurnInv ==
  ~cleanup.sent =>
    /\ phase \in {"streaming", "finishing"} =>
         TypeInv /\ HeardInv(turn) /\ OutInv(turn, printed.out)
    /\ phase = "streaming" =>
         PassInv(turn, LatestOf(turn.stream)) /\ BlameInv(turn, printed.err)
    /\ phase = "finishing" => OverInv(turn)
    /\ phase \in {"draining", "exited"} /\ session # NoSession => EndedInv
    /\ phase \notin {"streaming", "finishing", "draining", "exited"} =>
         session = NoSession /\ (phase \in BeforeWork => printed = Nothing)

-----------------------------------------------------------------------------
(* The command line.                                                       *)

LEMMA PrefixOne ==
  ASSUME NEW w \in Seq(STRING), NEW a, IsPrefix(<<a>>, w)
  PROVE  Len(w) >= 1 /\ w[1] = a
<1>0. <<a>> \in Seq({a})
  OBVIOUS
<1>1. Len(<<a>>) = 1 /\ Len(w) \in Nat
  OBVIOUS
<1>2. Len(w) >= 1 /\ SubSeq(<<a>>, 1, 1) = SubSeq(w, 1, 1)
  BY <1>1 DEF IsPrefix
<1>3. SubSeq(w, 1, 1)[1] = w[1]
  BY <1>0, <1>1, <1>2
<1>4. SubSeq(<<a>>, 1, 1)[1] = a
  BY <1>0, <1>1
<1> QED  BY <1>2, <1>3, <1>4

LEMMA PrefixTwo ==
  ASSUME NEW w \in Seq(STRING), NEW a, NEW b, IsPrefix(<<a, b>>, w)
  PROVE  Len(w) >= 2 /\ w[1] = a /\ w[2] = b
<1>0. <<a, b>> \in Seq({a, b})
  OBVIOUS
<1>1. Len(<<a, b>>) = 2 /\ Len(w) \in Nat
  OBVIOUS
<1>2. Len(w) >= 2 /\ SubSeq(<<a, b>>, 1, 2) = SubSeq(w, 1, 2)
  BY <1>1 DEF IsPrefix
<1>3. SubSeq(w, 1, 2)[1] = w[1] /\ SubSeq(w, 1, 2)[2] = w[2]
  BY <1>0, <1>1, <1>2
<1>4. SubSeq(<<a, b>>, 1, 2)[1] = a /\ SubSeq(<<a, b>>, 1, 2)[2] = b
  BY <1>0, <1>1
<1> QED  BY <1>2, <1>3, <1>4

(* What a scoped flag is the flag of, once it has not been refused.        *)
LEMMA Applied ==
  ASSUME NEW l, l.words \in Seq(STRING), ~Misapplied(l), NEW f \in l.flags
  PROVE  /\ f = "last" => Word(l, 1) = "resume"
         /\ f \in {"uncommitted", "base", "commit"} => Word(l, 1) = "review"
         /\ f \in {"max-turns", "token-budget"} => Word(l, 1) = "goal"
         /\ f \in {"apply", "all-projects", "keep", "max-age-days"} =>
              Word(l, 1) = "sessions" /\ Word(l, 2) = "gc"
<1>1. f \in DOMAIN ScopedFlags => IsPrefix(ScopedFlags[f], l.words)
  BY DEF Misapplied
<1>2. ASSUME f = "last" PROVE Word(l, 1) = "resume"
  <2>1. f \in DOMAIN ScopedFlags /\ ScopedFlags[f] = <<"resume">>
    BY <1>2 DEF ScopedFlags
  <2>2. IsPrefix(<<"resume">>, l.words)
    BY <2>1, <1>1
  <2>3. Len(l.words) >= 1 /\ l.words[1] = "resume"
    BY <2>2, PrefixOne
  <2> QED  BY <2>3 DEF Word
<1>3. ASSUME f \in {"uncommitted", "base", "commit"} PROVE Word(l, 1) = "review"
  <2>1. f \in DOMAIN ScopedFlags /\ ScopedFlags[f] = <<"review">>
    BY <1>3 DEF ScopedFlags
  <2>2. IsPrefix(<<"review">>, l.words)
    BY <2>1, <1>1
  <2>3. Len(l.words) >= 1 /\ l.words[1] = "review"
    BY <2>2, PrefixOne
  <2> QED  BY <2>3 DEF Word
<1>4. ASSUME f \in {"max-turns", "token-budget"} PROVE Word(l, 1) = "goal"
  <2>1. f \in DOMAIN ScopedFlags /\ ScopedFlags[f] = <<"goal">>
    BY <1>4 DEF ScopedFlags
  <2>2. IsPrefix(<<"goal">>, l.words)
    BY <2>1, <1>1
  <2>3. Len(l.words) >= 1 /\ l.words[1] = "goal"
    BY <2>2, PrefixOne
  <2> QED  BY <2>3 DEF Word
<1>5. ASSUME f \in {"apply", "all-projects", "keep", "max-age-days"}
      PROVE  Word(l, 1) = "sessions" /\ Word(l, 2) = "gc"
  <2>1. f \in DOMAIN ScopedFlags /\ ScopedFlags[f] = <<"sessions", "gc">>
    BY <1>5 DEF ScopedFlags
  <2>2. IsPrefix(<<"sessions", "gc">>, l.words)
    BY <2>1, <1>1
  <2>3. Len(l.words) >= 2 /\ l.words[1] = "sessions" /\ l.words[2] = "gc"
    BY <2>2, PrefixTwo
  <2> QED  BY <2>3 DEF Word
<1> QED  BY <1>2, <1>3, <1>4, <1>5

(* The subcommand is chosen by the first word.                             *)
LEMMA Subcommands ==
  ASSUME NEW l, ~l.unknown, "version" \notin l.flags, "help" \notin l.flags,
         ~(Misapplied(l) \/ l.approval = "auto-edit")
  PROVE  /\ Word(l, 1) = "review" => ParseExecArgs(l) = ParseReview(l)
         /\ Word(l, 1) = "sessions" => ParseExecArgs(l) = ParseSessions(l)
         /\ Word(l, 1) = "goal" => ParseExecArgs(l) = ParseGoal(l)
         /\ Word(l, 1) = "resume" => ParseExecArgs(l) = ParseResumeOrPrompt(l)
<1>1. ASSUME Word(l, 1) = "review" PROVE ParseExecArgs(l) = ParseReview(l)
  BY <1>1, Zenon DEF ParseExecArgs, Inherited
<1>2. ASSUME Word(l, 1) = "sessions" PROVE ParseExecArgs(l) = ParseSessions(l)
  BY <1>2, Zenon DEF ParseExecArgs, Inherited
<1>3. ASSUME Word(l, 1) = "goal" PROVE ParseExecArgs(l) = ParseGoal(l)
  BY <1>3, Zenon DEF ParseExecArgs, Inherited
<1>4. ASSUME Word(l, 1) = "resume" PROVE ParseExecArgs(l) = ParseResumeOrPrompt(l)
  BY <1>4, Zenon DEF ParseExecArgs, Inherited
<1> QED  BY <1>1, <1>2, <1>3, <1>4

(* A line that is read as a command carries every scoped flag it has.      *)
LEMMA ParsedCarries ==
  ASSUME NEW l, l.words \in Seq(STRING),
         ParseExecArgs(l).mode \notin {"error", "version", "help"}
  PROVE  l.flags \intersect ScopedOptions \subseteq ParseExecArgs(l).carried
<1> DEFINE a == ParseExecArgs(l)
<1> SUFFICES ASSUME NEW f \in l.flags \intersect ScopedOptions PROVE f \in a.carried
  OBVIOUS
<1>0. Error.mode = "error" /\ \A m, c : Result(m, c).mode = m /\ Result(m, c).carried = c
  BY DEF Error, Result
<1>1. ~l.unknown /\ "version" \notin l.flags /\ "help" \notin l.flags /\ ~Misapplied(l)
      /\ l.approval # "auto-edit"
  BY <1>0 DEF ParseExecArgs
<1>2. /\ f = "last" => Word(l, 1) = "resume"
      /\ f \in {"uncommitted", "base", "commit"} => Word(l, 1) = "review"
      /\ f \in {"max-turns", "token-budget"} => Word(l, 1) = "goal"
      /\ f \in {"apply", "all-projects", "keep", "max-age-days"} =>
           Word(l, 1) = "sessions" /\ Word(l, 2) = "gc"
  BY <1>1, Applied
<1>3. CASE f = "last"
  <2>1. a = ParseResumeOrPrompt(l)
    BY <1>1, <1>2, <1>3, Subcommands
  <2>2. a.mode # "error"
    OBVIOUS
  <2>3. a.carried = Given(l, Common \union AsConfig \union
                       {"model", "output-last-message", "skip-git-repo-check", "last"})
    BY <1>0, <2>1, <2>2 DEF ParseResumeOrPrompt, Result
  <2> QED  BY <2>3, <1>3 DEF Given
<1>4. CASE f \in {"uncommitted", "base", "commit"}
  <2>1. a = ParseReview(l)
    BY <1>1, <1>2, <1>4, Subcommands
  <2>3. a.carried = Given(l, Common \union AsConfig
                   \union {"uncommitted", "base", "commit", "skip-git-repo-check"})
    BY <1>0, <2>1 DEF ParseReview, Result
  <2> QED  BY <2>3, <1>4 DEF Given
<1>5. CASE f \in {"max-turns", "token-budget"}
  <2>1. a = ParseGoal(l)
    BY <1>1, <1>2, <1>5, Subcommands
  <2>3. a.carried = Given(l, Common \union AsConfig \union
                 {"model", "skip-git-repo-check", "max-turns", "token-budget"})
    BY <1>0, <2>1 DEF ParseGoal, Result
  <2> QED  BY <2>3, <1>5 DEF Given
<1>6. CASE f \in {"apply", "all-projects", "keep", "max-age-days"}
  <2>1. a = ParseSessions(l)
    BY <1>1, <1>2, <1>6, Subcommands
  <2>3. a.carried = Given(l, Common \union {"apply", "all-projects", "keep", "max-age-days"})
    BY <1>0, <1>2, <1>6, <2>1 DEF ParseSessions, Result
  <2> QED  BY <2>3, <1>6 DEF Given
<1> QED  BY <1>3, <1>4, <1>5, <1>6 DEF ScopedOptions

(* Of the line, what Parse reads is what it is judged by.                  *)
LEMMA ParsedStep == ParsedInv /\ [Next]_vars => ParsedInv'
<1> SUFFICES ASSUME ParsedInv, [Next]_vars PROVE ParsedInv'
  OBVIOUS
<1>0. ASSUME UNCHANGED <<line, args>>, phase' \in {"line", "parsed"} => phase' = phase
      PROVE  ParsedInv'
  BY <1>0 DEF ParsedInv
<1>1. CASE Parse
  <2>1. phase = "line" /\ args' = ParseExecArgs(line) /\ line' = line /\ phase' # "line"
    BY <1>1 DEF Parse, Exit, Go
  <2>2. phase' = "parsed" => args'.mode \notin {"error", "version", "help"}
    <3>1. CASE args'.mode = "error"
      <4>1. Exit("1")
        BY <1>1, <3>1, Zenon DEF Parse
      <4> QED  BY <4>1 DEF Exit
    <3>2. CASE args'.mode \in {"version", "help"}
      <4>1. Exit("0")
        BY <1>1, <3>2, Zenon DEF Parse
      <4> QED  BY <4>1 DEF Exit
    <3> QED  BY <3>1, <3>2
  <2> QED  BY <2>1, <2>2 DEF ParsedInv
<1>2. CASE Chdir \/ Sessions \/ Doctor \/ MigrateConfig \/ GitGate
  BY <1>0, <1>2 DEF ParsedInv, Chdir, Sessions, Doctor, MigrateConfig, GitGate, Exit, Throw, Go, input
<1>3. CASE ReadPrompt \/ Probe \/ ComposeRun \/ ResolveAgain \/ OpenSession
  <2>1. phase' \notin {"line", "parsed"}
    BY <1>3 DEF ReadPrompt, Probe, ComposeRun, ResolveAgain, OpenSession, Exit, Throw, Go
  <2> QED  BY <2>1 DEF ParsedInv
<1>9. CASE OperatorSigns
  BY <1>0, <1>9 DEF OperatorSigns
<1>4. CASE RateLimited \/ ChunkArrives \/ StreamEnds \/ StreamThrows \/ FinishRun \/ Drained
  BY <1>0, <1>4 DEF RateLimited, ChunkArrives, StreamEnds, StreamThrows, FinishRun, Drained,
     Streaming, Exit, Go, input
<1>5. CASE BuildGoal \/ PursueGoal \/ ReportGoal \/ CreateReviewer \/ ReviewEnds \/ ReportReview
  BY <1>0, <1>5 DEF BuildGoal, PursueGoal, ReportGoal, CreateReviewer, ReviewEnds, ReportReview,
     Exit, Throw, Go, input
<1>6. CASE Interrupt \/ FinishInterrupted \/ AbortGoal \/ CancellationReturns \/ ShutdownExits
  BY <1>0, <1>6 DEF Interrupt, FinishInterrupted, AbortGoal, CancellationReturns, ShutdownExits,
     Task, Exit, input
<1>7. CASE Dispose("dispose-goal-agent", "goal") \/ Dispose("discard-review", "reviewer")
  BY <1>0, <1>7 DEF Dispose, Task, input
<1>8. CASE UNCHANGED vars
  BY <1>0, <1>8 DEF vars
<1> QED
  BY <1>1, <1>2, <1>3, <1>4, <1>5, <1>6, <1>7, <1>8, <1>9 DEF Next, Exited

(* No flag that means something to one command only is read and dropped:   *)
(* what any command line that is not refused scopes to a command is        *)
(* carried to it (SCOPED_FLAGS and flagAppliedToNoCommand of args.ts).     *)
THEOREM FlagsTakeEffect == Spec => []ScopedFlagsTakeEffect
<1>1. Init => ParsedInv
  BY StartsAssumption DEF Init, ParsedInv
<1>2. ParsedInv => ScopedFlagsTakeEffect
  BY ParsedCarries DEF ParsedInv, ScopedFlagsTakeEffect
<1> QED  BY <1>1, <1>2, ParsedStep, PTL DEF Spec

-----------------------------------------------------------------------------
(* The credential and the model.                                           *)

(* A ChatGPT sign-in is found only where no key is declared, so it is found *)
(* again where the keys are hidden.                                        *)
LEMMA HiddenKeys ==
  ASSUME NEW env, NEW store, ResolveCredential(env, store) = OAuth
  PROVE  ResolveCredential(StoreLocationOnly(env), store) = OAuth
<1> DEFINE asked(e) == {i \in DOMAIN Providers : /\ e.keys[Providers[i]] # ""
                                                 /\ e.pin \in {"", Providers[i]}}
           first(e) == Providers[Min(asked(e))]
           hidden == StoreLocationOnly(env)
<1>1. asked(hidden) = {}
  BY DEF StoreLocationOnly, ProviderNames, Range
<1>2. hidden.pin = ""
  BY DEF StoreLocationOnly
<1>3. \A e : ResolveCredential(e, store) =
        IF asked(e) # {}
        THEN IF PairMatches(Api(first(e), e.keys[first(e)]))
             THEN Api(first(e), e.keys[first(e)]) ELSE Refused
        ELSE IF Usable(store) /\ ~(PairMatches(store) /\ e.pin \in {"", store.provider})
             THEN Refused ELSE store
  BY Zenon DEF ResolveCredential
<1>4. Refused # OAuth /\ \A p, k : Api(p, k) # OAuth
  BY DEF Refused, OAuth, Api
<1> HIDE DEF asked, first, hidden
<1>5. store = OAuth
  BY <1>3, <1>4
<1>6. PairMatches(store)
  BY <1>5 DEF PairMatches, OAuth
<1>7. ResolveCredential(hidden, store) = store
  BY <1>1, <1>2, <1>3, <1>6
<1> QED  BY <1>5, <1>7 DEF hidden

(* A renewal makes no sign-in of anything else, and loses one only by      *)
(* refusing it.                                                            *)
LEMMA RenewedSame ==
  ASSUME NEW env, NEW store, NEW renewal
  PROVE  LET found == ResolveFresh(env, store, renewal)
         IN /\ found = OAuth => ResolveCredential(env, store) = OAuth
            /\ Usable(found) /\ ResolveCredential(env, store) = OAuth => found = OAuth
BY DEF ResolveFresh, Refused, OAuth, Usable

(* What the first resolution finds tells whether there is a sign-in where  *)
(* it looked.                                                              *)
LEMMA ProbeLooks ==
  ASSUME RoutedInv, Probe
  PROVE  RoutedInv'
<1>1. UNCHANGED <<machine, args>> /\ phase' \notin {"credential", "opening"}
  BY DEF Probe, Go, Throw, Exit, input
<1>2. DOMAIN agent' = DOMAIN agent
  BY DEF Probe
<1>3. CASE phase' = "composing"
  <2>1. PICK renewal \in Renewals :
          LET found == IF "model" \in args.carried
                       THEN ResolveForModel(machine.asked, machine.env, machine.store, renewal)
                       ELSE ResolveFresh(machine.env, machine.store, renewal)
          IN Usable(found) /\ agent' = [agent EXCEPT !.probe = found]
    BY <1>3 DEF Probe, Throw, Exit
  <2> DEFINE found == ResolveFresh(Looked, machine.store, renewal)
  <2>2. Usable(found) /\ agent' = [agent EXCEPT !.probe = found]
    BY <2>1 DEF Looked, ResolveForModel
  <2>3. agent'.probe = found
    BY <2>2 DEF RoutedInv
  <2>4. found = OAuth <=> ResolveCredential(Looked, machine.store) = OAuth
    BY <2>2, RenewedSame
  <2>5. Looked' = Looked
    BY <1>1 DEF Looked
  <2> HIDE DEF found
  <2>6. ProbedWell'
    BY <1>1, <2>3, <2>4, <2>5 DEF ProbedWell
  <2> QED  BY <1>1, <1>2, <2>6 DEF RoutedInv, ServedByItsCredential
<1>4. CASE phase' # "composing"
  BY <1>1, <1>2, <1>4 DEF RoutedInv, ProbedWell, ServedByItsCredential
<1> QED  BY <1>3, <1>4

(* The second resolution, for the routed id, finds what the route is for.  *)
LEMMA ResolvedWell ==
  ASSUME RoutedInv, ResolveAgain
  PROVE  RoutedInv'
<1>1. UNCHANGED <<machine, args>> /\ DOMAIN agent' = DOMAIN agent /\ phase = "credential"
  BY DEF ResolveAgain, input
<1>2. agent'.model = agent.model /\ agent'.probe = agent.probe /\ phase' \notin {"composing", "credential"}
  BY DEF ResolveAgain, RoutedInv, Go, Throw, Exit
<1>3. ASSUME phase' = "opening", machine.operator # "signed"
      PROVE  /\ agent'.cred = OAuth => IsChatGPT(agent.model)
             /\ IsChatGPT(agent.model) => agent'.cred = OAuth \/ IsChatGPT(Requested)
  <2>1. PICK renewal \in Renewals :
          LET found == ResolveForModel(agent.model, machine.env, machine.store, renewal)
          IN Usable(found) /\ agent' = [agent EXCEPT !.cred = found]
    BY <1>3 DEF ResolveAgain, Throw, Exit
  <2> DEFINE there == IF IsChatGPT(agent.model) THEN StoreLocationOnly(machine.env)
                      ELSE machine.env
             found == ResolveFresh(there, machine.store, renewal)
  <2>2. Usable(found) /\ agent'.cred = found
    BY <2>1 DEF ResolveForModel, RoutedInv
  <2>3. /\ found = OAuth => ResolveCredential(there, machine.store) = OAuth
        /\ ResolveCredential(there, machine.store) = OAuth => found = OAuth
    BY <2>2, RenewedSame
  <2>4. agent.probe = OAuth <=> ResolveCredential(Looked, machine.store) = OAuth
    BY <1>1, <1>3 DEF RoutedInv, ProbedWell
  <2>5. agent.model = RouteToCredential(agent.probe, Requested) /\ Requested \in ModelIds
    BY <1>1 DEF RoutedInv, Requested
  <2> HIDE DEF found
  <2>6. CASE IsChatGPT(Requested)
    <3>1. IsChatGPT(agent.model)
      BY <2>5, <2>6 DEF RouteToCredential, IsChatGPT, ModelIds
    <3> QED  BY <2>6, <3>1
  <2>7. CASE ~IsChatGPT(Requested)
    <3>1. Looked = machine.env
      BY <2>7 DEF Looked, Requested
    <3>2. CASE agent.probe = OAuth
      <4>1. IsChatGPT(agent.model)
        BY <2>5, <3>2 DEF RouteToCredential, IsChatGPT, ModelIds
      <4>2. ResolveCredential(there, machine.store) = OAuth
        BY <2>4, <3>1, <3>2, <4>1, HiddenKeys
      <4> QED  BY <2>2, <2>3, <4>1, <4>2
    <3>3. CASE agent.probe # OAuth
      <4>1. ~IsChatGPT(agent.model)
        BY <2>5, <2>7, <3>3 DEF RouteToCredential
      <4>2. ResolveCredential(there, machine.store) # OAuth
        BY <2>4, <3>1, <3>3, <4>1
      <4> QED  BY <2>2, <2>3, <4>1, <4>2
    <3> QED  BY <3>2, <3>3
  <2> QED  BY <2>6, <2>7
<1>4. ServedByItsCredential'
  BY <1>1, <1>2, <1>3 DEF ServedByItsCredential, Requested
<1> QED  BY <1>1, <1>2, <1>4 DEF RoutedInv, ProbedWell

LEMMA RoutedStep == RoutedInv /\ [Next]_vars => RoutedInv'
<1> SUFFICES ASSUME RoutedInv, [Next]_vars PROVE RoutedInv'
  OBVIOUS
<1>0. ASSUME UNCHANGED <<machine, args, agent>>,
             phase' \in {"composing", "credential", "opening"} => phase' = phase
      PROVE  RoutedInv'
  BY <1>0 DEF RoutedInv, Requested, ProbedWell, Looked, ServedByItsCredential
<1>1. CASE Parse \/ Chdir \/ Sessions \/ Doctor \/ MigrateConfig \/ GitGate
  <2>1. UNCHANGED <<machine, agent>> /\ phase' \notin {"composing", "credential", "opening"}
    BY <1>1 DEF Parse, Chdir, Sessions, Doctor, MigrateConfig, GitGate, Exit, Throw, Go, input, work
  <2> QED  BY <2>1 DEF RoutedInv, ProbedWell, ServedByItsCredential
<1>2. CASE ReadPrompt
  BY <1>0, <1>2 DEF ReadPrompt, Exit, Go, input, work
<1>3. CASE Probe
  BY <1>3, ProbeLooks
<1>4. CASE ComposeRun
  <2>1. /\ UNCHANGED <<machine, args>> /\ DOMAIN agent' = DOMAIN agent
        /\ phase = "composing" /\ phase' \notin {"composing", "opening"}
    BY <1>4 DEF ComposeRun, Go, Throw, Exit, input
  <2>2. phase' = "credential" =>
          agent'.model = RouteToCredential(agent.probe, Requested) /\ agent'.probe = agent.probe
    BY <1>4 DEF ComposeRun, Go, Throw, Exit, RoutedInv
  <2>3. ProbedWell'
    BY <2>1, <2>2 DEF RoutedInv, ProbedWell, Looked
  <2> QED  BY <2>1, <2>2, <2>3 DEF RoutedInv, Requested, ServedByItsCredential
<1>5. CASE ResolveAgain
  BY <1>5, ResolvedWell
<1>6. CASE OperatorSigns
  <2>1. UNCHANGED <<phase, args, agent>> /\ phase # "opening"
    BY <1>6 DEF OperatorSigns, work
  <2>2. PICK s : machine' = [machine EXCEPT !.store = s, !.operator = "signed"]
    BY <1>6, Zenon DEF OperatorSigns
  <2>3. /\ DOMAIN machine' = DOMAIN machine /\ machine'.operator = "signed"
        /\ machine'.asked = machine.asked /\ machine'.config = machine.config
    BY <2>2 DEF RoutedInv
  <2> QED  BY <2>1, <2>3 DEF RoutedInv, Requested, ProbedWell, ServedByItsCredential
<1>7. CASE OpenSession
  <2>1. /\ UNCHANGED machine /\ agent' = NoAgent
        /\ phase' \notin {"composing", "credential", "opening"}
    BY <1>7 DEF OpenSession, Go, Throw, Exit, input
  <2> QED  BY <2>1 DEF RoutedInv, NoAgent, ProbedWell, ServedByItsCredential
<1>8. CASE RateLimited \/ ChunkArrives \/ StreamEnds \/ StreamThrows \/ FinishRun \/ Drained
  BY <1>0, <1>8 DEF RateLimited, ChunkArrives, StreamEnds, StreamThrows, FinishRun, Drained,
     Streaming, Exit, Go, input, work
<1>9. CASE BuildGoal \/ PursueGoal \/ ReportGoal \/ CreateReviewer \/ ReviewEnds \/ ReportReview
  BY <1>0, <1>9 DEF BuildGoal, PursueGoal, ReportGoal, CreateReviewer, ReviewEnds, ReportReview,
     Exit, Throw, Go, input, work
<1>10. CASE Interrupt \/ FinishInterrupted \/ AbortGoal \/ CancellationReturns \/ ShutdownExits
  BY <1>0, <1>10 DEF Interrupt, FinishInterrupted, AbortGoal, CancellationReturns, ShutdownExits,
     Task, Exit, input, work
<1>11. CASE Dispose("dispose-goal-agent", "goal") \/ Dispose("discard-review", "reviewer")
  BY <1>0, <1>11 DEF Dispose, Task, input
<1>12. CASE UNCHANGED vars
  BY <1>0, <1>12 DEF vars
<1> QED
  BY <1>1, <1>2, <1>3, <1>4, <1>5, <1>6, <1>7, <1>8, <1>9, <1>10, <1>11, <1>12 DEF Next, Exited

(* A ChatGPT sign-in is never sent to the provider of API keys, and a key  *)
(* never to the ChatGPT provider of its own accord: whatever the ids, the  *)
(* environment, the store and the renewals of either resolution, unless    *)
(* the operator signs in or out between them (resolveRunTarget,            *)
(* routeToCredential, resolveCredentialForModel).                          *)
THEOREM TurnIsServed == Spec => []ServedByItsCredential
<1>1. Init => RoutedInv
  BY StartsAssumption DEF Init, RoutedInv, NoAgent, ProbedWell, ServedByItsCredential
<1>2. RoutedInv => ServedByItsCredential
  BY DEF RoutedInv
<1> QED  BY <1>1, <1>2, RoutedStep, PTL DEF Spec

-----------------------------------------------------------------------------
(* The shutdown.                                                           *)

(* What a step that touches neither the shutdown nor its agents leaves: it *)
(* goes on within its command, or the process is over with an exit code    *)
(* that no interrupt gave.                                                 *)
LEMMA EndFrame ==
  ASSUME EndInv, UNCHANGED <<cleanup, alive>>,
         phase' \in BeforeWork => phase \in BeforeWork,
         phase' \in Quiet => phase \in Quiet /\ printed' = printed,
         phase' = "draining" => code' \in {"0", "1"},
         cleanup.settled => printed' = printed /\ phase' \in {"draining", "exited"},
         phase # "exited", phase' = "exited" => code' \in {"0", "1", "2"},
         "reviewer" \in alive => phase' = "reviewing"
  PROVE  EndInv'
<1>1. CleanupType' /\ AgentsInv'
  BY DEF EndInv, CleanupType, AgentsInv
<1>2. TasksInv'
  BY DEF EndInv, TasksInv
<1>3. GoalInv'
  BY DEF EndInv, GoalInv, Spoke
<1>4. CleanedUp'
  BY DEF CleanedUp
<1> QED  BY <1>1, <1>2, <1>3, <1>4 DEF EndInv

(* The reviewer lives in its review only.                                  *)
LEMMA NoReviewer ==
  ASSUME EndInv, phase \notin {"reviewing", "exited"} PROVE "reviewer" \notin alive
BY DEF EndInv, AgentsInv

LEMMA NotSettled ==
  ASSUME EndInv, phase \notin {"draining", "exited"} PROVE ~cleanup.settled
BY DEF EndInv, GoalInv

(* The commands that have nothing to shut down.                            *)
LEMMA SmallCommandsEnd ==
  ASSUME EndInv, \/ Parse \/ Chdir \/ Sessions \/ Doctor \/ MigrateConfig \/ GitGate
                 \/ ReadPrompt \/ Probe \/ ComposeRun \/ ResolveAgain \/ OperatorSigns
  PROVE  EndInv'
<1>1. CASE Parse
  <2>1. UNCHANGED <<cleanup, alive>> /\ phase = "line"
    BY <1>1 DEF Parse, end
  <2>2. \/ phase' = "exited" /\ code' \in {"0", "1"}
        \/ phase' = "parsed" /\ printed' = printed
    <3>1. CASE args'.mode = "error"
      <4>1. Exit("1")
        BY <1>1, <3>1, Zenon DEF Parse
      <4> QED  BY <4>1 DEF Exit
    <3>2. CASE args'.mode \in {"version", "help"}
      <4>1. Exit("0")
        BY <1>1, <3>2, Zenon DEF Parse
      <4> QED  BY <4>1 DEF Exit
    <3>3. CASE args'.mode \notin {"error", "version", "help"}
      <4>1. Go("parsed") /\ UNCHANGED printed
        BY <1>1, <3>3, Zenon DEF Parse
      <4> QED  BY <4>1 DEF Go
    <3> QED  BY <3>1, <3>2, <3>3
  <2> QED  BY <2>1, <2>2, NoReviewer, NotSettled, EndFrame DEF BeforeWork, Quiet
<1>2. CASE Chdir
  <2>1. /\ UNCHANGED <<cleanup, alive>> /\ phase = "parsed"
        /\ \/ phase' = "exited" /\ code' = "1"
           \/ phase' = "moved" /\ printed' = printed
    BY <1>2 DEF Chdir, Throw, Exit, Go, end
  <2> QED  BY <2>1, NoReviewer, NotSettled, EndFrame DEF BeforeWork, Quiet
<1>3. CASE Sessions \/ Doctor \/ MigrateConfig
  <2>1. UNCHANGED <<cleanup, alive>> /\ phase = "moved" /\ phase' = "exited" /\ code' \in {"0", "1"}
    BY <1>3 DEF Sessions, Doctor, MigrateConfig, Throw, Exit, end
  <2> QED  BY <2>1, NoReviewer, NotSettled, EndFrame DEF BeforeWork, Quiet
<1>4. CASE GitGate
  <2>1. /\ UNCHANGED <<cleanup, alive>> /\ phase = "moved"
        /\ \/ phase' = "exited" /\ code' \in {"0", "1"}
           \/ phase' \in {"run", "goal", "review"} /\ printed' = printed
    BY <1>4 DEF GitGate, Exit, Go, end
  <2> QED  BY <2>1, NoReviewer, NotSettled, EndFrame DEF BeforeWork, Quiet
<1>5. CASE ReadPrompt \/ Probe \/ ComposeRun \/ ResolveAgain
  <2>1. /\ UNCHANGED <<cleanup, alive>>
        /\ phase \in {"run", "probing", "composing", "credential"}
        /\ \/ phase' = "exited" /\ code' = "1"
           \/ phase' \in {"probing", "composing", "credential", "opening"}
    BY <1>5 DEF ReadPrompt, Probe, ComposeRun, ResolveAgain, Throw, Exit, Go, end
  <2> QED  BY <2>1, NoReviewer, NotSettled, EndFrame DEF BeforeWork, Quiet
<1>6. CASE OperatorSigns
  <2>1. UNCHANGED <<phase, code, printed, cleanup, alive>> /\ phase \in {"composing", "credential"}
    BY <1>6, Zenon DEF OperatorSigns, end
  <2> QED  BY <2>1, NoReviewer, NotSettled, EndFrame DEF BeforeWork, Quiet
<1> QED  BY <1>1, <1>2, <1>3, <1>4, <1>5, <1>6

(* The turn: its only task is its own.                                     *)
LEMMA RunEnds ==
  ASSUME EndInv, \/ RateLimited \/ ChunkArrives \/ StreamEnds \/ StreamThrows \/ FinishRun
                 \/ Drained
  PROVE  EndInv'
<1>1. CASE RateLimited \/ ChunkArrives \/ StreamEnds \/ StreamThrows
  <2>1. /\ UNCHANGED <<cleanup, alive>> /\ phase = "streaming"
        /\ phase' \in {"streaming", "finishing"}
    BY <1>1 DEF RateLimited, ChunkArrives, StreamEnds, StreamThrows, Streaming, Go, end
  <2> QED  BY <2>1, NoReviewer, NotSettled, EndFrame DEF BeforeWork, Quiet
<1>2. CASE FinishRun
  <2>1. /\ UNCHANGED <<cleanup, alive>> /\ phase = "finishing"
        /\ phase' = "draining" /\ code' \in {"0", "1"}
    BY <1>2 DEF FinishRun, end
  <2> QED  BY <2>1, NoReviewer, NotSettled, EndFrame DEF BeforeWork, Quiet
<1>3. CASE Drained
  <2>1. /\ UNCHANGED <<printed, cleanup, alive>> /\ phase = "draining" /\ phase' = "exited"
        /\ code' = code
    BY <1>3 DEF Drained, Exit, end
  <2>2. code \in {"0", "1"}
    BY <2>1 DEF EndInv, TasksInv
  <2> QED  BY <2>1, <2>2, NoReviewer, EndFrame DEF BeforeWork, Quiet
<1> QED  BY <1>1, <1>2, <1>3

LEMMA OpenSessionEnds == ASSUME EndInv, OpenSession PROVE EndInv'
<1>1. phase = "opening" /\ alive' = alive /\ cleanup = NoCleanup /\ alive = {}
  BY DEF OpenSession, EndInv, TasksInv, BeforeWork
<1>2. CASE phase' = "exited" /\ code' = "1" /\ cleanup' = cleanup
  BY <1>1, <1>2, NotSettled, EndFrame DEF BeforeWork, Quiet
<1>3. CASE phase' = "streaming" /\ cleanup' = [cleanup EXCEPT !.tasks = {"finish-processor"}]
  <2>1. /\ cleanup' = [tasks |-> {"finish-processor"}, sent |-> FALSE, left |-> {}, aborted |-> FALSE,
                       settled |-> FALSE, gaveUp |-> FALSE]
    BY <1>1, <1>3 DEF NoCleanup
  <2>2. CleanupType'
    BY <2>1 DEF CleanupType, Tasks
  <2>3. AgentsInv' /\ CleanedUp'
    BY <1>1, <1>3 DEF AgentsInv, CleanedUp
  <2>4. TasksInv' /\ GoalInv'
    BY <1>3, <2>1 DEF TasksInv, GoalInv, BeforeWork, Quiet
  <2> QED  BY <2>2, <2>3, <2>4 DEF EndInv
<1> QED  BY <1>2, <1>3 DEF OpenSession, Go, Throw, Exit

(* The goal's end is known once it has been said.                          *)
LEMMA SettledEnds ==
  ASSUME EndInv, phase \in {"pursuing", "reporting"}, phase' = "draining", code' \in {"0", "1"},
         cleanup' = Settled, alive' = alive, Spoke'
  PROVE  EndInv'
<1>1. /\ cleanup'.tasks = cleanup.tasks /\ cleanup'.sent = cleanup.sent
      /\ cleanup'.left = cleanup.left /\ cleanup'.aborted = cleanup.aborted /\ cleanup'.settled
  BY DEF EndInv, CleanupType, Settled
<1>2. "finish-processor" \notin cleanup.tasks /\ "reviewer" \notin alive
  BY NoReviewer DEF EndInv, TasksInv, Quiet
<1>3. CleanupType'
  BY DEF EndInv, CleanupType, Settled
<1>4. AgentsInv' /\ CleanedUp'
  BY <1>1, <1>2 DEF EndInv, AgentsInv, CleanedUp
<1>5. TasksInv'
  BY <1>1 DEF EndInv, TasksInv, BeforeWork, Quiet
<1>6. GoalInv'
  BY <1>1, <1>2 DEF GoalInv
<1> QED  BY <1>3, <1>4, <1>5, <1>6 DEF EndInv

(* The goal: its agent and its two tasks come together.                    *)
LEMMA GoalEnds ==
  ASSUME EndInv, BuildGoal \/ PursueGoal \/ ReportGoal PROVE EndInv'
<1>1. CASE BuildGoal
  <2>1. phase = "goal" /\ cleanup = NoCleanup /\ alive = {} /\ printed = Nothing
    BY <1>1 DEF BuildGoal, EndInv, TasksInv, BeforeWork, Quiet
  <2>2. CASE /\ phase' = "pursuing" /\ alive' = {"goal"} /\ printed' = printed
             /\ cleanup' = [cleanup EXCEPT !.tasks = @ \union {"goal-cancellation", "dispose-goal-agent"}]
    <3>1. cleanup' = [tasks |-> {"goal-cancellation", "dispose-goal-agent"}, sent |-> FALSE,
                      left |-> {}, aborted |-> FALSE, settled |-> FALSE, gaveUp |-> FALSE]
      BY <2>1, <2>2 DEF NoCleanup
    <3>2. CleanupType'
      BY <3>1 DEF CleanupType, Tasks
    <3>3. AgentsInv' /\ CleanedUp'
      BY <2>2, <3>1 DEF AgentsInv, CleanedUp, TaskOf
    <3>4. TasksInv' /\ GoalInv'
      BY <2>1, <2>2, <3>1 DEF TasksInv, GoalInv, BeforeWork, Quiet
    <3> QED  BY <3>2, <3>3, <3>4 DEF EndInv
  <2>3. CASE UNCHANGED <<cleanup, alive>> /\ phase' \in {"exited", "draining"} /\ code' = "1"
    BY <2>1, <2>3, NoReviewer, NotSettled, EndFrame DEF BeforeWork, Quiet
  <2> QED  BY <1>1, <2>2, <2>3 DEF BuildGoal, Register, Go, Throw, Exit
<1>2. CASE PursueGoal
  <2>1. /\ phase = "pursuing" /\ printed = Nothing /\ "finish-processor" \notin cleanup.tasks
        /\ ~cleanup.settled
    BY <1>2, NotSettled DEF PursueGoal, EndInv, TasksInv, Quiet
  <2>2. CASE phase' = "reporting" /\ alive' = {} /\ UNCHANGED <<printed, cleanup>>
    <3>1. CleanupType' /\ AgentsInv' /\ CleanedUp'
      BY <2>2 DEF EndInv, CleanupType, AgentsInv, CleanedUp
    <3>2. TasksInv' /\ GoalInv'
      BY <2>1, <2>2 DEF EndInv, TasksInv, GoalInv, BeforeWork, Quiet
    <3> QED  BY <3>1, <3>2 DEF EndInv
  <2>3. CASE /\ phase' = "draining" /\ code' = "1" /\ printed' = printed ++ Err("ERROR", 0)
             /\ cleanup' = Settled /\ alive' = alive
    <3>1. printed'.err = <<[what |-> "ERROR", n |-> 0]>>
      BY <2>1, <2>3 DEF Nothing, Err, ++
    <3>2. Spoke'
      BY <3>1 DEF Spoke
    <3> QED  BY <2>1, <2>3, <3>2, SettledEnds
  <2> QED  BY <1>2, <2>2, <2>3 DEF PursueGoal, Go, Prints
<1>3. CASE ReportGoal
  <2>1. /\ phase = "reporting" /\ printed = Nothing /\ "finish-processor" \notin cleanup.tasks
        /\ ~cleanup.settled
    BY <1>3, NotSettled DEF ReportGoal, EndInv, TasksInv, Quiet
  <2>2. /\ phase' = "draining" /\ code' \in {"0", "1"} /\ cleanup' = Settled /\ alive' = alive
        /\ printed' = printed ++ (Out("outcome", 0) ++ Err("goal-status", 0))
    BY <1>3 DEF ReportGoal, Prints, end
  <2>3. printed'.out = <<[what |-> "outcome", n |-> 0]>>
    BY <2>1, <2>2 DEF Nothing, Out, Err, ++
  <2>4. Spoke'
    BY <2>3 DEF Spoke
  <2> QED  BY <2>1, <2>2, <2>4, SettledEnds
<1> QED  BY <1>1, <1>2, <1>3

(* The review: its agent and its task come together.                       *)
LEMMA ReviewEndsWell ==
  ASSUME EndInv, CreateReviewer \/ ReviewEnds \/ ReportReview PROVE EndInv'
<1>1. CASE CreateReviewer
  <2>1. phase = "review" /\ cleanup = NoCleanup /\ alive = {}
    BY <1>1 DEF CreateReviewer, EndInv, TasksInv, BeforeWork
  <2>2. CASE /\ phase' = "reviewing" /\ alive' = {"reviewer"}
             /\ cleanup' = [cleanup EXCEPT !.tasks = @ \union {"discard-review"}]
    <3>1. cleanup' = [tasks |-> {"discard-review"}, sent |-> FALSE,
                      left |-> {}, aborted |-> FALSE, settled |-> FALSE, gaveUp |-> FALSE]
      BY <2>1, <2>2 DEF NoCleanup
    <3>2. CleanupType'
      BY <3>1 DEF CleanupType, Tasks
    <3>3. AgentsInv' /\ CleanedUp'
      BY <2>2, <3>1 DEF AgentsInv, CleanedUp, TaskOf
    <3>4. TasksInv' /\ GoalInv'
      BY <2>2, <3>1 DEF TasksInv, GoalInv, BeforeWork, Quiet
    <3> QED  BY <3>2, <3>3, <3>4 DEF EndInv
  <2>3. CASE UNCHANGED <<cleanup, alive>> /\ phase' = "exited" /\ code' \in {"1", "2"}
    BY <2>1, <2>3, NoReviewer, NotSettled, EndFrame DEF BeforeWork, Quiet
  <2> QED  BY <1>1, <2>2, <2>3 DEF CreateReviewer, Register, Go, Throw, Exit, end
<1>2. CASE ReviewEnds
  <2>1. /\ phase = "reviewing" /\ phase' \in {"reviewed", "unreadable"} /\ alive' = {}
        /\ UNCHANGED <<printed, cleanup>>
    BY <1>2 DEF ReviewEnds, Go
  <2>2. CleanupType' /\ AgentsInv' /\ CleanedUp'
    BY <2>1 DEF EndInv, CleanupType, AgentsInv, CleanedUp
  <2>3. TasksInv' /\ GoalInv'
    BY <2>1 DEF EndInv, TasksInv, GoalInv, BeforeWork, Quiet
  <2> QED  BY <2>2, <2>3 DEF EndInv
<1>3. CASE ReportReview
  <2>1. /\ UNCHANGED <<cleanup, alive>> /\ phase \in {"reviewed", "unreadable"}
        /\ phase' = "exited" /\ code' \in {"0", "1"}
    BY <1>3 DEF ReportReview, Throw, Exit, end
  <2> QED  BY <2>1, NoReviewer, NotSettled, EndFrame DEF BeforeWork, Quiet
<1> QED  BY <1>1, <1>2, <1>3

(* The signal finds a task for every agent there is.                       *)
LEMMA InterruptEnds == ASSUME EndInv, Interrupt PROVE EndInv'
<1>1. /\ ~cleanup.sent /\ phase # "exited"
      /\ cleanup' = [cleanup EXCEPT !.sent = TRUE, !.left = cleanup.tasks]
      /\ UNCHANGED <<printed, alive>>
  BY DEF Interrupt
<1>2. ~cleanup.aborted
  BY <1>1 DEF EndInv, TasksInv
<1>3. /\ cleanup'.tasks = cleanup.tasks /\ cleanup'.sent /\ cleanup'.left = cleanup.tasks
      /\ cleanup'.aborted = cleanup.aborted /\ cleanup'.settled = cleanup.settled
      /\ cleanup'.gaveUp = cleanup.gaveUp
  BY <1>1 DEF EndInv, CleanupType
<1>4. CleanupType'
  BY <1>1 DEF EndInv, CleanupType
<1>5. CASE cleanup.tasks = {}
  <2>1. phase' = "exited" /\ code' = "130"
    BY <1>5 DEF Interrupt, Exit
  <2>2. alive = {}
    BY <1>1, <1>5 DEF EndInv, AgentsInv
  <2>3. AgentsInv' /\ CleanedUp'
    BY <1>1, <1>2, <1>3, <2>2 DEF AgentsInv, CleanedUp
  <2>4. TasksInv'
    BY <1>3, <2>1 DEF EndInv, TasksInv, BeforeWork, Quiet
  <2>5. GoalInv'
    BY <1>1, <1>3, <2>1 DEF EndInv, GoalInv, Spoke
  <2> QED  BY <1>4, <2>3, <2>4, <2>5 DEF EndInv
<1>6. CASE cleanup.tasks # {}
  <2>1. UNCHANGED <<phase, code>>
    BY <1>6 DEF Interrupt
  <2>2. phase \notin BeforeWork
    BY <1>6 DEF EndInv, TasksInv, NoCleanup
  <2>3. AgentsInv'
    BY <1>1, <1>3, <2>1 DEF EndInv, AgentsInv
  <2>4. CleanedUp'
    BY <1>1, <2>1 DEF CleanedUp
  <2>5. TasksInv'
    BY <1>1, <1>3, <2>1, <2>2 DEF EndInv, TasksInv
  <2>6. GoalInv'
    BY <1>1, <1>2, <1>3, <2>1 DEF EndInv, GoalInv, Spoke
  <2> QED  BY <1>4, <2>3, <2>4, <2>5, <2>6 DEF EndInv
<1> QED  BY <1>5, <1>6

(* The tasks.                                                              *)
LEMMA TasksEnd ==
  ASSUME EndInv, \/ FinishInterrupted \/ AbortGoal \/ CancellationReturns
                 \/ Dispose("dispose-goal-agent", "goal") \/ Dispose("discard-review", "reviewer")
  PROVE  EndInv'
<1>0. phase # "exited" /\ UNCHANGED <<phase, code>>
  BY DEF FinishInterrupted, AbortGoal, CancellationReturns, Dispose, Task
<1>a. CleanedUp'
  BY <1>0 DEF CleanedUp
<1>b. \A task \in cleanup.left : phase \notin BeforeWork /\ cleanup.sent
  BY DEF EndInv, TasksInv, NoCleanup
<1>1. CASE FinishInterrupted
  <2>1. "finish-processor" \in cleanup.left /\ alive' = alive
        /\ cleanup' = [cleanup EXCEPT !.left = @ \ {"finish-processor"}]
    BY <1>1 DEF FinishInterrupted, Task, Done
  <2>2. /\ cleanup'.tasks = cleanup.tasks /\ cleanup'.sent = cleanup.sent
        /\ cleanup'.left = cleanup.left \ {"finish-processor"} /\ cleanup'.aborted = cleanup.aborted
        /\ cleanup'.settled = cleanup.settled /\ cleanup'.gaveUp = cleanup.gaveUp
        /\ CleanupType'
    BY <2>1 DEF EndInv, CleanupType
  <2>3. "finish-processor" \in cleanup.tasks
    BY <2>1 DEF EndInv, TasksInv
  <2>4. AgentsInv'
    BY <1>0, <2>1, <2>2 DEF EndInv, AgentsInv, TaskOf
  <2>5. TasksInv'
    BY <1>0, <1>b, <2>1, <2>2, <2>3 DEF EndInv, TasksInv
  <2>6. GoalInv'
    BY <1>0, <2>2, <2>3 DEF EndInv, GoalInv
  <2> QED  BY <1>a, <2>2, <2>4, <2>5, <2>6 DEF EndInv
<1>2. CASE AbortGoal
  <2>1. "goal-cancellation" \in cleanup.left /\ UNCHANGED <<alive, printed>>
        /\ cleanup' = [cleanup EXCEPT !.aborted = TRUE]
    BY <1>2 DEF AbortGoal, Task
  <2>2. /\ cleanup'.tasks = cleanup.tasks /\ cleanup'.sent = cleanup.sent
        /\ cleanup'.left = cleanup.left /\ cleanup'.settled = cleanup.settled
        /\ CleanupType'
    BY <2>1 DEF EndInv, CleanupType
  <2>4. AgentsInv'
    BY <1>0, <2>1, <2>2 DEF EndInv, AgentsInv
  <2>5. TasksInv'
    BY <1>0, <1>b, <2>1, <2>2 DEF EndInv, TasksInv
  <2>6. GoalInv'
    BY <1>0, <2>1, <2>2 DEF EndInv, GoalInv, Spoke
  <2> QED  BY <1>a, <2>2, <2>4, <2>5, <2>6 DEF EndInv
<1>3. CASE CancellationReturns
  <2>1. /\ "goal-cancellation" \in cleanup.left /\ UNCHANGED <<alive, printed>>
        /\ \/ cleanup.settled /\ cleanup' = [cleanup EXCEPT !.left = @ \ {"goal-cancellation"}]
           \/ cleanup' = [cleanup EXCEPT !.left = @ \ {"goal-cancellation"}, !.gaveUp = TRUE]
    BY <1>3 DEF CancellationReturns, Task, Done, MayReturn
  <2>2. /\ cleanup'.tasks = cleanup.tasks /\ cleanup'.sent = cleanup.sent
        /\ cleanup'.left = cleanup.left \ {"goal-cancellation"}
        /\ cleanup'.aborted = cleanup.aborted
        /\ cleanup'.settled = cleanup.settled /\ (cleanup.settled \/ cleanup'.gaveUp)
        /\ CleanupType'
    BY <2>1 DEF EndInv, CleanupType
  <2>4. AgentsInv'
    BY <1>0, <2>1, <2>2 DEF EndInv, AgentsInv, TaskOf
  <2>5. TasksInv'
    BY <1>0, <1>b, <2>1, <2>2 DEF EndInv, TasksInv
  <2>6. GoalInv'
    BY <1>0, <2>1, <2>2 DEF EndInv, GoalInv, Spoke
  <2> QED  BY <1>a, <2>2, <2>4, <2>5, <2>6 DEF EndInv
<1>4. ASSUME NEW who \in {"goal", "reviewer"}, Dispose(TaskOf[who], who) PROVE EndInv'
  <2>1. TaskOf[who] \in cleanup.left /\ UNCHANGED printed /\ alive' = alive \ {who}
        /\ cleanup' = [cleanup EXCEPT !.left = @ \ {TaskOf[who]}]
    BY <1>4 DEF Dispose, Task, Done
  <2>2. /\ cleanup'.tasks = cleanup.tasks /\ cleanup'.sent = cleanup.sent
        /\ cleanup'.left = cleanup.left \ {TaskOf[who]}
        /\ cleanup'.aborted = cleanup.aborted
        /\ cleanup'.settled = cleanup.settled /\ cleanup'.gaveUp = cleanup.gaveUp
        /\ CleanupType'
    BY <2>1 DEF EndInv, CleanupType
  <2>4. AgentsInv'
    BY <1>0, <2>1, <2>2 DEF EndInv, AgentsInv, TaskOf
  <2>5. TasksInv'
    BY <1>0, <1>b, <2>1, <2>2 DEF EndInv, TasksInv
  <2>6. GoalInv'
    BY <1>0, <2>1, <2>2 DEF EndInv, GoalInv, Spoke, TaskOf
  <2> QED  BY <1>a, <2>2, <2>4, <2>5, <2>6 DEF EndInv
<1>5. TaskOf["goal"] = "dispose-goal-agent" /\ TaskOf["reviewer"] = "discard-review"
  BY DEF TaskOf
<1> QED  BY <1>1, <1>2, <1>3, <1>4, <1>5

(* The end of the shutdown: with nothing left there is nobody left.        *)
LEMMA ShutdownEnds == ASSUME EndInv, ShutdownExits PROVE EndInv'
<1>1. /\ cleanup.sent /\ phase # "exited" /\ phase' = "exited"
      /\ code' = (IF cleanup.left = {} THEN "130" ELSE "hung")
      /\ UNCHANGED <<printed, cleanup, alive>>
  BY DEF ShutdownExits, Exit, end
<1>2. cleanup.left = {} => alive = {}
  BY <1>1 DEF EndInv, AgentsInv
<1>3. cleanup.left = {} /\ cleanup.aborted => cleanup.gaveUp \/ Spoke
  BY <1>1 DEF EndInv, GoalInv
<1>4. CleanupType' /\ AgentsInv'
  BY <1>1 DEF EndInv, CleanupType, AgentsInv
<1>5. TasksInv'
  BY <1>1 DEF EndInv, TasksInv, BeforeWork, Quiet
<1>6. GoalInv'
  BY <1>1 DEF EndInv, GoalInv, Spoke
<1>7. CleanedUp'
  BY <1>1, <1>2, <1>3 DEF CleanedUp, Spoke
<1> QED  BY <1>4, <1>5, <1>6, <1>7 DEF EndInv

LEMMA EndStep == EndInv /\ [Next]_vars => EndInv'
<1> SUFFICES ASSUME EndInv, [Next]_vars PROVE EndInv'
  OBVIOUS
<1>1. ASSUME UNCHANGED vars PROVE EndInv'
  BY <1>1 DEF vars, EndInv, CleanupType, AgentsInv, TasksInv, GoalInv, CleanedUp, Spoke
<1> QED
  BY <1>1, SmallCommandsEnd, OpenSessionEnds, RunEnds, GoalEnds, ReviewEndsWell, InterruptEnds,
     TasksEnd, ShutdownEnds DEF Next, Exited

LEMMA EndInvHolds == Spec => []EndInv
<1>1. ASSUME Init PROVE EndInv
  <2>1. /\ phase = "line" /\ alive = {} /\ printed = Nothing /\ cleanup = NoCleanup
    BY <1>1 DEF Init
  <2>2. CleanupType /\ AgentsInv
    BY <2>1 DEF CleanupType, AgentsInv, NoCleanup
  <2>3. TasksInv /\ GoalInv /\ CleanedUp
    BY <2>1 DEF TasksInv, GoalInv, CleanedUp, NoCleanup
  <2> QED  BY <2>2, <2>3 DEF EndInv
<1> QED  BY <1>1, EndStep, PTL DEF Spec

(* A process that an interrupt ends has disposed of its agent and a goal   *)
(* it aborted has said how it stands, unless the wait for that was given   *)
(* up; and a review that ends leaves no reviewer: whenever the signal      *)
(* comes, and in whatever order the framework runs the tasks               *)
(* (createGoalCancellation, createReviewAgent).                            *)
THEOREM EndsCleanedUp == Spec => []CleanedUp
<1>1. EndInv => CleanedUp
  BY DEF EndInv
<1> QED  BY <1>1, EndInvHolds, PTL

-----------------------------------------------------------------------------
(* The processor.                                                          *)

LEMMA HeardIs ==
  ASSUME NEW p, NEW c
  PROVE  /\ c = "text" => Heard(p, c) = [p EXCEPT !.message = @ + 1]
         /\ c \in Tools => Heard(p, c) = [p EXCEPT !.message = 0, !.wrote = @ \/ c = "write"]
         /\ c \in {"error", "busy"} => Heard(p, c) = [p EXCEPT !.errorSeen = TRUE, !.open = FALSE]
         /\ c \in {"finish", "unused"} => Heard(p, c) = [p EXCEPT !.used = c = "finish"]
         /\ c \in {"start", "output"} => Heard(p, c) = p
<1>1. ASSUME c = "text" PROVE Heard(p, c) = [p EXCEPT !.message = @ + 1]
  BY <1>1, Zenon DEF Heard, Tools, IsError
<1>2. ASSUME c \in Tools
      PROVE  Heard(p, c) = [p EXCEPT !.message = 0, !.wrote = @ \/ c = "write"]
  BY <1>2, Zenon DEF Heard, Tools, IsError
<1>3. ASSUME c \in {"error", "busy"}
      PROVE  Heard(p, c) = [p EXCEPT !.errorSeen = TRUE, !.open = FALSE]
  BY <1>3, Zenon DEF Heard, Tools, IsError
<1>4. ASSUME c \in {"finish", "unused"} PROVE Heard(p, c) = [p EXCEPT !.used = c = "finish"]
  BY <1>4, Zenon DEF Heard, Tools, IsError
<1>5. ASSUME c \in {"start", "output"} PROVE Heard(p, c) = p
  BY <1>5, Zenon DEF Heard, Tools, IsError
<1> QED  BY <1>1, <1>2, <1>3, <1>4, <1>5

LEMMA HeardProc ==
  ASSUME NEW p \in Procs, NEW c \in Chunks PROVE Heard(p, c) \in Procs
<1>1. CASE c = "text"
  <2>1. Heard(p, c) = [p EXCEPT !.message = @ + 1]
    BY <1>1, HeardIs, Zenon
  <2> QED  BY <2>1 DEF Procs
<1>2. CASE c \in Tools
  <2>1. Heard(p, c) = [p EXCEPT !.message = 0, !.wrote = @ \/ c = "write"]
    BY <1>2, HeardIs, Zenon
  <2>2. (p.wrote \/ c = "write") \in BOOLEAN
    OBVIOUS
  <2>3. PICK w \in BOOLEAN : Heard(p, c) = [p EXCEPT !.message = 0, !.wrote = w]
    BY <2>1, <2>2, Zenon
  <2>4. [p EXCEPT !.message = 0] \in Procs
    BY DEF Procs
  <2>5. \A q \in Procs : [q EXCEPT !.wrote = w] \in Procs
    BY DEF Procs
  <2> QED  BY <2>3, <2>4, <2>5, Zenon
<1>3. CASE c \in {"error", "busy"}
  <2>1. Heard(p, c) = [p EXCEPT !.errorSeen = TRUE, !.open = FALSE]
    BY <1>3, HeardIs, Zenon
  <2> QED  BY <2>1 DEF Procs
<1>4. CASE c \in {"finish", "unused"}
  <2>1. Heard(p, c) = [p EXCEPT !.used = c = "finish"]
    BY <1>4, HeardIs, Zenon
  <2> QED  BY <2>1 DEF Procs
<1>5. CASE c \in {"start", "output"}
  <2>1. Heard(p, c) = p
    BY <1>5, HeardIs, Zenon
  <2> QED  BY <2>1
<1> QED  BY <1>1, <1>2, <1>3, <1>4, <1>5 DEF Chunks, Structural, Content, Tools

(* No pass holds more than two chunks: three that are handed over together *)
(* are a start, a finish and nothing else.                                 *)
LEMMA HeardAllIs ==
  \A p, a, b : /\ HeardAll(p, <<>>) = p
               /\ HeardAll(p, <<a>>) = Heard(p, a)
               /\ HeardAll(p, <<a, b>>) = Heard(Heard(p, a), b)
<1> TAKE p, a, b
<1> DEFINE Rec(s, f) == f = [i \in 0..Len(s) |-> IF i = 0 THEN p ELSE Heard(f[i - 1], s[i])]
           g == [i \in 0..2 |-> IF i = 0 THEN p ELSE IF i = 1 THEN Heard(p, a)
                                ELSE Heard(Heard(p, a), b)]
<1>1. \A s : HeardAll(p, s) = (CHOOSE f : Rec(s, f))[Len(s)]
  BY DEF HeardAll
<1>2. \A s : (\E f : Rec(s, f)) => Rec(s, CHOOSE f : Rec(s, f))
  OBVIOUS
<1>3. HeardAll(p, <<>>) = p
  <2>1. Len(<<>>) = 0 /\ 0 \in 0..0
    OBVIOUS
  <2>2. Rec(<<>>, [i \in 0..0 |-> p])
    BY <2>1
  <2>3. \A f : Rec(<<>>, f) => f[0] = p
    BY <2>1
  <2> HIDE DEF Rec
  <2> QED  BY <1>1, <1>2, <2>1, <2>2, <2>3
<1>4. HeardAll(p, <<a>>) = Heard(p, a)
  <2>1. Len(<<a>>) = 1 /\ <<a>>[1] = a
    OBVIOUS
  <2>2. Rec(<<a>>, [i \in 0..1 |-> IF i = 0 THEN p ELSE Heard(p, a)])
    BY <2>1
  <2>3. \A f : Rec(<<a>>, f) => f[1] = Heard(p, a)
    <3> TAKE f
    <3>1. Rec(<<a>>, f) => f[0] = p
      BY <2>1
    <3> QED  BY <2>1, <3>1
  <2> HIDE DEF Rec
  <2> QED  BY <1>1, <1>2, <2>1, <2>2, <2>3
<1>5. HeardAll(p, <<a, b>>) = Heard(Heard(p, a), b)
  <2>1. Len(<<a, b>>) = 2 /\ <<a, b>>[1] = a /\ <<a, b>>[2] = b
    OBVIOUS
  <2>2. Rec(<<a, b>>, g)
    BY <2>1
  <2>3. \A f : Rec(<<a, b>>, f) => f[2] = Heard(Heard(p, a), b)
    <3> TAKE f
    <3>1. Rec(<<a, b>>, f) => f[0] = p
      BY <2>1
    <3>2. Rec(<<a, b>>, f) => f[1] = Heard(p, a)
      BY <2>1, <3>1
    <3> QED  BY <2>1, <3>2
  <2> HIDE DEF Rec
  <2> QED  BY <1>1, <1>2, <2>1, <2>2, <2>3
<1> QED  BY <1>3, <1>4, <1>5

-----------------------------------------------------------------------------
(* The stream.                                                             *)

LEMMA StreamGrows ==
  ASSUME NEW s \in Streams, NEW c \in Chunks \union {"retry"}
  PROVE  /\ Append(s, c) \in Streams
         /\ Append(s, c) # <<>> /\ Last(Append(s, c)) = c
         /\ \A chunks : In(Append(s, c), chunks) =
              IF c \in chunks THEN In(s, chunks) \union {Len(s) + 1} ELSE In(s, chunks)
<1>1. /\ Append(s, c) \in Streams /\ Len(Append(s, c)) = Len(s) + 1 /\ Append(s, c)[Len(s) + 1] = c
      /\ \A i \in 1..Len(s) : Append(s, c)[i] = s[i]
      /\ DOMAIN s = 1..Len(s) /\ DOMAIN Append(s, c) = 1..Len(s) + 1 /\ Len(s) \in Nat
  BY DEF Streams
<1>2. Append(s, c) # <<>> /\ Last(Append(s, c)) = c
  <2>1. Len(Append(s, c)) # 0 /\ Len(<<>>) = 0
    BY <1>1
  <2>2. Append(s, c) # <<>>
    BY <2>1, Zenon
  <2>3. Last(Append(s, c)) = Append(s, c)[Len(s) + 1]
    BY <1>1 DEF Last
  <2> QED  BY <1>1, <2>2, <2>3
<1>3. ASSUME NEW chunks
      PROVE  In(Append(s, c), chunks) =
               IF c \in chunks THEN In(s, chunks) \union {Len(s) + 1} ELSE In(s, chunks)
  BY <1>1 DEF In
<1> QED  BY <1>1, <1>2, <1>3

LEMMA InGrows ==
  ASSUME NEW s \in Streams, NEW c \in Chunks \union {"retry"}
  PROVE  \A chunks : /\ c \in chunks => In(Append(s, c), chunks) = In(s, chunks) \union {Len(s) + 1}
                     /\ c \notin chunks => In(Append(s, c), chunks) = In(s, chunks)
<1> TAKE chunks
<1> QED  BY StreamGrows

LEMMA InBounds ==
  ASSUME NEW s \in Streams
  PROVE  \A chunks : In(s, chunks) \subseteq 1..Len(s) /\ IsFiniteSet(In(s, chunks))
                     /\ Len(s) \in Nat
<1> TAKE chunks
<1>1. In(s, chunks) \subseteq 1..Len(s) /\ Len(s) \in Nat
  BY DEF In, Streams
<1>2. IsFiniteSet(1..Len(s))
  BY <1>1, FS_Interval
<1> QED  BY <1>1, <1>2, FS_Subset

LEMMA EmptyStream ==
  /\ <<>> \in Streams /\ \A chunks : In(<<>>, chunks) = {}
  /\ LatestOf(<<>>) = "" /\ TextsAfterTools(<<>>) = {}
  /\ Cardinality(TextsAfterTools(<<>>)) = 0 /\ Cardinality(In(<<>>, {"retry"})) = 0
<1>1. <<>> \in Streams /\ \A chunks : In(<<>>, chunks) = {}
  BY DEF Streams, In
<1>2. LatestOf(<<>>) = "" /\ TextsAfterTools(<<>>) = {}
  BY <1>1 DEF LatestOf, TextsAfterTools
<1> QED  BY <1>1, <1>2, FS_EmptySet

LEMMA MaxOfTop ==
  ASSUME NEW S, NEW n \in Nat, S \subseteq 1..n PROVE Max(S \union {n + 1}) = n + 1
<1>1. \A x \in S \union {n + 1} : n + 1 >= x
  OBVIOUS
<1>2. \A x \in S \union {n + 1} : (\A y \in S \union {n + 1} : x >= y) => x = n + 1
  OBVIOUS
<1> QED  BY <1>1, <1>2 DEF Max

(* The latest chunk, whatever retries came after it.                       *)
LEMMA LatestIs ==
  ASSUME NEW s \in Streams, NEW c \in Chunks PROVE LatestOf(Append(s, c)) = c
<1>1. In(Append(s, c), Chunks) = In(s, Chunks) \union {Len(s) + 1}
  BY StreamGrows
<1>2. Max(In(s, Chunks) \union {Len(s) + 1}) = Len(s) + 1
  BY InBounds, MaxOfTop
<1>3. Append(s, c)[Len(s) + 1] = c
  BY DEF Streams
<1> QED  BY <1>1, <1>2, <1>3 DEF LatestOf

LEMMA RetryIsNoChunk == "retry" \notin Chunks
BY DEF Chunks, Structural, Content, Tools

(* Of the intervals that begin at a member, the smallest begins at the     *)
(* greatest.                                                               *)
LEMMA FiniteMax ==
  ASSUME NEW S, S # {}, NEW n \in Nat, S \subseteq 1..n PROVE Max(S) \in S
<1> DEFINE above == {k..n : k \in S}
<1>1. above \subseteq FiniteSubsetsOf(Nat) /\ above # {}
  <2>1. \A k \in S : IsFiniteSet(k..n)
    BY FS_Interval
  <2>2. \A k \in S : (k..n) \in FiniteSubsetsOf(Nat)
    BY <2>1 DEF FiniteSubsetsOf
  <2>3. PICK k \in S : TRUE
    OBVIOUS
  <2>4. (k..n) \in above
    OBVIOUS
  <2> QED  BY <2>2, <2>4
<1>2. PICK b \in above : \A c \in above : ~(<<c, b>> \in StrictSubsetOrdering(Nat))
  <2> HIDE DEF above
  <2> QED  BY <1>1, FS_StrictSubsetOrderingWellFounded, WFMin
<1>3. PICK k \in S : b = k..n
  OBVIOUS
<1>4. ASSUME NEW m \in S, m > k PROVE FALSE
  <2>1. (m..n) \subseteq (k..n) /\ k \in k..n /\ k \notin m..n /\ (m..n) \in above
    BY <1>4
  <2>2. (m..n) # (k..n) /\ (m..n) \in SUBSET Nat /\ (k..n) \in SUBSET Nat
    BY <2>1
  <2>3. <<m..n, k..n>> \in StrictSubsetOrdering(Nat)
    BY <2>1, <2>2 DEF StrictSubsetOrdering
  <2> QED  BY <1>2, <1>3, <2>1, <2>3
<1>5. \A m \in S : k >= m
  BY <1>4
<1> QED  BY <1>5 DEF Max

LEMMA LatestStays ==
  ASSUME NEW s \in Streams PROVE LatestOf(Append(s, "retry")) = LatestOf(s)
<1>1. In(Append(s, "retry"), Chunks) = In(s, Chunks)
  BY StreamGrows, RetryIsNoChunk
<1>2. CASE In(s, Chunks) = {}
  BY <1>1, <1>2 DEF LatestOf
<1>3. CASE In(s, Chunks) # {}
  <2>1. Max(In(s, Chunks)) \in 1..Len(s)
    BY <1>3, InBounds, FiniteMax
  <2>2. Append(s, "retry")[Max(In(s, Chunks))] = s[Max(In(s, Chunks))]
    BY <2>1 DEF Streams
  <2> QED  BY <1>1, <1>3, <2>2 DEF LatestOf
<1> QED  BY <1>2, <1>3

(* The text since the last tool call.                                      *)
LEMMA TextsGrow ==
  ASSUME NEW s \in Streams, NEW c \in Chunks \union {"retry"}
  PROVE  /\ c = "text" => Cardinality(TextsAfterTools(Append(s, c))) =
                            Cardinality(TextsAfterTools(s)) + 1
         /\ c \in Tools => Cardinality(TextsAfterTools(Append(s, c))) = 0
         /\ c \notin Tools \union {"text"} => TextsAfterTools(Append(s, c)) = TextsAfterTools(s)
         /\ Cardinality(TextsAfterTools(s)) \in Nat
<1>1. /\ In(s, {"text"}) \subseteq 1..Len(s) /\ In(s, Tools) \subseteq 1..Len(s) /\ Len(s) \in Nat
      /\ IsFiniteSet(In(s, {"text"}))
  BY InBounds
<1>2. /\ In(Append(s, c), {"text"}) =
           IF c = "text" THEN In(s, {"text"}) \union {Len(s) + 1} ELSE In(s, {"text"})
      /\ In(Append(s, c), Tools) =
           IF c \in Tools THEN In(s, Tools) \union {Len(s) + 1} ELSE In(s, Tools)
  BY StreamGrows
<1>3. TextsAfterTools(s) \subseteq 1..Len(s) /\ IsFiniteSet(TextsAfterTools(s))
      /\ Cardinality(TextsAfterTools(s)) \in Nat
  <2>1. TextsAfterTools(s) \subseteq In(s, {"text"})
    BY DEF TextsAfterTools
  <2> QED  BY <1>1, <2>1, FS_Subset, FS_CardinalityType
<1>4. ASSUME c = "text" PROVE Cardinality(TextsAfterTools(Append(s, c))) =
                                Cardinality(TextsAfterTools(s)) + 1
  <2>1. "text" \notin Tools
    BY DEF Tools
  <2>2. TextsAfterTools(Append(s, c)) = TextsAfterTools(s) \union {Len(s) + 1}
    BY <1>1, <1>2, <1>4, <2>1 DEF TextsAfterTools
  <2>3. Len(s) + 1 \notin TextsAfterTools(s)
    BY <1>1, <1>3
  <2> QED  BY <1>3, <2>2, <2>3, FS_AddElement
<1>5. ASSUME c \in Tools PROVE Cardinality(TextsAfterTools(Append(s, c))) = 0
  <2>1. c # "text"
    BY <1>5 DEF Tools
  <2>2. TextsAfterTools(Append(s, c)) = {}
    BY <1>1, <1>2, <1>5, <2>1 DEF TextsAfterTools
  <2> QED  BY <2>2, FS_EmptySet
<1>6. ASSUME c \notin Tools \union {"text"}
      PROVE  TextsAfterTools(Append(s, c)) = TextsAfterTools(s)
  BY <1>2, <1>6 DEF TextsAfterTools
<1> QED  BY <1>3, <1>4, <1>5, <1>6

-----------------------------------------------------------------------------
(* What is printed.                                                        *)

LEMMA OneItem ==
  ASSUME NEW what \in Whats, NEW n \in Nat
  PROVE  /\ [what |-> what, n |-> n] \in Items
         /\ Out(what, n) \in Words /\ Err(what, n) \in Words
         /\ Out(what, n).out = <<[what |-> what, n |-> n]>> /\ Out(what, n).err = <<>>
         /\ Err(what, n).err = <<[what |-> what, n |-> n]>> /\ Err(what, n).out = <<>>
<1>1. [what |-> what, n |-> n] \in Items
  BY DEF Items
<1>2. <<[what |-> what, n |-> n]>> \in Seq(Items) /\ <<>> \in Seq(Items)
  BY <1>1
<1> QED  BY <1>1, <1>2 DEF Out, Err, Words

LEMMA NothingSaid == Nothing \in Words /\ Nothing.out = <<>> /\ Nothing.err = <<>>
BY DEF Nothing, Words

LEMMA Together ==
  ASSUME NEW a \in Words, NEW b \in Words
  PROVE  /\ a ++ b \in Words
         /\ (a ++ b).out = a.out \o b.out /\ (a ++ b).err = a.err \o b.err
         /\ b.out = <<>> => (a ++ b).out = a.out
         /\ a.out = <<>> => (a ++ b).out = b.out
<1>1. a.out \in Seq(Items) /\ a.err \in Seq(Items) /\ b.out \in Seq(Items) /\ b.err \in Seq(Items)
  BY DEF Words
<1>2. (a ++ b).out = a.out \o b.out /\ (a ++ b).err = a.err \o b.err
  BY DEF ++
<1>3. a.out \o b.out \in Seq(Items) /\ a.err \o b.err \in Seq(Items)
  BY <1>1
<1>4. a ++ b \in Words
  BY <1>3 DEF ++, Words
<1>5. b.out = <<>> => a.out \o b.out = a.out
  BY <1>1
<1>6. a.out = <<>> => a.out \o b.out = b.out
  BY <1>1
<1> QED  BY <1>2, <1>4, <1>5, <1>6

LEMMA OutGrows ==
  ASSUME NEW out \in Seq(Items), out # <<>>, NEW x \in Items
  PROVE  /\ out \o <<x>> # <<>>
         /\ Len(out \o <<x>>) = Len(out) + 1 /\ Len(out) \in Nat
         /\ (out \o <<x>>)[1] = out[1]
         /\ (out \o <<x>>)[Len(out) + 1] = x
         /\ Ends(out \o <<x>>) = IF x.what \in {"turn.completed", "turn.failed"}
                                 THEN Ends(out) \union {Len(out) + 1} ELSE Ends(out)
<1>1. /\ Len(out \o <<x>>) = Len(out) + 1 /\ Len(out) \in Nat /\ Len(out) >= 1
      /\ \A i \in 1..Len(out) : (out \o <<x>>)[i] = out[i]
      /\ (out \o <<x>>)[Len(out) + 1] = x
      /\ DOMAIN out = 1..Len(out) /\ DOMAIN (out \o <<x>>) = 1..Len(out) + 1
  OBVIOUS
<1>2. Len(<<>>) = 0
  OBVIOUS
<1>3. out \o <<x>> # <<>>
  <2>1. Len(out \o <<x>>) # 0
    BY <1>1
  <2> QED  BY <1>2, <2>1, Zenon
<1>4. Ends(out \o <<x>>) = IF x.what \in {"turn.completed", "turn.failed"}
                           THEN Ends(out) \union {Len(out) + 1} ELSE Ends(out)
  BY <1>1 DEF Ends
<1> QED  BY <1>1, <1>3, <1>4

LEMMA ObserveIs ==
  ASSUME NEW p, NEW c
  PROVE  /\ ~p.open => Observe(p, c) = Nothing
         /\ p.open /\ c \in Tools => Observe(p, c) = Out("item.started", 0)
         /\ p.open /\ c = "output" => Observe(p, c) = Out("item.completed", 0)
         /\ p.open /\ c \in {"error", "busy"} => Observe(p, c) = Out("turn.failed", 0)
         /\ p.open /\ c \in {"text", "start", "finish", "unused"} => Observe(p, c) = Nothing
<1>1. ASSUME ~p.open PROVE Observe(p, c) = Nothing
  BY <1>1, Zenon DEF Observe
<1>2. ASSUME p.open, c \in Tools PROVE Observe(p, c) = Out("item.started", 0)
  BY <1>2, Zenon DEF Observe, Tools, IsError
<1>3. ASSUME p.open, c = "output" PROVE Observe(p, c) = Out("item.completed", 0)
  BY <1>3, Zenon DEF Observe, Tools, IsError
<1>4. ASSUME p.open, c \in {"error", "busy"} PROVE Observe(p, c) = Out("turn.failed", 0)
  BY <1>4, Zenon DEF Observe, Tools, IsError
<1>5. ASSUME p.open, c \in {"text", "start", "finish", "unused"} PROVE Observe(p, c) = Nothing
  BY <1>5, Zenon DEF Observe, Tools, IsError
<1> QED  BY <1>1, <1>2, <1>3, <1>4, <1>5

LEMMA SaidIs ==
  ASSUME NEW p \in Procs, NEW c \in Chunks, NEW n \in Nat
  PROVE  /\ Said(p, c, n) \in Words
         /\ p.json => Said(p, c, n) = Observe(p, c)
         /\ ~p.json => Said(p, c, n).out = <<>>
         /\ ~p.json /\ c = "error" => Said(p, c, n).err = <<[what |-> "ERROR", n |-> n]>>
<1>0. p.message \in Nat
  BY DEF Procs
<1>1. CASE p.json
  <2>1. Said(p, c, n) = Observe(p, c)
    BY <1>1, Zenon DEF Said
  <2>2. Observe(p, c) \in Words
    <3>1. /\ Out("item.started", 0) \in Words /\ Out("item.completed", 0) \in Words
          /\ Out("turn.failed", 0) \in Words
      BY OneItem DEF Whats
    <3>2. p.open \in BOOLEAN /\ c \in Tools \union {"output", "error", "busy", "text", "start", "finish", "unused"}
      BY DEF Procs, Chunks, Structural, Content
    <3> QED  BY <3>1, <3>2, ObserveIs, NothingSaid
  <2> QED  BY <1>1, <2>1, <2>2
<1>2. CASE ~p.json
  <2>1. CASE c \in Tools
    <3>1. Said(p, c, n) =
            (IF p.message > 0 THEN Err("preamble", p.message) ELSE Nothing) ++ Err("tool", 0)
      BY <1>2, <2>1, Zenon DEF Said, Tools, IsError
    <3> DEFINE before == IF p.message > 0 THEN Err("preamble", p.message) ELSE Nothing
    <3>2. before \in Words /\ before.out = <<>>
      BY <1>0, OneItem, NothingSaid DEF Whats
    <3>4. Said(p, c, n) = before ++ Err("tool", 0)
      BY <3>1
    <3>3. Err("tool", 0) \in Words /\ Err("tool", 0).out = <<>> /\ c # "error"
      BY <2>1, OneItem DEF Tools, Whats
    <3> HIDE DEF before
    <3>5. before ++ Err("tool", 0) \in Words /\ (before ++ Err("tool", 0)).out = <<>>
      BY <3>2, <3>3, Together
    <3> QED  BY <1>2, <3>3, <3>4, <3>5
  <2>2. CASE c = "output"
    <3>1. Said(p, c, n) = Err("done", 0)
      BY <1>2, <2>2, Zenon DEF Said, Tools, IsError
    <3>2. Err("done", 0) \in Words /\ Err("done", 0).out = <<>>
      BY OneItem DEF Whats
    <3> QED  BY <1>2, <2>2, <3>1, <3>2
  <2>3. CASE c \in {"error", "busy"}
    <3>1. Said(p, c, n) = Err("ERROR", n)
      BY <1>2, <2>3, Zenon DEF Said, Tools, IsError
    <3> QED  BY <1>2, <3>1, OneItem DEF Whats
  <2>4. CASE c \in {"text", "start", "finish", "unused"}
    <3>1. Said(p, c, n) = Nothing
      BY <1>2, <2>4, Zenon DEF Said, Tools, IsError
    <3> QED  BY <1>2, <2>4, <3>1, NothingSaid
  <2> QED  BY <2>1, <2>2, <2>3, <2>4 DEF Chunks, Structural, Content
<1> QED  BY <1>1, <1>2 DEF Procs

LEMMA FinalIs ==
  ASSUME NEW p \in Procs, NEW status, NEW diff \in {"same", "diff", "unavailable"}
  PROVE  /\ FinalWords(p, status, diff) \in Words
         /\ p.json /\ ~p.open => FinalWords(p, status, diff).out = <<>>
         /\ p.json /\ p.open => FinalWords(p, status, diff).out =
              <<[what |-> IF status = "error" \/ p.errorSeen THEN "turn.failed"
                          ELSE "turn.completed", n |-> 0]>>
         /\ ~p.json => FinalWords(p, status, diff).out =
              IF p.message > 0 THEN <<[what |-> "final", n |-> p.message]>> ELSE <<>>
<1>0. p.message \in Nat
  BY DEF Procs
<1>1. CASE p.json /\ ~p.open
  <2>1. FinalWords(p, status, diff) = Nothing
    BY <1>1 DEF FinalWords
  <2> QED  BY <1>1, <2>1, NothingSaid
<1>2. CASE p.json /\ p.open
  <2>1. FinalWords(p, status, diff) =
          Out(IF status = "error" \/ p.errorSeen THEN "turn.failed" ELSE "turn.completed", 0)
    BY <1>2 DEF FinalWords
  <2> QED  BY <1>2, <2>1, OneItem DEF Whats
<1>3. CASE ~p.json
  <2> DEFINE a == IF p.message > 0 THEN Out("final", p.message) ELSE Nothing
             b == IF p.wrote /\ diff # "same" THEN Err(diff, 0) ELSE Nothing
             c == Err(IF status = "error" \/ p.errorSeen THEN "status=error" ELSE "status=finished", 0)
  <2>1. FinalWords(p, status, diff) = a ++ b ++ c
    BY <1>3 DEF FinalWords
  <2>2. /\ a \in Words
        /\ a.out = IF p.message > 0 THEN <<[what |-> "final", n |-> p.message]>> ELSE <<>>
    BY <1>0, OneItem, NothingSaid DEF Whats
  <2>3. b \in Words /\ b.out = <<>>
    <3>1. diff \in {"diff", "unavailable"} => Err(diff, 0) \in Words /\ Err(diff, 0).out = <<>>
      <4>1. diff \in {"diff", "unavailable"} => diff \in Whats
        BY DEF Whats
      <4> QED  BY <4>1, OneItem
    <3> QED  BY <3>1, NothingSaid
  <2>4. c \in Words /\ c.out = <<>>
    BY OneItem DEF Whats
  <2> HIDE DEF a, b, c
  <2>5. a ++ b \in Words /\ (a ++ b).out = a.out
    BY <2>2, <2>3, Together
  <2>6. a ++ b ++ c \in Words /\ (a ++ b ++ c).out = a.out
    BY <2>4, <2>5, Together
  <2> QED  BY <1>3, <2>1, <2>2, <2>6
<1> QED  BY <1>1, <1>2, <1>3 DEF Procs

-----------------------------------------------------------------------------
(* What a pass holds and hands over.                                       *)

LEMMA TakenIs ==
  ASSUME NEW pass, NEW c
  PROVE  /\ c = "busy" => /\ Taken(pass, c) = [pass EXCEPT !.contended = TRUE]
                          /\ HandedOver(pass, c) = <<>>
         /\ c \in Structural /\ ~pass.released /\ ~pass.emit =>
              /\ Taken(pass, c) = [pass EXCEPT !.held = Append(@, c)]
              /\ HandedOver(pass, c) = <<>>
         /\ c # "busy" /\ ~(c \in Structural /\ ~pass.released /\ ~pass.emit) =>
              /\ Taken(pass, c) = [pass EXCEPT !.released = TRUE, !.held = <<>>]
              /\ HandedOver(pass, c) = Append(pass.held, c)
<1>1. ASSUME c = "busy" PROVE Taken(pass, c) = [pass EXCEPT !.contended = TRUE]
  BY <1>1, Zenon DEF Taken, Structural
<1>2. ASSUME c \in Structural, ~pass.released, ~pass.emit
      PROVE  Taken(pass, c) = [pass EXCEPT !.held = Append(@, c)]
  BY <1>2, Zenon DEF Taken, Structural
<1>3. ASSUME c # "busy", ~(c \in Structural /\ ~pass.released /\ ~pass.emit)
      PROVE  Taken(pass, c) = [pass EXCEPT !.released = TRUE, !.held = <<>>]
  BY <1>3, Zenon DEF Taken
<1>4. /\ c = "busy" \/ (c \in Structural /\ ~pass.released /\ ~pass.emit) =>
           HandedOver(pass, c) = <<>>
      /\ c # "busy" /\ ~(c \in Structural /\ ~pass.released /\ ~pass.emit) =>
           HandedOver(pass, c) = Append(pass.held, c)
  BY Zenon DEF HandedOver
<1> QED  BY <1>1, <1>2, <1>3, <1>4, Zenon

LEMMA AppendPair == ASSUME NEW a, NEW b PROVE Append(<<a>>, b) = <<a, b>>
<1>1. <<a>> \in Seq({a, b}) /\ <<a, b>> \in Seq({a, b}) /\ b \in {a, b}
  OBVIOUS
<1>2. Len(<<a>>) = 1 /\ <<a>>[1] = a /\ Len(<<a, b>>) = 2 /\ <<a, b>>[1] = a /\ <<a, b>>[2] = b
  OBVIOUS
<1>3. /\ Append(<<a>>, b) \in Seq({a, b}) /\ Len(Append(<<a>>, b)) = 2
      /\ Append(<<a>>, b)[1] = a /\ Append(<<a>>, b)[2] = b
  BY <1>1, <1>2
<1>4. \A i \in 1..2 : Append(<<a>>, b)[i] = <<a, b>>[i]
  <2>1. \A i \in 1..2 : i = 1 \/ i = 2
    OBVIOUS
  <2> QED  BY <1>2, <1>3, <2>1, Zenon
<1>5. Len(Append(<<a>>, b)) = Len(<<a, b>>)
  BY <1>2, <1>3, Zenon
<1> QED  BY <1>1, <1>2, <1>3, <1>4, <1>5, SeqEqual, Zenon

LEMMA Held ==
  ASSUME NEW c \in Chunks
  PROVE  /\ <<>> \in Seq(Chunks) /\ <<c>> \in Seq(Chunks) /\ <<"start", c>> \in Seq(Chunks)
         /\ Append(<<>>, c) = <<c>> /\ Append(<<"start">>, c) = <<"start", c>>
         /\ <<c>> # <<>> /\ <<"start", c>> # <<>>
<1>1. "start" \in Chunks
  BY DEF Chunks, Structural
<1>2. <<>> \in Seq(Chunks) /\ <<c>> \in Seq(Chunks) /\ <<"start", c>> \in Seq(Chunks)
  BY <1>1
<1>3. Append(<<>>, c) = <<c>>
  OBVIOUS
<1>4. Append(<<"start">>, c) = <<"start", c>>
  BY AppendPair, Zenon
<1>5. Len(<<>>) = 0 /\ Len(<<c>>) # 0 /\ Len(<<"start", c>>) # 0
  OBVIOUS
<1>6. <<c>> # <<>> /\ <<"start", c>> # <<>>
  BY <1>5, Zenon
<1> QED  BY <1>2, <1>3, <1>4, <1>6

(* The start that is held says nothing: with what is handed over after it, *)
(* the processor hears the one chunk.                                      *)
LEMMA Delivered ==
  ASSUME NEW p, NEW c \in Chunks, NEW held \in {<<>>, <<"start">>}
  PROVE  HeardAll(p, held) = p /\ HeardAll(p, Append(held, c)) = Heard(p, c)
<1> DEFINE start == "start"
<1>1. Heard(p, start) = p
  BY HeardIs
<1> HIDE DEF start
<1>2. HeardAll(p, <<>>) = p
  BY HeardAllIs, Zenon
<1>3. HeardAll(p, <<start>>) = Heard(p, start) /\ HeardAll(p, <<c>>) = Heard(p, c)
  BY HeardAllIs, Zenon
<1>4. HeardAll(p, <<start, c>>) = Heard(Heard(p, start), c)
  BY HeardAllIs, SMT
<1>5. HeardAll(p, <<start>>) = p /\ HeardAll(p, <<start, c>>) = Heard(p, c)
  BY <1>1, <1>3, <1>4, Zenon
<1> USE DEF start
<1>6. Append(<<start>>, c) = <<start, c>> /\ Append(<<>>, c) = <<c>>
  BY Held, Zenon
<1>7. held = <<>> \/ held = <<start>>
  OBVIOUS
<1> QED  BY <1>2, <1>3, <1>5, <1>6, <1>7, Zenon

(* What a chunk changes of the processor.                                  *)
LEMMA HeardChanges ==
  ASSUME NEW p \in Procs, NEW c \in Chunks \ {"busy"}
  PROVE  /\ Heard(p, c) \in Procs
         /\ Heard(p, c).json = p.json
         /\ Heard(p, c).message = IF c = "text" THEN p.message + 1
                                  ELSE IF c \in Tools THEN 0 ELSE p.message
         /\ Heard(p, c).errorSeen = (c = "error" \/ p.errorSeen)
         /\ Heard(p, c).open = (c # "error" /\ p.open)
         /\ Heard(p, c).used = IF c \in {"finish", "unused"} THEN c = "finish" ELSE p.used
<1>0. Heard(p, c) \in Procs
  BY HeardProc
<1>1. CASE c = "text"
  <2>1. Heard(p, c) = [p EXCEPT !.message = @ + 1]
    BY <1>1, HeardIs, Zenon
  <2> QED  BY <1>0, <1>1, <2>1 DEF Procs, Tools
<1>2. CASE c \in Tools
  <2>1. Heard(p, c) = [p EXCEPT !.message = 0, !.wrote = @ \/ c = "write"]
    BY <1>2, HeardIs, Zenon
  <2>2. (p.wrote \/ c = "write") \in BOOLEAN
    OBVIOUS
  <2>3. PICK w \in BOOLEAN : Heard(p, c) = [p EXCEPT !.message = 0, !.wrote = w]
    BY <2>1, <2>2, Zenon
  <2> QED  BY <1>0, <1>2, <2>3 DEF Procs, Tools
<1>3. CASE c = "error"
  <2>1. Heard(p, c) = [p EXCEPT !.errorSeen = TRUE, !.open = FALSE]
    BY <1>3, HeardIs, Zenon
  <2> QED  BY <1>0, <1>3, <2>1 DEF Procs, Tools
<1>4. CASE c \in {"finish", "unused"}
  <2>1. Heard(p, c) = [p EXCEPT !.used = c = "finish"]
    BY <1>4, HeardIs, Zenon
  <2> QED  BY <1>0, <1>4, <2>1 DEF Procs, Tools
<1>5. CASE c \in {"start", "output"}
  <2>1. Heard(p, c) = p
    BY <1>5, HeardIs, Zenon
  <2> QED  BY <1>0, <1>5, <2>1 DEF Procs, Tools
<1> QED  BY <1>1, <1>2, <1>3, <1>4, <1>5 DEF Chunks, Structural, Content, Tools

(* The processor keeps up with the stream, whether a chunk that says       *)
(* nothing reaches it or not.                                              *)
LEMMA HeardKept ==
  ASSUME NEW t \in Turns, HeardInv(t), NEW u, u.proc = t.proc,
         NEW c \in Structural \union {"busy", "retry"}, u.stream = Append(t.stream, c)
  PROVE  HeardInv(u)
<1>1. t.stream \in Streams /\ c \in Chunks \union {"retry"} /\ c \notin Tools \union {"text", "error"}
  BY DEF Turns, Chunks, Structural, Tools
<1>2. In(u.stream, {"error"}) = In(t.stream, {"error"})
  BY <1>1, StreamGrows
<1>3. TextsAfterTools(u.stream) = TextsAfterTools(t.stream)
  BY <1>1, TextsGrow
<1> QED  BY <1>2, <1>3 DEF HeardInv

LEMMA HeardGrows ==
  ASSUME NEW t \in Turns, HeardInv(t), NEW c \in Chunks \ {"busy"},
         NEW u, u.proc = Heard(t.proc, c), u.stream = Append(t.stream, c)
  PROVE  HeardInv(u)
<1>1. t.stream \in Streams /\ t.proc \in Procs /\ c \in Chunks \union {"retry"} /\ "text" \notin Tools
  BY DEF Turns, Tools
<1>2. /\ t.proc.errorSeen \in BOOLEAN /\ t.proc.open \in BOOLEAN
  BY <1>1 DEF Procs
<1>3. u.proc.message = Cardinality(TextsAfterTools(u.stream))
  BY <1>1, TextsGrow, HeardChanges DEF HeardInv
<1>4. u.proc.errorSeen <=> In(u.stream, {"error"}) # {}
  <2>1. In(u.stream, {"error"}) = IF c = "error" THEN In(t.stream, {"error"}) \union {Len(t.stream) + 1}
                                  ELSE In(t.stream, {"error"})
    <3>1. \A chunks : In(Append(t.stream, c), chunks) =
            IF c \in chunks THEN In(t.stream, chunks) \union {Len(t.stream) + 1}
            ELSE In(t.stream, chunks)
      BY <1>1, StreamGrows
    <3>2. In(u.stream, {"error"}) =
            IF c \in {"error"} THEN In(t.stream, {"error"}) \union {Len(t.stream) + 1}
            ELSE In(t.stream, {"error"})
      BY <3>1
    <3> QED  BY <3>2
  <2>2. u.proc.errorSeen = (c = "error" \/ t.proc.errorSeen)
    BY <1>1, HeardChanges
  <2> QED  BY <2>1, <2>2 DEF HeardInv
<1>5. u.proc.open <=> ~u.proc.errorSeen
  BY <1>1, <1>2, HeardChanges DEF HeardInv
<1> QED  BY <1>3, <1>4, <1>5 DEF HeardInv

(* What is said of a chunk ends the turn of the JSONL fold when the chunk  *)
(* is an error, and leaves a reader's stdout alone.                        *)
LEMMA OutSaid ==
  ASSUME NEW t \in Turns, NEW w \in Words, OutInv(t, w.out), NEW c \in Chunks \ {"busy"},
         NEW n \in Nat, NEW u, u.proc = Heard(t.proc, c)
  PROVE  w ++ Said(t.proc, c, n) \in Words /\ OutInv(u, (w ++ Said(t.proc, c, n)).out)
<1>0. /\ t.proc \in Procs /\ t.proc.json \in BOOLEAN /\ t.proc.open \in BOOLEAN
      /\ w.out \in Seq(Items) /\ c \in Chunks
  BY DEF Turns, Procs, Words
<1>1. /\ Said(t.proc, c, n) \in Words
      /\ t.proc.json => Said(t.proc, c, n) = Observe(t.proc, c)
      /\ ~t.proc.json => Said(t.proc, c, n).out = <<>>
  BY <1>0, SaidIs
<1>2. /\ w ++ Said(t.proc, c, n) \in Words
      /\ (w ++ Said(t.proc, c, n)).out = w.out \o Said(t.proc, c, n).out
      /\ Said(t.proc, c, n).out = <<>> => (w ++ Said(t.proc, c, n)).out = w.out
  BY <1>1, Together
<1>3. /\ u.proc.json = t.proc.json
      /\ u.proc.open = (c # "error" /\ t.proc.open)
  BY <1>0, HeardChanges
<1>4. CASE ~t.proc.json
  BY <1>1, <1>2, <1>3, <1>4 DEF OutInv
<1>5. CASE t.proc.json
  <2>0. Said(t.proc, c, n) = Observe(t.proc, c)
    BY <1>1, <1>5
  <2>1. CASE ~t.proc.open \/ c \in {"text", "start", "finish", "unused"}
    <3>1. Observe(t.proc, c).out = <<>>
      BY <1>0, <2>1, ObserveIs, NothingSaid
    <3>2. (w ++ Said(t.proc, c, n)).out = w.out
      BY <1>2, <2>0, <3>1
    <3>3. u.proc.open = t.proc.open
      BY <1>0, <1>3, <2>1
    <3>4. OutInv(u, w.out)
      BY <1>3, <3>3 DEF OutInv
    <3> QED  BY <1>2, <3>2, <3>4
  <2>2. CASE t.proc.open /\ c \in Tools \union {"output"}
    <3>1. PICK x \in Items : x.what \notin {"turn.completed", "turn.failed"} /\ Observe(t.proc, c).out = <<x>>
      <4>1. /\ Out("item.started", 0).out = <<[what |-> "item.started", n |-> 0]>>
            /\ Out("item.completed", 0).out = <<[what |-> "item.completed", n |-> 0]>>
            /\ [what |-> "item.started", n |-> 0] \in Items
            /\ [what |-> "item.completed", n |-> 0] \in Items
        BY OneItem DEF Whats
      <4>2. CASE c \in Tools
        <5>1. Observe(t.proc, c) = Out("item.started", 0)
          BY <2>2, <4>2, ObserveIs
        <5> QED  BY <4>1, <5>1
      <4>3. CASE c = "output"
        <5>1. Observe(t.proc, c) = Out("item.completed", 0)
          BY <2>2, <4>3, ObserveIs
        <5> QED  BY <4>1, <5>1
      <4> QED  BY <2>2, <4>2, <4>3
    <3>2. w.out # <<>> /\ w.out[1].what = "thread.started" /\ Ends(w.out) = {}
      BY <1>5, <2>2 DEF OutInv
    <3>3. (w ++ Said(t.proc, c, n)).out = w.out \o <<x>>
      BY <1>2, <2>0, <3>1
    <3>4. /\ w.out \o <<x>> # <<>> /\ (w.out \o <<x>>)[1] = w.out[1]
          /\ Ends(w.out \o <<x>>) = Ends(w.out)
      BY <1>0, <3>1, <3>2, OutGrows
    <3>5. u.proc.open = TRUE
      BY <1>3, <2>2 DEF Tools
    <3>6. OutInv(u, w.out \o <<x>>)
      <4>1. u.proc.json /\ u.proc.open
        BY <1>3, <1>5, <3>5
      <4> QED  BY <3>2, <3>4, <4>1, Zenon DEF OutInv
    <3> QED  BY <1>2, <3>3, <3>6
  <2>3. CASE t.proc.open /\ c = "error"
    <3> DEFINE x == [what |-> "turn.failed", n |-> 0]
    <3>1. x \in Items /\ x.what = "turn.failed" /\ Observe(t.proc, c).out = <<x>>
      <4>1. "turn.failed" \in Whats
        BY DEF Whats
      <4>2. Observe(t.proc, c) = Out("turn.failed", 0)
        BY <2>3, ObserveIs
      <4>3. Out("turn.failed", 0).out = <<x>> /\ x \in Items
        BY <4>1, OneItem
      <4> QED  BY <4>2, <4>3
    <3> HIDE DEF x
    <3>2. w.out # <<>> /\ w.out[1].what = "thread.started" /\ Ends(w.out) = {}
      BY <1>5, <2>3 DEF OutInv
    <3>3. (w ++ Said(t.proc, c, n)).out = w.out \o <<x>>
      BY <1>2, <2>0, <3>1
    <3>4. /\ w.out \o <<x>> # <<>> /\ (w.out \o <<x>>)[1] = w.out[1]
          /\ Len(w.out \o <<x>>) = Len(w.out) + 1 /\ (w.out \o <<x>>)[Len(w.out) + 1] = x
          /\ Ends(w.out \o <<x>>) = Ends(w.out) \union {Len(w.out) + 1}
      BY <1>0, <3>1, <3>2, OutGrows
    <3>5. ~u.proc.open
      BY <1>3, <2>3
    <3>6. OutInv(u, w.out \o <<x>>)
      <4>1. u.proc.json /\ ~u.proc.open
        BY <1>3, <1>5, <3>5
      <4>2. Ends(w.out \o <<x>>) = {Len(w.out \o <<x>>)}
        BY <3>2, <3>4
      <4>3. (w.out \o <<x>>)[Len(w.out \o <<x>>)].what = "turn.failed"
        BY <3>1, <3>4
      <4> QED  BY <3>2, <3>4, <4>1, <4>2, <4>3, Zenon DEF OutInv
    <3> QED  BY <1>2, <3>3, <3>6
  <2> QED  BY <2>1, <2>2, <2>3 DEF Chunks, Structural, Content
<1> QED  BY <1>4, <1>5

(* The latest item on stderr.                                              *)
LEMMA LastSaid ==
  ASSUME NEW err \in Seq(Items), NEW x \in Items
  PROVE  err \o <<x>> # <<>> /\ Last(err \o <<x>>) = x
<1>1. Len(err \o <<x>>) = Len(err) + 1 /\ Len(err) \in Nat /\ (err \o <<x>>)[Len(err) + 1] = x
  OBVIOUS
<1>2. Len(<<>>) = 0
  OBVIOUS
<1>3. Len(err \o <<x>>) # 0
  BY <1>1
<1> QED  BY <1>1, <1>2, <1>3 DEF Last

-----------------------------------------------------------------------------
(* The steps of the turn.                                                  *)

LEMMA LatestIsOf == Latest = LatestOf(turn.stream) /\ \A chunks : At(chunks) = In(turn.stream, chunks)
BY DEF Latest, LatestOf, At, In

LEMMA HighestIs == ASSUME NEW n \in Nat PROVE Highest(n, n + 1) = n + 1
BY DEF Highest

LEMMA NamedIsNat == ASSUME NEW n \in Nat PROVE AttemptsNamed(n) \in Nat
BY DEF AttemptsNamed

LEMMA PassKept ==
  ASSUME NEW t, NEW u, NEW latest, PassInv(t, latest),
         u.proc = t.proc, u.pass = t.pass, u.thrown = t.thrown,
         In(u.stream, {"busy"}) = In(t.stream, {"busy"}),
         In(u.stream, {"finish"}) = In(t.stream, {"finish"}),
         In(u.stream, Content) = In(t.stream, Content)
  PROVE  PassInv(u, latest)
BY DEF PassInv

(* A retry is counted, and nothing else of the turn moves.                 *)
LEMMA RetryTurn == ASSUME TurnInv, ~cleanup.sent, RateLimited PROVE TurnInv'
<1> DEFINE s == turn.stream
           u == [turn EXCEPT !.stream = Append(@, "retry"),
                             !.attempts = Highest(@, Amount({"retry"}) + 1)]
<1>1. /\ phase = "streaming" /\ phase' = phase /\ cleanup' = cleanup /\ printed' = printed
      /\ session' = session /\ turn' = u
  BY DEF RateLimited, Streaming, end
<1>2. /\ turn \in Turns /\ printed \in Words /\ HeardInv(turn) /\ OutInv(turn, printed.out)
      /\ PassInv(turn, LatestOf(s)) /\ BlameInv(turn, printed.err)
  BY <1>1 DEF TurnInv, TypeInv
<1>3. s \in Streams /\ turn.attempts \in Nat
  BY <1>2 DEF Turns
<1>4. turn.attempts = Cardinality(In(s, {"retry"})) /\ Amount({"retry"}) = turn.attempts
  BY <1>2, LatestIsOf DEF BlameInv, Amount
<1>5. /\ u.stream = Append(s, "retry") /\ u.proc = turn.proc /\ u.pass = turn.pass
      /\ u.thrown = turn.thrown /\ u.attempts = turn.attempts + 1 /\ u \in Turns
  <2>1. Highest(turn.attempts, Amount({"retry"}) + 1) = turn.attempts + 1
    BY <1>3, <1>4, HighestIs
  <2>2. Append(s, "retry") \in Streams /\ turn.attempts + 1 \in Nat
    BY <1>3, StreamGrows
  <2>3. u = [turn EXCEPT !.stream = Append(s, "retry"), !.attempts = turn.attempts + 1]
    BY <1>2, <2>1 DEF Turns
  <2> HIDE DEF u
  <2> QED  BY <1>2, <2>2, <2>3 DEF Turns
<1> HIDE DEF u
<1>6. HeardInv(u)
  <2>1. "retry" \in Structural \union {"busy", "retry"}
    OBVIOUS
  <2> QED  BY <1>2, <1>5, <2>1, HeardKept
<1>7. OutInv(u, printed.out)
  BY <1>2, <1>5 DEF OutInv
<1>8. /\ u.stream # <<>> /\ Last(u.stream) = "retry"
      /\ In(u.stream, {"retry"}) = In(s, {"retry"}) \union {Len(s) + 1}
      /\ \A chunks : "retry" \notin chunks => In(u.stream, chunks) = In(s, chunks)
  <2>1. "retry" \in Chunks \union {"retry"}
    OBVIOUS
  <2>2. u.stream # <<>> /\ Last(u.stream) = "retry"
    BY <1>3, <1>5, <2>1, StreamGrows
  <2>3. \A chunks : /\ "retry" \in chunks =>
                         In(Append(s, "retry"), chunks) = In(s, chunks) \union {Len(s) + 1}
                    /\ "retry" \notin chunks => In(Append(s, "retry"), chunks) = In(s, chunks)
    BY <1>3, <2>1, InGrows
  <2> QED  BY <1>5, <2>2, <2>3
<1>9. PassInv(u, LatestOf(u.stream))
  <2>1. LatestOf(u.stream) = LatestOf(s)
    BY <1>3, <1>5, LatestStays
  <2>2. /\ In(u.stream, {"busy"}) = In(s, {"busy"}) /\ In(u.stream, {"finish"}) = In(s, {"finish"})
        /\ In(u.stream, Content) = In(s, Content)
    BY <1>8 DEF Content, Tools
  <2>3. PassInv(turn, LatestOf(s))
    BY <1>2
  <2> QED  BY <1>5, <2>1, <2>2, <2>3, PassKept
<1>10. BlameInv(u, printed.err)
  <2>1. IsFiniteSet(In(s, {"retry"})) /\ In(s, {"retry"}) \subseteq 1..Len(s) /\ Len(s) \in Nat
    BY <1>3, InBounds
  <2>2. Cardinality(In(u.stream, {"retry"})) = Cardinality(In(s, {"retry"})) + 1
    <3>1. Len(s) + 1 \notin In(s, {"retry"})
      BY <2>1
    <3> QED  BY <1>8, <2>1, <3>1, FS_AddElement
  <2> QED  BY <1>4, <1>5, <1>8, <2>2 DEF BlameInv
<1> QED  BY <1>1, <1>2, <1>5, <1>6, <1>7, <1>9, <1>10 DEF TurnInv, TypeInv

(* A chunk that no pass hands over: the start or the end of a stream that  *)
(* has had no content, or that the session is another's.                   *)
Withheld(pass, c) == c = "busy" \/ (c \in Structural /\ ~pass.released /\ ~pass.emit)

LEMMA PassGrows ==
  ASSUME NEW t \in Turns, NEW latest, PassInv(t, latest), NEW c \in Chunks,
         latest \notin {"busy", "finish", "unused"}, latest = "" <=> c = "start",
         c = "busy" => latest = "start",
         NEW u, u.stream = Append(t.stream, c), u.pass = Taken(t.pass, c), ~u.thrown,
         u.proc = IF Withheld(t.pass, c) THEN t.proc ELSE Heard(t.proc, c)
  PROVE  PassInv(u, c)
<1>0. t.stream \in Streams /\ t.pass \in Passes /\ t.proc \in Procs /\ c \in Chunks \union {"retry"}
  BY DEF Turns
<1>1. \A chunks : /\ c \in chunks => In(u.stream, chunks) = In(t.stream, chunks) \union {Len(t.stream) + 1}
                  /\ c \notin chunks => In(u.stream, chunks) = In(t.stream, chunks)
  <2>1. \A chunks :
           /\ c \in chunks =>
                In(Append(t.stream, c), chunks) = In(t.stream, chunks) \union {Len(t.stream) + 1}
           /\ c \notin chunks => In(Append(t.stream, c), chunks) = In(t.stream, chunks)
    BY <1>0, InGrows
  <2> QED  BY <2>1, Zenon
<1>2. /\ In(u.stream, {"busy"}) # {} <=> c = "busy"
      /\ In(u.stream, {"finish"}) # {} <=> c = "finish"
  <2>1. In(t.stream, {"busy"}) = {} /\ In(t.stream, {"finish"}) = {}
    BY DEF PassInv
  <2>2. /\ c \in {"busy"} => In(u.stream, {"busy"}) # {}
        /\ c \notin {"busy"} => In(u.stream, {"busy"}) = {}
    BY <1>1, <2>1
  <2>3. /\ c \in {"finish"} => In(u.stream, {"finish"}) # {}
        /\ c \notin {"finish"} => In(u.stream, {"finish"}) = {}
    BY <1>1, <2>1
  <2> QED  BY <2>2, <2>3
<1>3. /\ ~t.pass.contended /\ ~t.proc.used
      /\ t.pass.emit \/ t.pass.released => t.pass.held = <<>>
  BY DEF PassInv
<1>4. CASE c = "busy"
  <2>1. u.pass = [t.pass EXCEPT !.contended = TRUE] /\ u.proc = t.proc
    BY <1>4, TakenIs DEF Withheld
  <2>2. /\ u.pass.contended /\ u.pass.emit = t.pass.emit /\ u.pass.released = t.pass.released
        /\ u.pass.held = t.pass.held
    BY <1>0, <2>1 DEF Passes
  <2>3. In(u.stream, Content) = In(t.stream, Content)
    BY <1>1, <1>4 DEF Content, Tools
  <2>4. latest = "start"
    BY <1>4
  <2>5. t.pass.released => t.pass.emit
    BY <2>4 DEF PassInv
  <2>6. ~t.pass.emit /\ ~t.pass.released => In(t.stream, Content) = {} /\ t.pass.held = <<"start">>
    BY <2>4, Zenon DEF PassInv
  <2> QED  BY <1>2, <1>3, <1>4, <2>1, <2>2, <2>3, <2>5, <2>6, Zenon DEF PassInv
<1>5. CASE c # "busy" /\ Withheld(t.pass, c)
  <2>1. c \in Structural /\ ~t.pass.released /\ ~t.pass.emit
    BY <1>5 DEF Withheld
  <2>2. u.pass = [t.pass EXCEPT !.held = Append(@, c)] /\ u.proc = t.proc
    BY <1>5, <2>1, TakenIs
  <2>3. /\ u.pass.contended = t.pass.contended /\ u.pass.emit = t.pass.emit
        /\ u.pass.released = t.pass.released /\ u.pass.held = Append(t.pass.held, c)
    BY <1>0, <2>2 DEF Passes
  <2>4. In(u.stream, Content) = {}
    <3>1. In(t.stream, Content) = {}
      BY <2>1 DEF PassInv
    <3>2. c \notin Content
      BY <2>1 DEF Structural, Content, Tools
    <3> QED  BY <1>1, <3>1, <3>2
  <2>5. CASE c = "start"
    <3>1. t.pass.held = <<>>
      BY <2>1, <2>5 DEF PassInv
    <3>2. u.pass.held = <<"start">>
      BY <2>3, <2>5, <3>1, Held
    <3> QED  BY <1>2, <1>3, <2>1, <2>2, <2>3, <2>4, <2>5, <3>2, Zenon DEF PassInv
  <2>6. CASE c \in {"finish", "unused"}
    <3>1. t.pass.held = <<"start">>
      BY <2>1, <2>6 DEF PassInv
    <3>2. u.pass.held = <<"start", c>> /\ u.pass.held # <<>>
      BY <2>3, <3>1, Held
    <3>3. c # "busy" /\ c # "start"
      BY <2>6
    <3> QED  BY <1>2, <1>3, <2>1, <2>2, <2>3, <2>4, <2>6, <3>2, <3>3, Zenon DEF PassInv
  <2> QED  BY <2>1, <2>5, <2>6 DEF Structural
<1>6. CASE ~Withheld(t.pass, c)
  <2>1. c # "busy" /\ ~(c \in Structural /\ ~t.pass.released /\ ~t.pass.emit)
    BY <1>6 DEF Withheld
  <2>2. u.pass = [t.pass EXCEPT !.released = TRUE, !.held = <<>>] /\ u.proc = Heard(t.proc, c)
    BY <1>6, <2>1, TakenIs
  <2>3. /\ u.pass.contended = t.pass.contended /\ u.pass.emit = t.pass.emit
        /\ u.pass.released /\ u.pass.held = <<>>
    BY <1>0, <2>2 DEF Passes
  <2>4. u.proc.used <=> c = "finish"
    <3>1. u.proc.used = IF c \in {"finish", "unused"} THEN c = "finish" ELSE t.proc.used
      <4>1. c \in Chunks \ {"busy"}
        BY <2>1
      <4>2. Heard(t.proc, c).used = IF c \in {"finish", "unused"} THEN c = "finish" ELSE t.proc.used
        BY <1>0, <4>1, HeardChanges
      <4> QED  BY <2>2, <4>2
    <3> QED  BY <1>3, <3>1
  <2>5. c = "start" => t.pass.emit
    <3>1. c = "start" => "start" \in Structural /\ latest = ""
      BY DEF Structural
    <3>2. t.pass.released /\ ~t.pass.emit => latest # ""
      BY DEF PassInv
    <3> QED  BY <2>1, <3>1, <3>2
  <2>6. c # ""
    BY DEF Chunks, Structural, Content, Tools
  <2> QED  BY <1>2, <1>3, <2>1, <2>3, <2>4, <2>5, <2>6, Zenon DEF PassInv
<1> QED  BY <1>4, <1>5, <1>6

LEMMA BlameGrows ==
  ASSUME NEW t \in Turns, NEW err0, BlameInv(t, err0), NEW c \in Chunks,
         NEW u, u.stream = Append(t.stream, c), u.attempts = t.attempts,
         u.proc.json = t.proc.json, NEW err,
         ~t.proc.json /\ c = "error" => err # <<>> /\ Last(err).n = AttemptsNamed(t.attempts)
  PROVE  BlameInv(u, err)
<1>1. t.stream \in Streams /\ c \in Chunks \union {"retry"} /\ c \notin {"retry"}
  BY RetryIsNoChunk DEF Turns
<1>2. In(Append(t.stream, c), {"retry"}) = In(t.stream, {"retry"})
  BY <1>1, InGrows
<1>3. Last(u.stream) = c
  BY <1>1, StreamGrows
<1> QED  BY <1>2, <1>3 DEF BlameInv

(* A chunk is withheld, or handed over after what was: the processor hears *)
(* it and says so, once.                                                   *)
LEMMA ChunkTurn == ASSUME TurnInv, ~cleanup.sent, ChunkArrives PROVE TurnInv'
<1> DEFINE s == turn.stream
           latest == LatestOf(turn.stream)
           n == AttemptsNamed(turn.attempts)
<1>1. /\ phase = "streaming" /\ phase' = phase /\ cleanup' = cleanup /\ session' = session
  BY DEF ChunkArrives, Streaming, end
<1>2. /\ turn \in Turns /\ printed \in Words /\ HeardInv(turn) /\ OutInv(turn, printed.out)
      /\ PassInv(turn, latest) /\ BlameInv(turn, printed.err)
  BY <1>1 DEF TurnInv, TypeInv
<1>3. PICK c \in Chunks :
        /\ CanArrive(c)
        /\ turn' = [turn EXCEPT !.stream = Append(@, c), !.pass = Taken(@, c),
                                !.proc = HeardAll(@, HandedOver(turn.pass, c))]
        /\ IF HandedOver(turn.pass, c) = <<>> THEN UNCHANGED printed
           ELSE printed' = printed ++ Said(HeardAll(turn.proc, turn.pass.held), c, n)
  BY Zenon DEF ChunkArrives, Prints
<1>4. /\ latest \notin {"busy", "finish", "unused"} /\ (latest = "" <=> c = "start")
      /\ c = "busy" => latest = "start"
  BY <1>3, LatestIsOf DEF CanArrive
<1>5. /\ s \in Streams /\ turn.pass \in Passes /\ turn.proc \in Procs /\ turn.attempts \in Nat
      /\ n \in Nat
  BY <1>2, NamedIsNat DEF Turns
<1>6. /\ turn'.stream = Append(s, c) /\ turn'.pass = Taken(turn.pass, c)
      /\ turn'.proc = HeardAll(turn.proc, HandedOver(turn.pass, c))
      /\ turn'.attempts = turn.attempts /\ turn'.thrown = turn.thrown
      /\ DOMAIN turn' = {"proc", "pass", "attempts", "stream", "thrown"}
  BY <1>2, <1>3 DEF Turns
<1>7. /\ Withheld(turn.pass, c) => HandedOver(turn.pass, c) = <<>>
      /\ ~Withheld(turn.pass, c) => HandedOver(turn.pass, c) = Append(turn.pass.held, c)
  BY TakenIs DEF Withheld
<1>8. turn.pass.held \in Seq(Chunks) /\ (~Withheld(turn.pass, c) => turn.pass.held \in {<<>>, <<"start">>})
  <2>1. turn.pass.held \in Seq(Chunks)
    BY <1>5 DEF Passes
  <2>2. turn.pass.held \in {<<>>, <<"start">>}
    BY <1>2, <1>4 DEF PassInv
  <2> QED  BY <2>1, <2>2
<1>9. Withheld(turn.pass, c) => turn'.proc = turn.proc /\ printed' = printed
  <2>1. HeardAll(turn.proc, <<>>) = turn.proc
    BY HeardAllIs
  <2> QED  BY <1>3, <1>6, <1>7, <2>1, Zenon
<1>10. ~Withheld(turn.pass, c) => /\ turn'.proc = Heard(turn.proc, c)
                                  /\ printed' = printed ++ Said(turn.proc, c, n)
  <2> SUFFICES ASSUME ~Withheld(turn.pass, c)
               PROVE  turn'.proc = Heard(turn.proc, c) /\ printed' = printed ++ Said(turn.proc, c, n)
    OBVIOUS
  <2>1. /\ HeardAll(turn.proc, turn.pass.held) = turn.proc
        /\ HeardAll(turn.proc, Append(turn.pass.held, c)) = Heard(turn.proc, c)
    BY <1>8, Delivered
  <2>2. HandedOver(turn.pass, c) # <<>>
    <3>1. Append(turn.pass.held, c) # <<>>
      BY <1>8
    <3> QED  BY <1>7, <3>1
  <2> QED  BY <1>3, <1>6, <1>7, <2>1, <2>2, Zenon
<1>11. /\ ~turn.thrown /\ ~turn.pass.contended
  BY <1>2, <1>4 DEF PassInv
<1>12. Withheld(turn.pass, c) => c \in Structural \union {"busy", "retry"}
  BY DEF Withheld
<1>13. ~Withheld(turn.pass, c) => c \in Chunks \ {"busy"}
  BY DEF Withheld
<1>14. HeardInv(turn')
  BY <1>2, <1>6, <1>9, <1>10, <1>12, <1>13, HeardKept, HeardGrows
<1>15. PassInv(turn', c)
  BY <1>2, <1>4, <1>6, <1>9, <1>10, <1>11, PassGrows
<1>16. printed' \in Words /\ OutInv(turn', printed'.out)
  <2>1. CASE Withheld(turn.pass, c)
    BY <1>2, <1>9, <2>1 DEF OutInv
  <2>2. CASE ~Withheld(turn.pass, c)
    BY <1>2, <1>5, <1>10, <1>13, <2>2, OutSaid
  <2> QED  BY <2>1, <2>2
<1>17. BlameInv(turn', printed'.err)
  <2>1. turn'.proc.json = turn.proc.json
    BY <1>5, <1>9, <1>10, <1>13, HeardChanges
  <2>2. ASSUME ~turn.proc.json, c = "error"
        PROVE  printed'.err # <<>> /\ Last(printed'.err).n = n
    <3> DEFINE x == [what |-> "ERROR", n |-> n]
    <3>1. ~Withheld(turn.pass, c)
      BY <2>2 DEF Withheld, Structural
    <3>2. printed' = printed ++ Said(turn.proc, c, n)
      BY <1>10, <3>1
    <3>3. Said(turn.proc, c, n) \in Words /\ Said(turn.proc, c, n).err = <<x>>
      BY <1>5, <2>2, SaidIs
    <3>4. x \in Items /\ x.n = n
      BY <1>5, OneItem DEF Whats
    <3> HIDE DEF x, n
    <3>5. printed'.err = printed.err \o <<x>>
      BY <1>2, <3>2, <3>3, Together
    <3>6. printed.err \in Seq(Items)
      BY <1>2 DEF Words
    <3> QED  BY <3>4, <3>5, <3>6, LastSaid
  <2> QED  BY <1>2, <1>6, <2>1, <2>2, BlameGrows
<1>18. turn' \in Turns
  <2>1. Append(s, c) \in Streams
    BY <1>5, StreamGrows
  <2>2. turn'.proc \in Procs
    BY <1>5, <1>9, <1>10, <1>13, HeardChanges
  <2>3. Taken(turn.pass, c) \in Passes
    <3>1. Append(turn.pass.held, c) \in Seq(Chunks)
      BY <1>8
    <3>2. CASE c = "busy"
      <4>1. Taken(turn.pass, c) = [turn.pass EXCEPT !.contended = TRUE]
        BY <3>2, TakenIs
      <4> QED  BY <1>5, <4>1 DEF Passes
    <3>3. CASE c \in Structural /\ ~turn.pass.released /\ ~turn.pass.emit
      <4>1. Taken(turn.pass, c) = [turn.pass EXCEPT !.held = Append(@, c)]
        BY <3>3, TakenIs
      <4> QED  BY <1>5, <3>1, <4>1 DEF Passes
    <3>4. CASE c # "busy" /\ ~(c \in Structural /\ ~turn.pass.released /\ ~turn.pass.emit)
      <4>1. Taken(turn.pass, c) = [turn.pass EXCEPT !.released = TRUE, !.held = <<>>]
        BY <3>4, TakenIs
      <4>2. <<>> \in Seq(Chunks)
        OBVIOUS
      <4> QED  BY <1>5, <4>1, <4>2 DEF Passes
    <3> QED  BY <3>2, <3>3, <3>4
  <2>4. turn' = [turn EXCEPT !.stream = Append(s, c), !.pass = Taken(turn.pass, c), !.proc = turn'.proc]
    BY <1>3, <1>6, Zenon
  <2> QED  BY <1>2, <2>1, <2>2, <2>3, <2>4 DEF Turns
<1>19. LatestOf(turn'.stream) = c
  BY <1>5, <1>6, LatestIs
<1> QED  BY <1>1, <1>14, <1>15, <1>16, <1>17, <1>18, <1>19 DEF TurnInv, TypeInv

(* The end of a stream hands over the finish that is still held.           *)
LEMMA EndTurn ==
  ASSUME TurnInv, ~cleanup.sent, StreamEnds, ~turn.pass.contended PROVE TurnInv'
<1> DEFINE latest == LatestOf(turn.stream)
<1>1. /\ phase = "streaming" /\ phase' = "finishing" /\ cleanup' = cleanup /\ session' = session
      /\ printed' = printed /\ turn' = [turn EXCEPT !.proc = HeardAll(@, LeftOver(turn.pass))]
  BY DEF StreamEnds, Streaming, end, Go
<1>2. /\ turn \in Turns /\ printed \in Words /\ HeardInv(turn) /\ OutInv(turn, printed.out)
      /\ PassInv(turn, latest)
  BY <1>1 DEF TurnInv, TypeInv
<1>3. latest \in {"finish", "unused", "error"} /\ In(turn.stream, {"busy"}) = {}
  BY <1>2, LatestIsOf DEF StreamEnds, PassInv
<1>4. turn.proc \in Procs /\ LeftOver(turn.pass) = turn.pass.held
  BY <1>2 DEF Turns, LeftOver
<1>5. /\ turn'.stream = turn.stream /\ turn'.thrown = turn.thrown
      /\ turn'.proc = HeardAll(turn.proc, turn.pass.held)
  BY <1>1, <1>2, <1>4 DEF Turns
<1>6. /\ turn'.proc \in Procs /\ turn'.proc.json = turn.proc.json
      /\ turn'.proc.message = turn.proc.message
      /\ turn'.proc.errorSeen = turn.proc.errorSeen /\ turn'.proc.open = turn.proc.open
      /\ turn'.proc.used <=> latest = "finish"
  <2>1. CASE turn.pass.held = <<>>
    <3>1. turn'.proc = turn.proc
      BY <1>5, <2>1, HeardAllIs, Zenon
    <3>2. turn.proc.used <=> latest = "finish"
      BY <1>2, <2>1 DEF PassInv
    <3> QED  BY <1>4, <3>1, <3>2
  <2>2. CASE turn.pass.held # <<>>
    <3>1. latest \in {"finish", "unused"} /\ turn.pass.held = <<"start", latest>>
      BY <1>2, <1>3, <2>2 DEF PassInv
    <3>2. latest \in Chunks \ {"busy"} /\ latest \notin Tools \union {"text", "error"}
      BY <3>1 DEF Chunks, Structural, Tools
    <3>3. turn'.proc = Heard(turn.proc, latest)
      <4>1. HeardAll(turn.proc, Append(<<"start">>, latest)) = Heard(turn.proc, latest)
        BY <3>2, Delivered
      <4>2. Append(<<"start">>, latest) = <<"start", latest>>
        BY <3>2, Held
      <4> QED  BY <1>5, <3>1, <4>1, <4>2, Zenon
    <3>4. turn.proc.errorSeen \in BOOLEAN /\ turn.proc.open \in BOOLEAN
      BY <1>4 DEF Procs
    <3>5. /\ Heard(turn.proc, latest) \in Procs
          /\ Heard(turn.proc, latest).json = turn.proc.json
          /\ Heard(turn.proc, latest).message = turn.proc.message
          /\ Heard(turn.proc, latest).errorSeen = turn.proc.errorSeen
          /\ Heard(turn.proc, latest).open = turn.proc.open
          /\ Heard(turn.proc, latest).used = (latest = "finish")
      <4> HIDE DEF latest
      <4> QED  BY <1>4, <3>1, <3>2, <3>4, HeardChanges
    <3> QED  BY <3>3, <3>5
  <2> QED  BY <2>1, <2>2
<1>7. HeardInv(turn')
  BY <1>2, <1>5, <1>6 DEF HeardInv
<1>8. OutInv(turn', printed'.out)
  BY <1>1, <1>2, <1>6 DEF OutInv
<1>9. OverInv(turn')
  BY <1>2, <1>3, <1>5, <1>6 DEF OverInv, PassInv
<1>10. turn' \in Turns
  BY <1>1, <1>2, <1>4, <1>5, <1>6 DEF Turns
<1> QED  BY <1>1, <1>2, <1>7, <1>8, <1>9, <1>10 DEF TurnInv, TypeInv

(* A session that is still another's when it was forked, and a stream that *)
(* throws, end the turn as a failure.                                      *)
LEMMA ThrownTurn ==
  ASSUME TurnInv, ~cleanup.sent, phase = "streaming", phase' = "finishing", cleanup' = cleanup,
         session' = session, printed' = printed, turn' = [turn EXCEPT !.thrown = TRUE]
  PROVE  TurnInv'
<1>1. turn \in Turns /\ printed \in Words /\ HeardInv(turn) /\ OutInv(turn, printed.out)
  BY DEF TurnInv, TypeInv
<1>2. /\ turn'.stream = turn.stream /\ turn'.proc = turn.proc /\ turn'.thrown /\ turn' \in Turns
  BY <1>1 DEF Turns
<1>3. HeardInv(turn') /\ OutInv(turn', printed'.out) /\ OverInv(turn')
  BY <1>1, <1>2 DEF HeardInv, OutInv, OverInv
<1> QED  BY <1>1, <1>2, <1>3 DEF TurnInv, TypeInv

(* The fork begins with nothing: no content came before the session was    *)
(* said to be another's, so the processor has heard nothing either.        *)
LEMMA ForkedTurn ==
  ASSUME TurnInv, ~cleanup.sent, StreamEnds, turn.pass.contended, ~turn.pass.emit PROVE TurnInv'
<1> DEFINE latest == LatestOf(turn.stream)
           w == Err("forking", 0)
<1>1. /\ phase = "streaming" /\ phase' = phase /\ cleanup' = cleanup
      /\ printed' = printed ++ w /\ turn' = SecondPass
  BY DEF StreamEnds, Streaming, end, Prints
<1>2. /\ turn \in Turns /\ printed \in Words /\ HeardInv(turn) /\ OutInv(turn, printed.out)
      /\ PassInv(turn, latest)
  BY <1>1 DEF TurnInv, TypeInv
<1>3. /\ turn'.stream = <<>> /\ turn'.thrown = turn.thrown /\ turn'.proc = turn.proc
      /\ turn'.pass = NewPass(TRUE) /\ turn'.attempts = 0
  BY <1>1, <1>2 DEF Turns, SecondPass
<1>4. In(turn.stream, Content) = {} /\ ~turn.thrown /\ ~turn.proc.used
  BY <1>2 DEF PassInv
<1>5. turn.proc.message = 0 /\ ~turn.proc.errorSeen /\ turn.proc.open
  <2>1. In(turn.stream, {"error"}) = {} /\ TextsAfterTools(turn.stream) = {}
    BY <1>4 DEF In, TextsAfterTools, Content
  <2>2. Cardinality({}) = 0
    BY FS_EmptySet
  <2> QED  BY <1>2, <2>1, <2>2 DEF HeardInv
<1>6. w \in Words /\ w.out = <<>>
  BY OneItem DEF Whats
<1> HIDE DEF w
<1>7. printed' \in Words /\ printed'.out = printed.out
  BY <1>1, <1>2, <1>6, Together
<1>8. turn' \in Turns
  <2>1. NewPass(TRUE) \in Passes /\ <<>> \in Streams
    BY DEF NewPass, Passes, Streams
  <2> QED  BY <1>1, <1>2, <2>1 DEF Turns, SecondPass
<1>9. HeardInv(turn') /\ OutInv(turn', printed'.out)
  <2>1. HeardInv(turn')
    BY <1>3, <1>5, EmptyStream DEF HeardInv
  <2> QED  BY <1>2, <1>3, <1>7, <2>1 DEF OutInv
<1>10. PassInv(turn', LatestOf(turn'.stream))
  <2>1. /\ turn'.pass.emit /\ ~turn'.pass.released /\ ~turn'.pass.contended /\ turn'.pass.held = <<>>
    BY <1>3 DEF NewPass
  <2> QED  BY <1>3, <1>4, <2>1, EmptyStream DEF PassInv
<1>11. BlameInv(turn', printed'.err)
  BY <1>3, EmptyStream DEF BlameInv
<1> QED  BY <1>1, <1>7, <1>8, <1>9, <1>10, <1>11 DEF TurnInv, TypeInv

LEMMA StreamTurn == ASSUME TurnInv, ~cleanup.sent, StreamEnds \/ StreamThrows PROVE TurnInv'
<1>1. CASE StreamThrows
  BY <1>1, ThrownTurn DEF StreamThrows, Streaming, Go, end
<1>2. CASE StreamEnds /\ turn.pass.contended /\ turn.pass.emit
  BY <1>2, ThrownTurn DEF StreamEnds, Streaming, Go, end
<1> QED  BY <1>1, <1>2, EndTurn, ForkedTurn

(* What the turn failed in and what it answered, as the processor knows it. *)
LEMMA Outcome ==
  ASSUME TypeInv, HeardInv(turn), OverInv(turn)
  PROVE  /\ Failed <=> turn.thrown \/ turn.proc.errorSeen
         /\ AfterLastTool = turn.proc.message
         /\ ~turn.thrown => (Answered <=> turn.proc.message > 0 \/ turn.proc.used)
<1>1. AfterLastTool = turn.proc.message
  BY LatestIsOf DEF AfterLastTool, HeardInv, TextsAfterTools
<1>2. At({"error", "busy"}) = In(turn.stream, {"error"}) \union In(turn.stream, {"busy"})
  BY DEF At, In
<1>3. turn.thrown \in BOOLEAN
  BY DEF TypeInv, Turns
<1> QED  BY <1>1, <1>2, <1>3, LatestIsOf DEF Failed, Answered, HeardInv, OverInv

(* The end of the turn is said once, after everything else that is on      *)
(* stdout.                                                                 *)
LEMMA OutEnds ==
  ASSUME NEW t \in Turns, NEW w \in Words, OutInv(t, w.out),
         t.proc.open <=> ~t.proc.errorSeen, NEW f \in Words, NEW failed \in BOOLEAN,
         failed <=> t.thrown \/ t.proc.errorSeen,
         t.proc.json /\ ~t.proc.open => f.out = <<>>,
         t.proc.json /\ t.proc.open =>
           f.out = <<[what |-> IF failed THEN "turn.failed" ELSE "turn.completed", n |-> 0]>>
  PROVE  t.proc.json => LET out == w.out \o f.out
                        IN /\ out[1].what = "thread.started"
                           /\ Ends(out) = {Len(out)}
                           /\ (Last(out).what = "turn.failed" <=> failed)
<1> SUFFICES ASSUME t.proc.json
             PROVE  LET out == w.out \o f.out
                    IN /\ out[1].what = "thread.started"
                       /\ Ends(out) = {Len(out)}
                       /\ (Last(out).what = "turn.failed" <=> failed)
  OBVIOUS
<1>1. /\ w.out \in Seq(Items) /\ w.out # <<>> /\ w.out[1].what = "thread.started"
      /\ t.proc.open \in BOOLEAN
  BY DEF OutInv, Words, Turns, Procs
<1>2. CASE ~t.proc.open
  <2>1. w.out \o f.out = w.out
    <3>1. f.out = <<>>
      BY <1>2
    <3>2. w.out \o <<>> = w.out
      BY <1>1
    <3> QED  BY <3>1, <3>2
  <2>2. Ends(w.out) = {Len(w.out)} /\ w.out[Len(w.out)].what = "turn.failed"
    BY <1>2 DEF OutInv
  <2>3. failed
    BY <1>2
  <2> QED  BY <1>1, <2>1, <2>2, <2>3 DEF Last
<1>3. CASE t.proc.open
  <2> DEFINE x == [what |-> IF failed THEN "turn.failed" ELSE "turn.completed", n |-> 0]
  <2>1. x \in Items /\ x.what \in {"turn.completed", "turn.failed"} /\ (x.what = "turn.failed" <=> failed)
    <3>1. {"turn.completed", "turn.failed"} \subseteq Whats
      BY DEF Whats
    <3> QED  BY <3>1 DEF Items
  <2>2. f.out = <<x>>
    BY <1>3
  <2> HIDE DEF x
  <2>3. Ends(w.out) = {}
    BY <1>3 DEF OutInv
  <2>4. /\ Len(w.out \o <<x>>) = Len(w.out) + 1 /\ Len(w.out) \in Nat
        /\ (w.out \o <<x>>)[1] = w.out[1] /\ (w.out \o <<x>>)[Len(w.out) + 1] = x
        /\ Ends(w.out \o <<x>>) = {Len(w.out) + 1}
    BY <1>1, <2>1, <2>3, OutGrows
  <2>5. Last(w.out \o <<x>>) = x
    BY <2>4 DEF Last
  <2> QED  BY <1>1, <2>1, <2>2, <2>4, <2>5
<1> QED  BY <1>1, <1>2, <1>3

LEMMA FinishTurn == ASSUME TurnInv, ~cleanup.sent, FinishRun PROVE TurnInv'
<1> DEFINE p == Finished(turn.proc, Status)
           empty == EmptyTurn(p, Status)
           first == IF turn.thrown /\ ~p.json THEN Err("ERROR", 0) ELSE Nothing
           third == IF empty THEN Err("never-called", 0) ELSE Nothing
<1>1. /\ phase = "finishing" /\ phase' = "draining" /\ cleanup' = cleanup
      /\ code' = IF p.errorSeen \/ empty THEN "1" ELSE "0"
      /\ turn' = [turn EXCEPT !.proc = p]
  BY DEF FinishRun, end
<1>2. PICK diff \in {"same", "diff", "unavailable"}, written \in BOOLEAN :
        printed' = printed ++ (first ++ FinalWords(turn.proc, Status, diff) ++ third
                                ++ (IF "output-last-message" \in args.carried /\ ~written
                                    THEN Err("-o", 0) ELSE Nothing))
  BY DEF FinishRun, Prints
<1> DEFINE fourth == IF "output-last-message" \in args.carried /\ ~written
                     THEN Err("-o", 0) ELSE Nothing
           final == FinalWords(turn.proc, Status, diff)
<1>3. turn \in Turns /\ printed \in Words /\ HeardInv(turn) /\ OutInv(turn, printed.out) /\ OverInv(turn)
  BY <1>1 DEF TurnInv, TypeInv
<1>4. /\ turn.proc \in Procs /\ turn.thrown \in BOOLEAN /\ turn.proc.errorSeen \in BOOLEAN
      /\ turn.proc.message \in Nat /\ turn.proc.json \in BOOLEAN /\ turn.proc.used \in BOOLEAN
  BY <1>3 DEF Turns, Procs
<1>5. /\ turn'.stream = turn.stream /\ turn'.thrown = turn.thrown /\ turn'.proc = p
  BY <1>1, <1>3 DEF Turns
<1>6. /\ p.json = turn.proc.json /\ p.message = turn.proc.message /\ p.used = turn.proc.used
      /\ p.errorSeen = (turn.proc.errorSeen \/ turn.thrown)
  BY <1>4 DEF Finished, Status, Procs
<1>7. /\ Failed <=> turn.thrown \/ turn.proc.errorSeen
      /\ AfterLastTool = turn.proc.message
      /\ ~turn.thrown => (Answered <=> turn.proc.message > 0 \/ turn.proc.used)
  BY <1>3, Outcome DEF TypeInv
<1>8. Failed' = Failed /\ AfterLastTool' = AfterLastTool /\ Answered' = Answered
  BY <1>5 DEF Failed, AfterLastTool, Answered, At
<1>9. code' = "0" <=> ~Failed /\ Answered
  BY <1>1, <1>4, <1>6, <1>7 DEF EmptyTurn, Status
<1>10. /\ final \in Words /\ printed' \in Words /\ printed'.out = printed.out \o final.out
  <2>1. first \in Words /\ third \in Words /\ fourth \in Words
        /\ first.out = <<>> /\ third.out = <<>> /\ fourth.out = <<>>
    BY OneItem, NothingSaid DEF Whats
  <2>2. final \in Words
    BY <1>4, FinalIs
  <2>3. printed' = printed ++ (first ++ final ++ third ++ fourth)
    BY <1>2
  <2> HIDE DEF first, final, third, fourth
  <2>4. first ++ final \in Words /\ (first ++ final).out = final.out
    BY <2>1, <2>2, Together
  <2>5. first ++ final ++ third \in Words /\ (first ++ final ++ third).out = final.out
    BY <2>1, <2>4, Together
  <2>6. first ++ final ++ third ++ fourth \in Words /\ (first ++ final ++ third ++ fourth).out = final.out
    BY <2>1, <2>5, Together
  <2> DEFINE words == first ++ final ++ third ++ fourth
  <2>7. words \in Words /\ words.out = final.out /\ printed' = printed ++ words
    BY <2>3, <2>6
  <2> HIDE DEF words
  <2>8. printed ++ words \in Words /\ (printed ++ words).out = printed.out \o words.out
    BY <1>3, <2>7, Together
  <2> QED  BY <2>2, <2>7, <2>8
<1>11. Status = "error" <=> turn.thrown
  BY DEF Status
<1>12. /\ turn.proc.json /\ ~turn.proc.open => final.out = <<>>
       /\ turn.proc.json /\ turn.proc.open =>
            final.out = <<[what |-> IF Failed THEN "turn.failed" ELSE "turn.completed", n |-> 0]>>
       /\ ~turn.proc.json =>
            final.out = IF turn.proc.message > 0 THEN <<[what |-> "final", n |-> turn.proc.message]>>
                        ELSE <<>>
  BY <1>4, <1>7, <1>11, FinalIs
<1>13. turn.proc.json => /\ printed'.out[1].what = "thread.started"
                         /\ Ends(printed'.out) = {Len(printed'.out)}
                         /\ (Last(printed'.out).what = "turn.failed" <=> Failed)
  <2>1. Failed \in BOOLEAN /\ (turn.proc.open <=> ~turn.proc.errorSeen)
    BY <1>3, <1>4, <1>7 DEF HeardInv, Failed
  <2> HIDE DEF final
  <2> DEFINE out == printed.out \o final.out
  <2>2. turn.proc.json => /\ out[1].what = "thread.started"
                          /\ Ends(out) = {Len(out)}
                          /\ (Last(out).what = "turn.failed" <=> Failed)
    BY <1>3, <1>7, <1>10, <1>12, <2>1, OutEnds
  <2> QED  BY <1>10, <2>2
<1>14. ~turn.proc.json => printed'.out = IF AfterLastTool = 0 THEN <<>> ELSE Out("final", AfterLastTool).out
  <2>1. SUFFICES ASSUME ~turn.proc.json
                 PROVE  printed'.out = IF AfterLastTool = 0 THEN <<>> ELSE Out("final", AfterLastTool).out
    OBVIOUS
  <2>2. printed.out = <<>> /\ final.out \in Seq(Items)
    BY <1>3, <1>10, <2>1 DEF OutInv, Words
  <2>3. printed'.out = final.out
    BY <1>10, <2>2
  <2> HIDE DEF final
  <2> QED  BY <1>4, <1>7, <1>12, <2>1, <2>3 DEF Out
<1>15. EndedInv'
  BY <1>5, <1>6, <1>8, <1>9, <1>13, <1>14 DEF EndedInv, Stdout, Closing, Ends
<1> QED  BY <1>1, <1>15 DEF TurnInv

(* Before the turn nothing of it is there.                                 *)
LEMMA TurnFrame ==
  ASSUME TurnInv, phase \notin {"streaming", "finishing", "draining", "exited"},
         phase' \notin {"streaming", "finishing"}, session' = session, cleanup'.sent = cleanup.sent,
         phase' \in BeforeWork => phase \in BeforeWork /\ printed' = printed
  PROVE  TurnInv'
BY DEF TurnInv

LEMMA SmallCommandsTurn ==
  ASSUME TurnInv, CleanupType,
         \/ Parse \/ Chdir \/ Sessions \/ Doctor \/ MigrateConfig \/ GitGate
         \/ ReadPrompt \/ Probe \/ ComposeRun \/ ResolveAgain \/ OperatorSigns
         \/ BuildGoal \/ PursueGoal \/ ReportGoal
         \/ CreateReviewer \/ ReviewEnds \/ ReportReview
  PROVE  TurnInv'
<1> USE DEF BeforeWork
<1>1. CASE Parse
  <2>1. phase = "line" /\ session' = session /\ cleanup' = cleanup
    BY <1>1 DEF Parse, work, end
  <2>2. phase' \in {"parsed", "exited"} /\ (phase' = "parsed" => printed' = printed)
    BY <1>1, Zenon DEF Parse, Exit, Go
  <2> QED  BY <2>1, <2>2, TurnFrame
<1>2. CASE Chdir \/ Sessions \/ Doctor \/ MigrateConfig
  <2>1. /\ phase \in {"parsed", "moved"} /\ session' = session /\ cleanup' = cleanup
        /\ phase' \in {"moved", "exited"} /\ (phase' = "moved" => printed' = printed)
    BY <1>2 DEF Chdir, Sessions, Doctor, MigrateConfig, Go, Exit, Throw, work, end
  <2> QED  BY <2>1, TurnFrame
<1>3. CASE GitGate
  <2>1. /\ phase = "moved" /\ session' = session /\ cleanup' = cleanup
        /\ phase' \in {"run", "goal", "review", "exited"} /\ (phase' # "exited" => printed' = printed)
    BY <1>3 DEF GitGate, Go, Exit, work, end
  <2> QED  BY <2>1, TurnFrame
<1>4. CASE ReadPrompt \/ Probe \/ ComposeRun \/ ResolveAgain
  <2>1. /\ phase \in {"run", "probing", "composing", "credential"}
        /\ session' = session /\ cleanup' = cleanup
        /\ phase' \in {"probing", "composing", "credential", "opening", "exited"}
        /\ phase' # "exited" => printed' = printed
    BY <1>4 DEF ReadPrompt, Probe, ComposeRun, ResolveAgain, Go, Exit, Throw, work, end
  <2> QED  BY <2>1, TurnFrame
<1>5. CASE OperatorSigns
  <2>1. phase \in {"composing", "credential"} /\ UNCHANGED <<phase, printed, session, cleanup>>
    BY <1>5, Zenon DEF OperatorSigns, work, end
  <2> QED  BY <2>1, TurnFrame
<1>6. CASE BuildGoal \/ PursueGoal \/ ReportGoal
  <2>1. /\ phase \in {"goal", "pursuing", "reporting"} /\ session' = session
        /\ phase' \in {"pursuing", "reporting", "draining", "exited"}
    BY <1>6 DEF BuildGoal, PursueGoal, ReportGoal, Go, Exit, Throw, work
  <2>2. cleanup'.sent = cleanup.sent
    BY <1>6 DEF BuildGoal, PursueGoal, ReportGoal, Register, Settled, CleanupType
  <2> QED  BY <2>1, <2>2, TurnFrame
<1>7. CASE CreateReviewer \/ ReviewEnds \/ ReportReview
  <2>1. /\ phase \in {"review", "reviewing", "reviewed", "unreadable"} /\ session' = session
        /\ phase' \in {"reviewing", "reviewed", "unreadable", "exited"}
    BY <1>7 DEF CreateReviewer, ReviewEnds, ReportReview, Go, Exit, Throw, work
  <2>2. cleanup'.sent = cleanup.sent
    BY <1>7 DEF CreateReviewer, ReviewEnds, ReportReview, Register, CleanupType, end
  <2> QED  BY <2>1, <2>2, TurnFrame
<1> QED  BY <1>1, <1>2, <1>3, <1>4, <1>5, <1>6, <1>7

LEMMA OpenedIs ==
  ASSUME NEW json \in BOOLEAN
  PROVE  LET words == Nothing ++ Opened(json)
         IN words \in Words /\ OutInv(OpenTurn(json, FALSE), words.out)
<1> DEFINE a == Out("thread.started", 0)
           b == Out("turn.started", 0)
           x == [what |-> "thread.started", n |-> 0]
           y == [what |-> "turn.started", n |-> 0]
<1>1. a \in Words /\ b \in Words /\ a.out = <<x>> /\ b.out = <<y>> /\ x \in Items /\ y \in Items
  BY OneItem DEF Whats
<1>2. x.what = "thread.started" /\ y.what = "turn.started"
  OBVIOUS
<1>3. OpenTurn(json, FALSE).proc.json = json /\ OpenTurn(json, FALSE).proc.open
  BY DEF OpenTurn, NewProcessor
<1>4. CASE ~json
  <2>1. Opened(json) = Nothing
    BY <1>4 DEF Opened
  <2>2. Nothing ++ Nothing \in Words /\ (Nothing ++ Nothing).out = <<>>
    BY NothingSaid, Together
  <2> QED  BY <1>3, <1>4, <2>1, <2>2 DEF OutInv
<1>5. CASE json
  <2>1. Opened(json) = a ++ b
    BY <1>5 DEF Opened
  <2> HIDE DEF a, b, x, y
  <2>2. a ++ b \in Words /\ (a ++ b).out = <<x>> \o <<y>>
    <3>1. a ++ b \in Words /\ (a ++ b).out = a.out \o b.out
      BY <1>1, Together
    <3> QED  BY <1>1, <3>1
  <2>3. Nothing ++ (a ++ b) \in Words /\ (Nothing ++ (a ++ b)).out = <<x>> \o <<y>>
    BY <2>2, NothingSaid, Together
  <2>4. <<x>> \in Seq(Items) /\ <<x>> # <<>> /\ Len(<<x>>) = 1 /\ <<x>>[1] = x
    BY <1>1
  <2>5. Ends(<<x>>) = {}
    BY <1>2, <2>4 DEF Ends
  <2>6. /\ <<x>> \o <<y>> # <<>> /\ (<<x>> \o <<y>>)[1] = x /\ Ends(<<x>> \o <<y>>) = {}
    BY <1>1, <1>2, <2>4, <2>5, OutGrows
  <2>7. OutInv(OpenTurn(json, FALSE), <<x>> \o <<y>>)
    BY <1>2, <1>3, <1>5, <2>6, Zenon DEF OutInv
  <2> QED  BY <2>1, <2>3, <2>7
<1> QED  BY <1>4, <1>5

LEMMA OpenSessionTurn == ASSUME TurnInv, CleanupType, OpenSession PROVE TurnInv'
<1>1. phase = "opening" /\ cleanup'.sent = cleanup.sent
  BY DEF OpenSession, CleanupType
<1>2. ~cleanup.sent => session = NoSession /\ printed = Nothing
  BY <1>1 DEF TurnInv, BeforeWork
<1>3. CASE session' = session /\ phase' = "exited"
  BY <1>1, <1>2, <1>3 DEF TurnInv, BeforeWork
<1>4. CASE ~(session' = session /\ phase' = "exited") /\ ~cleanup.sent
  <2> DEFINE json == "json" \in args.carried
  <2>1. phase' = "streaming" /\ turn' = OpenTurn(json, FALSE) /\ printed' = Nothing ++ Opened(json)
    BY <1>2, <1>4 DEF OpenSession, Go, Throw, Exit, Prints
  <2>2. json \in BOOLEAN
    OBVIOUS
  <2> HIDE DEF json
  <2>3. printed' \in Words /\ OutInv(turn', printed'.out)
    BY <2>1, <2>2, OpenedIs
  <2>4. /\ turn'.stream = <<>> /\ ~turn'.thrown /\ turn'.attempts = 0
        /\ turn'.pass = NewPass(FALSE) /\ turn'.proc = NewProcessor(json)
    BY <2>1 DEF OpenTurn
  <2>5. turn' \in Turns
    <3>1. NewPass(FALSE) \in Passes /\ <<>> \in Streams /\ NewProcessor(json) \in Procs
      BY <2>2 DEF NewPass, Passes, Streams, NewProcessor, Procs
    <3> QED  BY <2>1, <3>1 DEF Turns, OpenTurn
  <2>6. HeardInv(turn') /\ BlameInv(turn', printed'.err)
    <3>1. turn'.proc.message = 0 /\ ~turn'.proc.errorSeen /\ turn'.proc.open
      BY <2>4 DEF NewProcessor
    <3>2. HeardInv(turn')
      BY <2>4, <3>1, EmptyStream DEF HeardInv
    <3>3. BlameInv(turn', printed'.err)
      BY <2>4, EmptyStream DEF BlameInv
    <3> QED  BY <3>2, <3>3
  <2>7. PassInv(turn', LatestOf(turn'.stream))
    <3>1. /\ ~turn'.pass.emit /\ ~turn'.pass.released /\ ~turn'.pass.contended
          /\ turn'.pass.held = <<>> /\ ~turn'.proc.used
      BY <2>4 DEF NewPass, NewProcessor
    <3> QED  BY <2>4, <3>1, EmptyStream DEF PassInv
  <2> QED  BY <2>1, <2>3, <2>5, <2>6, <2>7 DEF TurnInv, TypeInv
<1>5. CASE cleanup.sent
  BY <1>1, <1>5 DEF TurnInv
<1> QED  BY <1>3, <1>4, <1>5

(* Once a signal was sent, nothing is promised; every task of the shutdown *)
(* is run after it.                                                        *)
LEMMA ShutdownTurn ==
  ASSUME TurnInv, EndInv,
         \/ Interrupt \/ FinishInterrupted \/ AbortGoal \/ CancellationReturns \/ ShutdownExits
         \/ Dispose("dispose-goal-agent", "goal") \/ Dispose("discard-review", "reviewer")
  PROVE  TurnInv'
<1>1. CleanupType /\ (~cleanup.sent => cleanup.left = {})
  BY DEF EndInv, TasksInv
<1>2. CASE Interrupt
  BY <1>1, <1>2 DEF Interrupt, CleanupType, TurnInv
<1>3. CASE ShutdownExits
  BY <1>3 DEF ShutdownExits, end, TurnInv
<1>4. CASE \/ FinishInterrupted \/ AbortGoal \/ CancellationReturns
           \/ Dispose("dispose-goal-agent", "goal") \/ Dispose("discard-review", "reviewer")
  <2>1. cleanup.left # {}
    BY <1>4 DEF FinishInterrupted, AbortGoal, CancellationReturns, Dispose, Task
  <2>2. cleanup.sent
    BY <1>1, <2>1
  <2>3. cleanup'.sent = cleanup.sent
    BY <1>1, <1>4 DEF FinishInterrupted, AbortGoal, CancellationReturns, Dispose, Done, CleanupType
  <2> QED  BY <2>2, <2>3 DEF TurnInv
<1> QED  BY <1>2, <1>3, <1>4

LEMMA StillTurn ==
  ASSUME TurnInv, UNCHANGED <<turn, printed, session>>, cleanup' = cleanup,
         \/ phase' = phase /\ code' = code
         \/ phase = "draining" /\ phase' = "exited" /\ code' = code
  PROVE  TurnInv'
<1>1. EndedInv => EndedInv'
  BY DEF EndedInv, Stdout, Closing, Failed, Answered, AfterLastTool, At
<1>2. TypeInv => TypeInv'
  BY DEF TypeInv
<1> QED  BY <1>1, <1>2 DEF TurnInv, BeforeWork

LEMMA TurnStep == TurnInv /\ EndInv /\ [Next]_vars => TurnInv'
<1> SUFFICES ASSUME TurnInv, EndInv, [Next]_vars PROVE TurnInv'
  OBVIOUS
<1>1. CleanupType
  BY DEF EndInv
<1>2. CASE Drained
  BY <1>2, StillTurn DEF Drained, Exit, work, end
<1>3. CASE UNCHANGED vars
  BY <1>3, StillTurn DEF vars
<1>4. ASSUME cleanup.sent, RateLimited \/ ChunkArrives \/ StreamEnds \/ StreamThrows \/ FinishRun
      PROVE  TurnInv'
  BY <1>4 DEF RateLimited, ChunkArrives, StreamEnds, StreamThrows, FinishRun, Streaming, end, TurnInv
<1> QED
  BY <1>1, <1>2, <1>3, <1>4, SmallCommandsTurn, OpenSessionTurn, RetryTurn, ChunkTurn, StreamTurn,
     FinishTurn, ShutdownTurn DEF Next, Exited

LEMMA TurnInvHolds == Spec => []TurnInv
<1>1. Init => TurnInv
  BY DEF Init, TurnInv
<1> QED  BY <1>1, TurnStep, EndInvHolds, PTL DEF Spec

(* Whatever the stream brought, held back, retried or forked, what a run   *)
(* that nobody interrupted leaves on stdout is its final answer and        *)
(* nothing else; with --json, one turn opened first and closed last, by    *)
(* how it went (createHumanProcessor, createJsonlProcessor).               *)
THEOREM StdoutIsTheAnswer == Spec => []StdoutIsFinalMessage
<1>1. TurnInv => StdoutIsFinalMessage
  BY DEF TurnInv, StdoutIsFinalMessage, EndedInv
<1> QED  BY <1>1, TurnInvHolds, PTL

(* The exit code is 0 exactly for a turn that failed in nothing and did    *)
(* something, and an error names the attempts of its own turn: a fork      *)
(* starts counting again (silentEmptyTurnDiagnostic, perTurnStream).       *)
THEOREM ReportHolds == Spec => []ReportIsTrue
<1>1. ASSUME TurnInv PROVE ReportIsTrue
  <2>1. ASSUME phase = "exited", ~cleanup.sent, session # NoSession
        PROVE  code = "0" <=> ~Failed /\ Answered
    BY <1>1, <2>1 DEF TurnInv, EndedInv
  <2>2. ASSUME phase = "streaming", ~turn.proc.json, turn.stream # <<>>,
               Last(turn.stream) = "error", ~cleanup.sent
        PROVE  Last(printed.err).n = AttemptsNamed(Amount({"retry"}))
    BY <1>1, <2>2, LatestIsOf DEF TurnInv, BlameInv, Amount
  <2> QED  BY <2>1, <2>2 DEF ReportIsTrue
<1> QED  BY <1>1, TurnInvHolds, PTL

-----------------------------------------------------------------------------
(* Numbers, sums and texts: what the functions of Instructions that are    *)
(* defined by recursion on 0 .. N return.                                  *)

(* A set of numbers has a least one: of the intervals below its members,   *)
(* one holds no other.                                                     *)
LEMMA LeastOf ==
  ASSUME NEW S \in SUBSET Nat, S # {}
  PROVE  \E n \in S : \A m \in S : n <= m
<1> DEFINE below == {1 .. n : n \in S}
<1>1. below \subseteq FiniteSubsetsOf(Nat) /\ below # {}
  <2>1. \A n \in S : (1 .. n) \in FiniteSubsetsOf(Nat)
    BY FS_Interval DEF FiniteSubsetsOf
  <2>2. PICK n \in S : TRUE
    OBVIOUS
  <2>3. (1 .. n) \in below
    OBVIOUS
  <2> QED BY <2>1, <2>3
<1>2. PICK b \in below : \A c \in below : ~(<<c, b>> \in StrictSubsetOrdering(Nat))
  <2> HIDE DEF below
  <2> QED BY <1>1, FS_StrictSubsetOrderingWellFounded, WFMin
<1>3. PICK n \in S : b = 1 .. n
  OBVIOUS
<1>4. ASSUME NEW m \in S, m < n PROVE FALSE
  <2>1. (1 .. m) \subseteq (1 .. n) /\ n \in 1 .. n /\ n \notin 1 .. m /\ (1 .. m) \in below
    BY <1>4
  <2>2. (1 .. m) # (1 .. n) /\ (1 .. m) \in SUBSET Nat /\ (1 .. n) \in SUBSET Nat
    BY <2>1
  <2>3. <<1 .. m, 1 .. n>> \in StrictSubsetOrdering(Nat)
    BY <2>1, <2>2 DEF StrictSubsetOrdering
  <2> QED BY <1>2, <1>3, <2>1, <2>3
<1> QED BY <1>4

(* What holds of 0, and of a number when it does of the one before it,     *)
(* holds up to N.                                                          *)
LEMMA UpTo ==
  ASSUME NEW N \in Nat, NEW Good \in SUBSET (0 .. N), 0 \in Good,
         \A n \in 1 .. N : n - 1 \in Good => n \in Good
  PROVE  Good = 0 .. N
<1> SUFFICES ASSUME (0 .. N) \ Good # {} PROVE FALSE
  OBVIOUS
<1>1. (0 .. N) \ Good \in SUBSET Nat
  OBVIOUS
<1>2. PICK n \in (0 .. N) \ Good : \A m \in (0 .. N) \ Good : n <= m
  BY <1>1, LeastOf
<1>3. n \in 1 .. N /\ n - 1 \in 0 .. N /\ ~(n <= n - 1)
  BY <1>2
<1> QED BY <1>2, <1>3

(* A sequence of steps can be taken: the functions by recursion on 0 .. N  *)
(* are there.                                                              *)
Steps(f, n, R, base, op) ==
  /\ f \in [0 .. n -> R] /\ f[0] = base
  /\ \A i \in 1 .. n : f[i] = op[i][f[i - 1]]

LEMMA Recursion ==
  ASSUME NEW N \in Nat, NEW R, NEW base \in R, NEW op \in [1 .. N -> [R -> R]]
  PROVE  \E f : Steps(f, N, R, base, op)
<1> DEFINE Takes(f, n) == Steps(f, n, R, base, op)
           Good == {n \in 0 .. N : \E f : Takes(f, n)}
<1>1. 0 \in Good
  <2>1. Takes([i \in 0 .. 0 |-> base], 0)
    BY DEF Steps
  <2> HIDE DEF Takes
  <2> QED BY <2>1
<1>2. ASSUME NEW n \in 1 .. N, n - 1 \in Good PROVE n \in Good
  <2>1. PICK f : Takes(f, n - 1)
    BY <1>2
  <2> DEFINE g == [i \in 0 .. n |-> IF i = n THEN op[n][f[n - 1]] ELSE f[i]]
  <2>2. f[n - 1] \in R /\ op[n][f[n - 1]] \in R
    BY <2>1 DEF Steps
  <2>3. g \in [0 .. n -> R] /\ g[0] = base
    BY <2>1, <2>2 DEF Steps
  <2>4. ASSUME NEW i \in 1 .. n PROVE g[i] = op[i][g[i - 1]]
    <3>1. i - 1 \in 0 .. n /\ i - 1 # n /\ g[i - 1] = f[i - 1]
      OBVIOUS
    <3>2. CASE i = n
      BY <3>1, <3>2
    <3>3. CASE i # n
      <4>1. i \in 1 .. n - 1 /\ g[i] = f[i]
        BY <3>3
      <4> QED BY <2>1, <3>1, <4>1 DEF Steps
    <3> QED BY <3>2, <3>3
  <2>5. Takes(g, n)
    <3> HIDE DEF g
    <3> QED BY <2>3, <2>4 DEF Steps
  <2> HIDE DEF Takes, g
  <2> QED BY <2>5
<1> HIDE DEF Takes
<1>3. Good = 0 .. N
  <2>1. Good \in SUBSET (0 .. N)
    OBVIOUS
  <2> HIDE DEF Good
  <2> QED BY <1>1, <1>2, <2>1, UpTo
<1>4. PICK f : Takes(f, N)
  <2>1. N \in Good
    <3> HIDE DEF Good
    <3> QED BY <1>3
  <2> QED BY <2>1
<1> QED BY <1>4 DEF Takes

(* The sums of the prefixes of a sequence.                                 *)
Sums(lengths) ==
  CHOOSE upTo : upTo = [n \in 0..Len(lengths) |-> IF n = 0 THEN 0 ELSE upTo[n - 1] + lengths[n]]

LEMMA SumsOf ==
  ASSUME NEW lengths \in Seq(Nat)
  PROVE  /\ Sums(lengths) \in [0 .. Len(lengths) -> Nat] /\ Sums(lengths)[0] = 0
         /\ \A n \in 1 .. Len(lengths) : Sums(lengths)[n] = Sums(lengths)[n - 1] + lengths[n]
         /\ Total(lengths) = Sums(lengths)[Len(lengths)] /\ Total(lengths) \in Nat
<1> DEFINE N == Len(lengths)
           op == [n \in 1 .. N |-> [sum \in Nat |-> sum + lengths[n]]]
<1>1. N \in Nat /\ \A n \in 1 .. N : lengths[n] \in Nat
  BY LenProperties, ElementOfSeq
<1> HIDE DEF N
<1>2. op \in [1 .. N -> [Nat -> Nat]]
  BY <1>1
<1>3. PICK f : Steps(f, N, Nat, 0, op)
  <2>1. 0 \in Nat /\ N \in Nat
    BY <1>1
  <2> HIDE DEF op
  <2> QED BY <1>2, <2>1, Recursion
<1>4. ASSUME NEW n \in 1 .. N PROVE f[n] = f[n - 1] + lengths[n]
  <2>1. f[n - 1] \in Nat
    BY <1>1, <1>3 DEF Steps
  <2>2. op[n][f[n - 1]] = f[n - 1] + lengths[n]
    BY <2>1
  <2> QED BY <1>3, <2>2 DEF Steps
<1>5. f = [n \in 0 .. N |-> IF n = 0 THEN 0 ELSE f[n - 1] + lengths[n]]
  BY <1>1, <1>3, <1>4 DEF Steps
<1>6. Sums(lengths) = [n \in 0 .. N |-> IF n = 0 THEN 0 ELSE Sums(lengths)[n - 1] + lengths[n]]
  BY <1>5 DEF Sums, N
<1> DEFINE s == Sums(lengths)
<1>7. s[0] = 0 /\ \A n \in 1 .. N : s[n] = s[n - 1] + lengths[n]
  <2> HIDE DEF s
  <2> QED BY <1>1, <1>6 DEF s
<1>8. s \in [0 .. N -> Nat]
  <2> DEFINE Good == {n \in 0 .. N : s[n] \in Nat}
  <2>1. Good \in SUBSET (0 .. N) /\ 0 \in Good
    BY <1>1, <1>7
  <2>2. ASSUME NEW n \in 1 .. N, n - 1 \in Good PROVE n \in Good
    <3>1. s[n - 1] \in Nat /\ lengths[n] \in Nat /\ s[n] = s[n - 1] + lengths[n]
      BY <1>1, <1>7, <2>2
    <3> HIDE DEF s
    <3> QED BY <3>1
  <2>3. Good = 0 .. N
    <3> HIDE DEF Good
    <3> QED BY <1>1, <2>1, <2>2, UpTo
  <2>4. \A n \in 0 .. N : s[n] \in Nat
    BY <2>3
  <2> HIDE DEF s
  <2> QED BY <1>6, <2>4 DEF s
<1>9. Total(lengths) = s[N]
  BY DEF Total, Sums, N
<1>10. N \in 0 .. N
  BY <1>1
<1> HIDE DEF s
<1>11. s[N] \in Nat
  BY <1>8, <1>10
<1> QED BY <1>7, <1>8, <1>9, <1>11 DEF s, N

(* Whatever grows by the members of a sequence is its sum.                 *)
LEMMA SumsAre ==
  ASSUME NEW lengths \in Seq(Nat), NEW g, g[0] = 0,
         \A n \in 1 .. Len(lengths) : g[n] = g[n - 1] + lengths[n]
  PROVE  Total(lengths) = g[Len(lengths)]
<1> DEFINE N == Len(lengths)
           s == Sums(lengths)
           Good == {n \in 0 .. N : s[n] = g[n]}
<1>1. /\ N \in Nat /\ s[0] = 0 /\ Total(lengths) = s[N]
      /\ \A n \in 1 .. N : s[n] = s[n - 1] + lengths[n]
      /\ \A n \in 1 .. N : g[n] = g[n - 1] + lengths[n]
  BY SumsOf, LenProperties
<1> HIDE DEF N, s
<1>2. Good \in SUBSET (0 .. N) /\ 0 \in Good
  BY <1>1
<1>3. \A n \in 1 .. N : n - 1 \in Good => n \in Good
  BY <1>1
<1>4. Good = 0 .. N
  <2> HIDE DEF Good
  <2> QED BY <1>1, <1>2, <1>3, UpTo
<1>5. s[N] = g[N]
  BY <1>1, <1>4
<1> QED BY <1>1, <1>5 DEF N

LEMMA TotalShort ==
  /\ Total(<<>>) = 0
  /\ \A n \in Nat : Total(<<n>>) = n
<1>1. Total(<<>>) = 0
  <2>1. <<>> \in Seq(Nat) /\ Len(<<>>) = 0
    BY EmptySeq
  <2> QED BY <2>1, SumsOf
<1>2. ASSUME NEW n \in Nat PROVE Total(<<n>>) = n
  <2> DEFINE l == <<n>>
  <2>1. l \in Seq(Nat) /\ Len(l) = 1 /\ l[1] = n
    OBVIOUS
  <2> HIDE DEF l
  <2>2. Sums(l)[0] = 0 /\ Sums(l)[1] = Sums(l)[1 - 1] + n /\ Total(l) = Sums(l)[1]
    BY <2>1, SumsOf
  <2>3. Total(l) = n
    BY <2>2
  <2> QED BY <2>3 DEF l
<1> QED BY <1>1, <1>2

(* The sum of two sequences is the sum of their sums.                      *)
LEMMA TotalJoined ==
  ASSUME NEW a \in Seq(Nat), NEW b \in Seq(Nat)
  PROVE  Total(a \o b) = Total(a) + Total(b)
<1> DEFINE A == Len(a)
           B == Len(b)
           c == a \o b
           g == [n \in 0 .. A + B |->
                   IF n <= A THEN Sums(a)[n] ELSE Sums(a)[A] + Sums(b)[n - A]]
<1>1. /\ A \in Nat /\ B \in Nat /\ c \in Seq(Nat) /\ Len(c) = A + B
      /\ \A i \in 1 .. A + B : c[i] = IF i <= A THEN a[i] ELSE b[i - A]
  BY ConcatProperties, LenProperties
<1>2. /\ Sums(a) \in [0 .. A -> Nat] /\ Sums(a)[0] = 0 /\ Total(a) = Sums(a)[A]
      /\ \A n \in 1 .. A : Sums(a)[n] = Sums(a)[n - 1] + a[n]
  BY SumsOf
<1>3. /\ Sums(b) \in [0 .. B -> Nat] /\ Sums(b)[0] = 0 /\ Total(b) = Sums(b)[B]
      /\ \A n \in 1 .. B : Sums(b)[n] = Sums(b)[n - 1] + b[n]
  BY SumsOf
<1>4. \A n \in 1 .. B : b[n] \in Nat
  BY ElementOfSeq
<1> HIDE DEF A, B, c
<1>5. g[0] = 0 /\ g[A + B] = Total(a) + Total(b)
  <2>1. g[0] = 0
    BY <1>1, <1>2
  <2>2. CASE B = 0
    BY <1>1, <1>2, <1>3, <2>2
  <2>3. CASE B # 0
    BY <1>1, <1>2, <1>3, <2>3
  <2> QED BY <2>1, <2>2, <2>3
<1>6. ASSUME NEW n \in 1 .. A + B PROVE g[n] = g[n - 1] + c[n]
  <2>1. n \in 0 .. A + B /\ n - 1 \in 0 .. A + B /\ n - 1 \in Nat
    BY <1>1
  <2>2. CASE n <= A
    <3>1. n \in 1 .. A /\ n - 1 <= A /\ c[n] = a[n]
      BY <1>1, <2>2
    <3> QED BY <1>2, <2>1, <2>2, <3>1
  <2>3. CASE n = A + 1
    <3>1. ~(n <= A) /\ n - A = 1 /\ n - 1 = A /\ 1 \in 1 .. B /\ c[n] = b[1]
      BY <1>1, <2>3
    <3>2. Sums(b)[1] = Sums(b)[1 - 1] + b[1] /\ 1 - 1 = 0
      BY <1>3, <3>1
    <3>3. Sums(b)[1] = b[1] /\ b[1] \in Nat
      BY <1>3, <1>4, <3>1, <3>2
    <3>4. g[n] = Sums(a)[A] + b[1] /\ g[n - 1] = Sums(a)[A]
      BY <1>1, <2>1, <3>1, <3>3
    <3> QED BY <3>1, <3>4
  <2>4. CASE n > A + 1
    <3>0. n \in Int /\ A \in Int /\ B \in Int
      BY <1>1
    <3>1. /\ ~(n <= A) /\ ~(n - 1 <= A) /\ n - A \in 1 .. B /\ (n - 1) - A = (n - A) - 1
          /\ (n - A) - 1 \in 0 .. B /\ c[n] = b[n - A]
      <4>1. ~(n <= A) /\ ~(n - 1 <= A) /\ (n - 1) - A = (n - A) - 1
        BY <2>4, <3>0
      <4>2. n - A \in 1 .. B /\ (n - A) - 1 \in 0 .. B
        BY <2>4, <3>0
      <4> QED BY <1>1, <4>1, <4>2
    <3>2. Sums(b)[n - A] = Sums(b)[(n - A) - 1] + b[n - A]
      BY <1>3, <3>1
    <3>3. /\ g[n] = Sums(a)[A] + Sums(b)[n - A]
          /\ g[n - 1] = Sums(a)[A] + Sums(b)[(n - A) - 1]
      BY <2>1, <3>1
    <3>4. Sums(a)[A] \in Nat /\ Sums(b)[(n - A) - 1] \in Nat /\ b[n - A] \in Nat
      <4>1. A \in 0 .. A
        BY <1>1
      <4> QED BY <1>2, <1>3, <1>4, <3>1, <4>1
    <3> QED BY <3>1, <3>2, <3>3, <3>4
  <2> QED BY <1>1, <2>2, <2>3, <2>4
<1>7. Total(c) = g[A + B]
  <2> HIDE DEF g
  <2> QED BY <1>1, <1>5, <1>6, SumsAre
<1> QED BY <1>5, <1>7 DEF c

Apart == {"gap", "ruler", "line", "notice"}
Sources == {"base", "style", "userAgents", "userRule", "chain", "rule", "surface"}
Text == Seq([src : Sources \union Apart, len : Nat])
(* What each piece of a text holds of what was asked for.                  *)
Contents(text) == [i \in DOMAIN text |-> IF text[i].src \in Apart THEN 0 ELSE text[i].len]

(* A text says how much of what was asked for it holds, or has a notice.   *)
Tells(text, n) == text \in Text /\ (Holds(text, "notice") \/ ContentOf(text) = n)

LEMMA ContentsOf ==
  ASSUME NEW text \in Text
  PROVE  /\ Contents(text) \in Seq(Nat) /\ Len(Contents(text)) = Len(text)
         /\ \A i \in 1 .. Len(text) :
              Contents(text)[i] = IF text[i].src \in Apart THEN 0 ELSE text[i].len
         /\ ContentOf(text) = Total(Contents(text)) /\ ContentOf(text) \in Nat
<1>1. /\ DOMAIN text = 1 .. Len(text) /\ Len(text) \in Nat
      /\ \A i \in 1 .. Len(text) : text[i] \in [src : Sources \union Apart, len : Nat]
  BY LenProperties, ElementOfSeq DEF Text
<1>2. Contents(text) \in [1 .. Len(text) -> Nat]
  BY <1>1 DEF Contents
<1>3. Contents(text) \in Seq(Nat) /\ Len(Contents(text)) = Len(text)
  BY <1>1, <1>2
<1>4. \A i \in 1 .. Len(text) :
        Contents(text)[i] = IF text[i].src \in Apart THEN 0 ELSE text[i].len
  BY <1>1 DEF Contents
<1>5. ContentOf(text) = Total(Contents(text))
  BY DEF ContentOf, Contents, Apart
<1>6. Total(Contents(text)) \in Nat
  BY <1>3, SumsOf
<1> QED BY <1>3, <1>4, <1>5, <1>6

(* Two texts one after the other hold what both hold.                      *)
LEMMA TextJoined ==
  ASSUME NEW a \in Text, NEW b \in Text
  PROVE  /\ a \o b \in Text
         /\ ContentOf(a \o b) = ContentOf(a) + ContentOf(b)
         /\ \A src : Holds(a \o b, src) <=> Holds(a, src) \/ Holds(b, src)
<1> DEFINE c == a \o b
           A == Len(a)
           B == Len(b)
<1>1. /\ c \in Text /\ Len(c) = A + B /\ A \in Nat /\ B \in Nat
      /\ DOMAIN a = 1 .. A /\ DOMAIN b = 1 .. B /\ DOMAIN c = 1 .. A + B
      /\ \A i \in 1 .. A + B : c[i] = IF i <= A THEN a[i] ELSE b[i - A]
  <2>1. /\ c \in Text /\ Len(c) = A + B
        /\ \A i \in 1 .. A + B : c[i] = IF i <= A THEN a[i] ELSE b[i - A]
    BY ConcatProperties DEF Text
  <2> HIDE DEF c
  <2> QED BY <2>1, LenProperties DEF Text
<1>2. Contents(c) = Contents(a) \o Contents(b)
  <2>1. /\ Contents(a) \o Contents(b) \in Seq(Nat)
        /\ Len(Contents(a) \o Contents(b)) = A + B
        /\ \A i \in 1 .. A + B : (Contents(a) \o Contents(b))[i] =
             IF i <= A THEN Contents(a)[i] ELSE Contents(b)[i - A]
    <3>1. /\ Contents(a) \in Seq(Nat) /\ Len(Contents(a)) = A
          /\ Contents(b) \in Seq(Nat) /\ Len(Contents(b)) = B
      BY ContentsOf
    <3> HIDE DEF A, B
    <3> QED BY <3>1, ConcatProperties
  <2>2. Contents(c) \in Seq(Nat) /\ Len(Contents(c)) = A + B
    <3> HIDE DEF c
    <3> QED BY <1>1, ContentsOf
  <2>3. ASSUME NEW i \in 1 .. A + B
        PROVE  Contents(c)[i] = (Contents(a) \o Contents(b))[i]
    <3> HIDE DEF c, A, B
    <3>1. Contents(c)[i] = IF c[i].src \in Apart THEN 0 ELSE c[i].len
      BY <1>1, ContentsOf
    <3>2. CASE i <= A
      <4>1. i \in 1 .. A /\ c[i] = a[i]
        BY <1>1, <3>2
      <4>2. Contents(a)[i] = IF a[i].src \in Apart THEN 0 ELSE a[i].len
        BY <4>1, ContentsOf DEF A
      <4> QED BY <2>1, <3>1, <3>2, <4>1, <4>2
    <3>3. CASE ~(i <= A)
      <4>1. i - A \in 1 .. B /\ c[i] = b[i - A]
        BY <1>1, <3>3
      <4>2. Contents(b)[i - A] = IF b[i - A].src \in Apart THEN 0 ELSE b[i - A].len
        BY <4>1, ContentsOf DEF B
      <4> QED BY <2>1, <3>1, <3>3, <4>1, <4>2
    <3> QED BY <3>2, <3>3
  <2> HIDE DEF c, A, B
  <2> QED BY <2>1, <2>2, <2>3, SeqEqual
<1>3. ContentOf(c) = ContentOf(a) + ContentOf(b)
  <2> HIDE DEF c
  <2> QED BY <1>1, <1>2, ContentsOf, TotalJoined
<1>4. ASSUME NEW src PROVE Holds(c, src) <=> Holds(a, src) \/ Holds(b, src)
  <2> HIDE DEF c, A, B
  <2>1. ASSUME NEW i \in 1 .. A PROVE i \in 1 .. A + B /\ c[i] = a[i]
    BY <1>1
  <2>2. ASSUME NEW i \in 1 .. B PROVE A + i \in 1 .. A + B /\ c[A + i] = b[i]
    BY <1>1
  <2>3. ASSUME NEW i \in 1 .. A + B
        PROVE  (i \in 1 .. A /\ c[i] = a[i]) \/ (i - A \in 1 .. B /\ c[i] = b[i - A])
    BY <1>1
  <2>4. Holds(c, src) => Holds(a, src) \/ Holds(b, src)
    BY <1>1, <2>3 DEF Holds
  <2>5. Holds(a, src) => Holds(c, src)
    BY <1>1, <2>1 DEF Holds
  <2>6. Holds(b, src) => Holds(c, src)
    BY <1>1, <2>2 DEF Holds
  <2> QED BY <2>4, <2>5, <2>6
<1> QED BY <1>1, <1>3, <1>4 DEF c

LEMMA NoText == <<>> \in Text /\ ContentOf(<<>>) = 0 /\ \A src : ~Holds(<<>>, src)
<1>1. <<>> \in Text /\ Len(<<>>) = 0
  BY EmptySeq DEF Text
<1>2. Contents(<<>>) = <<>>
  BY DEF Contents
<1>3. ContentOf(<<>>) = 0
  BY <1>1, <1>2, ContentsOf, TotalShort
<1> QED BY <1>1, <1>3 DEF Holds

LEMMA PieceIs ==
  ASSUME NEW src \in Sources \union Apart, NEW len \in Nat
  PROVE  /\ Piece(src, len) \in Text
         /\ ContentOf(Piece(src, len)) = IF src \in Apart THEN 0 ELSE len
         /\ len # 0 => Holds(Piece(src, len), src) /\ Piece(src, len) # <<>>
<1>1. CASE len = 0
  BY <1>1, NoText DEF Piece
<1>2. CASE len # 0
  <2> DEFINE t == <<[src |-> src, len |-> len]>>
  <2>1. /\ t \in Text /\ Len(t) = 1 /\ DOMAIN t = {1} /\ t # <<>>
        /\ t[1].src = src /\ t[1].len = len
    BY DEF Text
  <2>2. Piece(src, len) = t
    BY <1>2 DEF Piece
  <2> HIDE DEF t
  <2>3. Contents(t) = <<IF src \in Apart THEN 0 ELSE len>>
    <3> DEFINE n == IF src \in Apart THEN 0 ELSE len
    <3>1. <<n>> \in Seq(Nat) /\ Len(<<n>>) = 1 /\ <<n>>[1] = n
      <4>1. n \in Nat
        OBVIOUS
      <4> HIDE DEF n
      <4> QED BY <4>1
    <3>2. Contents(t) \in Seq(Nat) /\ Len(Contents(t)) = 1 /\ Contents(t)[1] = n
      BY <2>1, ContentsOf
    <3> HIDE DEF n
    <3>3. Contents(t) = <<n>>
      BY <3>1, <3>2, SeqEqual
    <3> QED BY <3>3 DEF n
  <2>4. ContentOf(t) = IF src \in Apart THEN 0 ELSE len
    BY <2>1, <2>3, ContentsOf, TotalShort
  <2>5. Holds(t, src)
    BY <2>1 DEF Holds
  <2> QED BY <2>1, <2>2, <2>4, <2>5
<1> QED BY <1>1, <1>2

(* Texts are joined without losing a piece.                                *)
LEMMA JoinTwoTells ==
  ASSUME NEW a \in Text, NEW b \in Text, NEW separator \in Text, ContentOf(separator) = 0
  PROVE  /\ JoinTwo(a, b, separator) \in Text
         /\ ContentOf(JoinTwo(a, b, separator)) = ContentOf(a) + ContentOf(b)
         /\ \A src : Holds(a, src) \/ Holds(b, src) => Holds(JoinTwo(a, b, separator), src)
<1> USE NoText, ContentsOf
<1>1. CASE a = <<>>
  BY <1>1 DEF JoinTwo
<1>2. CASE a # <<>> /\ b = <<>>
  BY <1>2 DEF JoinTwo
<1>3. CASE a # <<>> /\ b # <<>>
  <2>1. /\ a \o separator \in Text
        /\ ContentOf(a \o separator) = ContentOf(a)
        /\ \A src : Holds(a, src) => Holds(a \o separator, src)
    BY TextJoined
  <2> DEFINE t == a \o separator
  <2>2. JoinTwo(a, b, separator) = t \o b
    BY <1>3 DEF JoinTwo
  <2> HIDE DEF t
  <2> QED BY <2>1, <2>2, TextJoined DEF t
<1> QED BY <1>1, <1>2, <1>3

(* The texts of a sequence, joined one after the other.                    *)
Joins(texts, separator) ==
  CHOOSE upTo : upTo = [n \in 0..Len(texts) |->
                          IF n = 0 THEN <<>> ELSE JoinTwo(upTo[n - 1], texts[n], separator)]

LEMMA JoinsOf ==
  ASSUME NEW texts \in Seq(Text), NEW separator \in Text, ContentOf(separator) = 0
  PROVE  /\ Joins(texts, separator)[0] = <<>>
         /\ \A n \in 1 .. Len(texts) : Joins(texts, separator)[n] =
              JoinTwo(Joins(texts, separator)[n - 1], texts[n], separator)
         /\ \A n \in 0 .. Len(texts) : Joins(texts, separator)[n] \in Text
         /\ Joined(texts, separator) = Joins(texts, separator)[Len(texts)]
<1> DEFINE N == Len(texts)
           op == [n \in 1 .. N |-> [text \in Text |-> JoinTwo(text, texts[n], separator)]]
           j == Joins(texts, separator)
<1>1. N \in Nat /\ \A n \in 1 .. N : texts[n] \in Text
  BY LenProperties, ElementOfSeq
<1> HIDE DEF N
<1>2. \A n \in 1 .. N, text \in Text : JoinTwo(text, texts[n], separator) \in Text
  BY <1>1, JoinTwoTells
<1>3. op \in [1 .. N -> [Text -> Text]] /\ <<>> \in Text
  BY <1>2, NoText
<1>4. PICK f : Steps(f, N, Text, <<>>, op)
  <2> HIDE DEF op
  <2> QED BY <1>1, <1>3, Recursion
<1>5. ASSUME NEW n \in 1 .. N PROVE f[n] = JoinTwo(f[n - 1], texts[n], separator)
  <2>1. f[n - 1] \in Text
    BY <1>1, <1>4 DEF Steps
  <2>2. op[n][f[n - 1]] = JoinTwo(f[n - 1], texts[n], separator)
    BY <2>1
  <2> QED BY <1>4, <2>2 DEF Steps
<1>6. f = [n \in 0 .. N |-> IF n = 0 THEN <<>> ELSE JoinTwo(f[n - 1], texts[n], separator)]
  BY <1>1, <1>4, <1>5 DEF Steps
<1>7. j = [n \in 0 .. N |-> IF n = 0 THEN <<>> ELSE JoinTwo(j[n - 1], texts[n], separator)]
  BY <1>6 DEF Joins, N
<1>8. j[0] = <<>> /\ \A n \in 1 .. N : j[n] = JoinTwo(j[n - 1], texts[n], separator)
  <2> HIDE DEF j
  <2> QED BY <1>1, <1>7
<1>9. \A n \in 0 .. N : j[n] \in Text
  <2> DEFINE Good == {n \in 0 .. N : j[n] \in Text}
  <2> HIDE DEF j
  <2>1. Good \in SUBSET (0 .. N) /\ 0 \in Good
    BY <1>1, <1>8, NoText
  <2>2. \A n \in 1 .. N : n - 1 \in Good => n \in Good
    BY <1>1, <1>2, <1>8
  <2>3. Good = 0 .. N
    <3> HIDE DEF Good
    <3> QED BY <1>1, <2>1, <2>2, UpTo
  <2> QED BY <2>3
<1>10. Joined(texts, separator) = j[N]
  BY DEF Joined, Joins, N
<1> HIDE DEF j
<1> QED BY <1>8, <1>9, <1>10 DEF j, N

LEMMA SeparatorsAre ==
  /\ Gap \in Text /\ ContentOf(Gap) = 0
  /\ Ruler \in Text /\ ContentOf(Ruler) = 0
<1>1. \A src \in Apart, n \in Nat : Piece(src, n) \in Text /\ ContentOf(Piece(src, n)) = 0
  BY PieceIs
<1>2. "gap" \in Apart /\ "ruler" \in Apart /\ 1 \in Nat /\ 3 \in Nat
  BY DEF Apart
<1> QED BY <1>1, <1>2 DEF Gap, Ruler

LEMMA JoinedTwo ==
  ASSUME NEW a \in Text, NEW b \in Text
  PROVE  Joined(<<a, b>>, Gap) = JoinTwo(a, b, Gap)
<1> DEFINE texts == <<a, b>>
           j == Joins(texts, Gap)
<1>1. texts \in Seq(Text) /\ Len(texts) = 2 /\ texts[1] = a /\ texts[2] = b
  OBVIOUS
<1> HIDE DEF texts
<1>2. j[0] = <<>> /\ j[1] = JoinTwo(j[0], a, Gap) /\ j[2] = JoinTwo(j[1], b, Gap)
      /\ Joined(texts, Gap) = j[2]
  <2>1. /\ j[0] = <<>> /\ Joined(texts, Gap) = j[Len(texts)]
        /\ \A i \in 1 .. Len(texts) : j[i] = JoinTwo(j[i - 1], texts[i], Gap)
    BY <1>1, JoinsOf, SeparatorsAre
  <2> HIDE DEF j
  <2> QED BY <1>1, <2>1
<1> HIDE DEF j
<1>3. Joined(texts, Gap) = JoinTwo(a, b, Gap)
  BY <1>2 DEF JoinTwo
<1> QED BY <1>3 DEF texts

LEMMA JoinedThree ==
  ASSUME NEW a \in Text, NEW b \in Text, NEW c \in Text
  PROVE  Joined(<<a, b, c>>, Gap) = JoinTwo(JoinTwo(a, b, Gap), c, Gap)
<1> DEFINE texts == <<a, b, c>>
           j == Joins(texts, Gap)
<1>1. /\ texts \in Seq(Text) /\ Len(texts) = 3
      /\ texts[1] = a /\ texts[2] = b /\ texts[3] = c
  OBVIOUS
<1> HIDE DEF texts
<1>2. /\ j[0] = <<>> /\ j[1] = JoinTwo(j[0], a, Gap) /\ j[2] = JoinTwo(j[1], b, Gap)
      /\ j[3] = JoinTwo(j[2], c, Gap) /\ Joined(texts, Gap) = j[3]
  <2>1. /\ j[0] = <<>> /\ Joined(texts, Gap) = j[Len(texts)]
        /\ \A i \in 1 .. Len(texts) : j[i] = JoinTwo(j[i - 1], texts[i], Gap)
    BY <1>1, JoinsOf, SeparatorsAre
  <2> HIDE DEF j
  <2> QED BY <1>1, <2>1
<1> HIDE DEF j
<1>3. Joined(texts, Gap) = JoinTwo(JoinTwo(a, b, Gap), c, Gap)
  BY <1>2 DEF JoinTwo
<1> QED BY <1>3 DEF texts

(* What is joined tells what its parts tell.                               *)
LEMMA JoinedTells ==
  ASSUME NEW a, NEW b, NEW m \in Nat, NEW n \in Nat, Tells(a, m), Tells(b, n)
  PROVE  /\ Tells(JoinTwo(a, b, Gap), m + n)
         /\ Tells(Joined(<<a, b>>, Gap), m + n)
<1>1. a \in Text /\ b \in Text
  BY DEF Tells
<1>2. Tells(JoinTwo(a, b, Gap), m + n)
  BY <1>1, JoinTwoTells, SeparatorsAre, ContentsOf DEF Tells
<1> QED BY <1>1, <1>2, JoinedTwo

LEMMA JoinedThreeTells ==
  ASSUME NEW a, NEW b, NEW c, NEW m \in Nat, NEW n \in Nat, NEW k \in Nat,
         Tells(a, m), Tells(b, n), Tells(c, k)
  PROVE  Tells(Joined(<<a, b, c>>, Gap), m + n + k)
<1> DEFINE t == JoinTwo(a, b, Gap)
<1>1. a \in Text /\ b \in Text /\ c \in Text
  BY DEF Tells
<1>2. Tells(t, m + n)
  BY JoinedTells
<1>3. Joined(<<a, b, c>>, Gap) = JoinTwo(t, c, Gap)
  BY <1>1, JoinedThree
<1> HIDE DEF t
<1>4. Tells(JoinTwo(t, c, Gap), m + n + k)
  <2>1. m + n \in Nat
    OBVIOUS
  <2> QED BY <1>2, <2>1, JoinedTells
<1> QED BY <1>3, <1>4

(* Every file of a list is in the text it is joined to.                    *)
LEMMA BlocksTell ==
  ASSUME NEW src \in Sources, NEW lengths \in Seq(Nat),
         NEW separator \in Text, ContentOf(separator) = 0
  PROVE  /\ Blocks(src, lengths) \in Seq(Text)
         /\ Len(Blocks(src, lengths)) = Len(lengths)
         /\ Tells(Joined(Blocks(src, lengths), separator), Total(lengths))
<1> DEFINE N == Len(lengths)
           blocks == Blocks(src, lengths)
           j == Joins(blocks, separator)
           s == Sums(lengths)
<1>1. /\ N \in Nat /\ DOMAIN lengths = 1 .. N
      /\ \A n \in 1 .. N : lengths[n] \in Nat
  BY LenProperties, ElementOfSeq
<1>2. \A n \in Nat : Piece(src, n) \in Text /\ ContentOf(Piece(src, n)) = n
  <2>1. src \notin Apart /\ src \in Sources \union Apart
    BY DEF Sources, Apart
  <2> QED BY <2>1, PieceIs
<1>3. /\ blocks \in Seq(Text) /\ Len(blocks) = N
      /\ \A n \in 1 .. N : blocks[n] \in Text /\ ContentOf(blocks[n]) = lengths[n]
  <2>1. blocks = [n \in 1 .. N |-> Piece(src, lengths[n])]
    BY <1>1 DEF Blocks
  <2> HIDE DEF blocks, N
  <2>2. blocks \in [1 .. N -> Text]
    BY <1>1, <1>2, <2>1
  <2> QED BY <1>1, <1>2, <2>1, <2>2
<1>4. /\ j[0] = <<>> /\ Joined(blocks, separator) = j[N]
      /\ \A n \in 1 .. N : j[n] = JoinTwo(j[n - 1], blocks[n], separator)
      /\ \A n \in 0 .. N : j[n] \in Text
  <2> HIDE DEF blocks
  <2> QED BY <1>3, JoinsOf
<1>5. s[0] = 0 /\ Total(lengths) = s[N] /\ \A n \in 1 .. N : s[n] = s[n - 1] + lengths[n]
  BY SumsOf
<1> HIDE DEF N, blocks, j, s
<1> DEFINE Good == {n \in 0 .. N : ContentOf(j[n]) = s[n]}
<1>6. Good \in SUBSET (0 .. N) /\ 0 \in Good
  BY <1>1, <1>4, <1>5, NoText
<1>7. ASSUME NEW n \in 1 .. N, n - 1 \in Good PROVE n \in Good
  <2>1. ContentOf(j[n]) = ContentOf(j[n - 1]) + ContentOf(blocks[n])
    <3>1. n - 1 \in 0 .. N /\ j[n - 1] \in Text /\ blocks[n] \in Text
      BY <1>1, <1>3, <1>4
    <3> QED BY <1>4, <3>1, JoinTwoTells
  <2> QED BY <1>3, <1>5, <1>7, <2>1
<1>8. Good = 0 .. N
  <2> HIDE DEF Good
  <2> QED BY <1>1, <1>6, <1>7, UpTo
<1>9. Tells(j[N], Total(lengths))
  BY <1>1, <1>4, <1>5, <1>8 DEF Tells
<1> QED BY <1>3, <1>4, <1>9 DEF N, blocks

LEMMA NothingJoined ==
  ASSUME NEW separator \in Text, ContentOf(separator) = 0
  PROVE  Joined(<<>>, separator) = <<>> /\ Length(<<>>) = 0
<1>1. <<>> \in Seq(Text) /\ Len(<<>>) = 0
  BY EmptySeq
<1>2. Joined(<<>>, separator) = <<>>
  BY <1>1, JoinsOf
<1>3. Length(<<>>) = 0
  <2>1. [i \in DOMAIN <<>> |-> <<>>[i].len] = <<>>
    OBVIOUS
  <2> QED BY <2>1, TotalShort DEF Length
<1> QED BY <1>2, <1>3

(* Rules that are left out leave a notice.                                 *)
LEMMA AssembleTells ==
  ASSUME NEW src \in Sources, NEW lengths \in Seq(Nat)
  PROVE  Tells(Assemble(Blocks(src, lengths)), Total(lengths))
<1> DEFINE blocks == Blocks(src, lengths)
           N == Len(blocks)
           full == Joined(blocks, Ruler)
           fits(k) == Length(Joined(SubSeq(blocks, 1, k), Ruler)) <= MaxRules - NoticeMax
           last(k) == fits(k) /\ \A j \in k + 1 .. N : ~fits(j)
           kept == CHOOSE k \in 0 .. N : last(k)
           notice == Piece("notice", NoticeMax)
           some == Append(SubSeq(blocks, 1, kept), notice)
<1>1. Assemble(blocks) = IF Length(full) <= MaxRules THEN full ELSE Joined(some, Ruler)
  BY DEF Assemble
<1>2. blocks \in Seq(Text) /\ Tells(full, Total(lengths))
  BY BlocksTell, SeparatorsAre
<1> HIDE DEF blocks
<1>3. N \in Nat
  BY <1>2, LenProperties
<1>4. kept \in 0 .. N
  <2> DEFINE F == {k \in 0 .. N : fits(k)}
             G == {N - k : k \in F}
  <2>1. fits(0)
    <3>1. SubSeq(blocks, 1, 0) = <<>>
      BY SubSeqEmpty
    <3>2. 0 <= MaxRules - NoticeMax
      BY BudgetsAssumption
    <3> QED BY <3>1, <3>2, NothingJoined, SeparatorsAre
  <2> HIDE DEF fits
  <2>2. 0 \in F /\ N \in G /\ G \in SUBSET Nat
    BY <1>3, <2>1
  <2>3. PICK g \in G : \A h \in G : g <= h
    BY <2>2, LeastOf
  <2>4. PICK k \in F : g = N - k
    BY <2>3
  <2>5. ASSUME NEW i \in k + 1 .. N, fits(i) PROVE FALSE
    <3>1. i \in F /\ N - i \in G /\ ~(N - k <= N - i)
      BY <1>3, <2>4, <2>5
    <3> QED BY <2>3, <2>4, <3>1
  <2>6. k \in 0 .. N /\ last(k)
    BY <2>4, <2>5
  <2> HIDE DEF last
  <2> QED BY <2>6
<1> HIDE DEF kept, N
<1>5. notice \in Text /\ Holds(notice, "notice")
  <2>1. "notice" \in Sources \union Apart /\ NoticeMax \in Nat /\ NoticeMax # 0
    BY BudgetsAssumption DEF Apart
  <2> QED BY <2>1, PieceIs
<1>6. /\ some \in Seq(Text) /\ Len(some) = kept + 1 /\ some[kept + 1] = notice
      /\ kept \in Nat
  <2>1. SubSeq(blocks, 1, kept) \in Seq(Text) /\ Len(SubSeq(blocks, 1, kept)) = kept
    <3>1. \A i \in 1 .. kept : blocks[i] \in Text
      BY <1>2, <1>3, <1>4, ElementOfSeq DEF N
    <3> QED BY <1>3, <1>4, <3>1, SubSeqProperties
  <2> HIDE DEF notice
  <2> QED BY <1>3, <1>4, <1>5, <2>1, AppendProperties
<1>7. Holds(Joined(some, Ruler), "notice") /\ Joined(some, Ruler) \in Text
  <2> HIDE DEF some, notice
  <2> DEFINE j == Joins(some, Ruler)
  <2>1. /\ Joined(some, Ruler) = j[kept + 1]
        /\ j[kept + 1] = JoinTwo(j[(kept + 1) - 1], some[kept + 1], Ruler)
        /\ j[(kept + 1) - 1] \in Text
    <3>1. kept + 1 \in 1 .. Len(some) /\ (kept + 1) - 1 \in 0 .. Len(some)
      BY <1>6
    <3> QED BY <1>6, <3>1, JoinsOf, SeparatorsAre
  <2> HIDE DEF j
  <2> QED BY <1>5, <1>6, <2>1, JoinTwoTells, SeparatorsAre
<1> HIDE DEF full, some
<1>8. Tells(Assemble(blocks), Total(lengths))
  BY <1>1, <1>2, <1>7 DEF Tells
<1> QED BY <1>8 DEF blocks

(* A document is its two parts, and the ruler between them.                *)
LEMMA SplitTells ==
  ASSUME NEW doc, NEW n \in Nat, Tells(doc, n)
  PROVE  Tells(Joined(<<Split(doc).agentsMd, Split(doc).rules>>, Gap), n)
<1> DEFINE a == Split(doc).agentsMd
           b == Split(doc).rules
<1>1. /\ doc \in Text /\ Len(doc) \in Nat /\ DOMAIN doc = 1 .. Len(doc)
      /\ \A i \in 1 .. Len(doc) : doc[i] \in [src : Sources \union Apart, len : Nat]
  BY LenProperties, ElementOfSeq DEF Tells, Text
<1>2. SUFFICES /\ a \in Text /\ b \in Text
               /\ ContentOf(a) + ContentOf(b) = ContentOf(doc)
               /\ Holds(doc, "notice") => Holds(a, "notice") \/ Holds(b, "notice")
  <2> HIDE DEF a, b
  <2>1. /\ JoinTwo(a, b, Gap) \in Text
        /\ ContentOf(JoinTwo(a, b, Gap)) = ContentOf(doc)
        /\ Holds(doc, "notice") => Holds(JoinTwo(a, b, Gap), "notice")
    BY <1>2, JoinTwoTells, SeparatorsAre
  <2>2. Joined(<<a, b>>, Gap) = JoinTwo(a, b, Gap)
    BY <1>2, JoinedTwo
  <2> QED BY <2>1, <2>2 DEF Tells, a, b
<1>3. CASE ~Holds(doc, "ruler")
  <2>1. a = doc /\ b = <<>>
    BY <1>3 DEF Split
  <2> HIDE DEF a, b
  <2> QED BY <1>1, <2>1, NoText, ContentsOf
<1>4. CASE Holds(doc, "ruler")
  <2> DEFINE r == FirstRuler(doc)
             N == Len(doc)
             rest == SubSeq(doc, r + 1, N)
             one == <<doc[r]>>
             blank == Piece("line", 2)
  <2>1. r \in 1 .. N /\ doc[r].src = "ruler"
    <3> DEFINE R == {i \in 1 .. N : doc[i].src = "ruler"}
    <3>1. R \in SUBSET Nat /\ R # {}
      BY <1>1, <1>4 DEF Holds
    <3>2. PICK i \in R : \A j \in R : i <= j
      BY <3>1, LeastOf
    <3>3. i \in DOMAIN doc /\ doc[i].src = "ruler" /\ \A j \in 1 .. i - 1 : doc[j].src # "ruler"
      BY <1>1, <3>2
    <3> QED BY <1>1, <3>3 DEF FirstRuler
  <2>2. a = SubSeq(doc, 1, r - 1) /\ b = blank \o rest
    BY <1>4 DEF Split
  <2> HIDE DEF r, a, b
  <2>3. /\ a \in Text /\ Len(a) = r - 1 /\ \A i \in 1 .. r - 1 : a[i] = doc[i]
    <3>1. /\ SubSeq(doc, 1, r - 1) \in Text
          /\ Len(SubSeq(doc, 1, r - 1)) = IF 1 <= r - 1 THEN (r - 1) - 1 + 1 ELSE 0
          /\ \A i \in 1 .. (r - 1) - 1 + 1 : SubSeq(doc, 1, r - 1)[i] = doc[1 + i - 1]
      BY <1>1, <2>1, SubSeqProperties DEF Text
    <3> QED BY <2>1, <2>2, <3>1
  <2>4. /\ rest \in Text /\ Len(rest) = N - r /\ \A i \in 1 .. N - r : rest[i] = doc[r + i]
    <3>1. \A i \in r + 1 .. N : doc[i] \in [src : Sources \union Apart, len : Nat]
      BY <1>1, <2>1
    <3>2. /\ SubSeq(doc, r + 1, N) \in Text
          /\ Len(SubSeq(doc, r + 1, N)) = IF r + 1 <= N THEN N - (r + 1) + 1 ELSE 0
          /\ \A i \in 1 .. N - (r + 1) + 1 : SubSeq(doc, r + 1, N)[i] = doc[(r + 1) + i - 1]
      <4>1. r + 1 \in Int /\ N \in Int
        BY <1>1, <2>1
      <4> HIDE DEF N
      <4> QED BY <3>1, <4>1, SubSeqProperties DEF Text
    <3>3. \A i \in 1 .. N - r : (r + 1) + i - 1 = r + i
      BY <1>1, <2>1
    <3>4. /\ (IF r + 1 <= N THEN N - (r + 1) + 1 ELSE 0) = N - r
          /\ N - (r + 1) + 1 = N - r
      <4>1. N \in Int /\ r \in Int /\ r <= N
        BY <1>1, <2>1
      <4> HIDE DEF N
      <4>2. CASE r = N
        BY <4>1, <4>2
      <4>3. CASE r # N
        BY <4>1, <4>3
      <4> QED BY <4>2, <4>3
    <3> HIDE DEF N
    <3>5. rest \in Text /\ Len(rest) = N - r
      BY <3>2, <3>4
    <3>6. \A i \in 1 .. N - r : rest[i] = doc[r + i]
      BY <3>2, <3>3, <3>4
    <3> QED BY <3>5, <3>6
  <2> HIDE DEF rest
  <2>5. /\ one \in Text /\ Len(one) = 1 /\ one[1] = doc[r] /\ DOMAIN one = {1}
        /\ ContentOf(one) = 0 /\ ~Holds(one, "notice")
    <3>1. one \in Text /\ Len(one) = 1 /\ one[1] = doc[r] /\ DOMAIN one = {1}
      BY <1>1, <2>1 DEF Text
    <3> HIDE DEF one
    <3>2. Contents(one) = <<0>>
      <4>1. Contents(one) \in Seq(Nat) /\ Len(Contents(one)) = 1 /\ Contents(one)[1] = 0
        BY <2>1, <3>1, ContentsOf DEF Apart
      <4>2. <<0>> \in Seq(Nat) /\ Len(<<0>>) = 1 /\ <<0>>[1] = 0
        OBVIOUS
      <4> QED BY <4>1, <4>2, SeqEqual
    <3>3. ContentOf(one) = 0
      BY <3>1, <3>2, ContentsOf, TotalShort
    <3> QED BY <2>1, <3>1, <3>3 DEF Holds
  <2> HIDE DEF one
  <2>6. doc = (a \o one) \o rest
    <3> DEFINE t == a \o one
    <3>1. /\ t \in Text /\ Len(t) = r
          /\ \A i \in 1 .. r : t[i] = IF i <= r - 1 THEN a[i] ELSE one[i - (r - 1)]
      <4>1. /\ t \in Text /\ Len(t) = (r - 1) + 1
            /\ \A i \in 1 .. (r - 1) + 1 : t[i] = IF i <= r - 1 THEN a[i] ELSE one[i - (r - 1)]
        <5>1. /\ a \o one \in Text /\ Len(a \o one) = Len(a) + Len(one)
              /\ \A i \in 1 .. Len(a) + Len(one) :
                   (a \o one)[i] = IF i <= Len(a) THEN a[i] ELSE one[i - Len(a)]
          <6>1. a \in Text /\ one \in Text
            BY <2>3, <2>5
          <6> QED BY <6>1, ConcatProperties DEF Text
        <5> QED BY <2>3, <2>5, <5>1
      <4>2. (r - 1) + 1 = r
        BY <2>1
      <4> HIDE DEF t
      <4> QED BY <4>1, <4>2
    <3> HIDE DEF t
    <3>2. \A i \in 1 .. r : t[i] = doc[i]
      <4>1. \A i \in 1 .. r : i <= r - 1 \/ i = r
        BY <2>1
      <4> QED BY <2>1, <2>3, <2>5, <3>1, <4>1
    <3>3. /\ t \o rest \in Text /\ Len(t \o rest) = r + (N - r)
          /\ \A i \in 1 .. r + (N - r) : (t \o rest)[i] = IF i <= r THEN t[i] ELSE rest[i - r]
      <4> HIDE DEF N
      <4> QED BY <2>4, <3>1, ConcatProperties DEF Text
    <3>4. Len(t \o rest) = N /\ \A i \in 1 .. N : (t \o rest)[i] = doc[i]
      <4>1. r + (N - r) = N
        BY <1>1, <2>1
      <4>2. ASSUME NEW i \in 1 .. N PROVE (t \o rest)[i] = doc[i]
        <5>1. CASE i <= r
          BY <2>1, <3>2, <3>3, <4>1, <5>1
        <5>2. CASE ~(i <= r)
          <6>1. i - r \in 1 .. N - r /\ r + (i - r) = i
            BY <1>1, <2>1, <5>2
          <6> QED BY <2>4, <3>3, <4>1, <5>2, <6>1
        <5> QED BY <5>1, <5>2
      <4> QED BY <3>3, <4>1, <4>2
    <3>5. t \o rest = doc
      BY <1>1, <3>3, <3>4, SeqEqual DEF Text
    <3> QED BY <3>5 DEF t
  <2>7. /\ a \o one \in Text /\ ContentOf(a \o one) = ContentOf(a)
        /\ Holds(a \o one, "notice") <=> Holds(a, "notice")
    BY <2>3, <2>5, TextJoined, ContentsOf
  <2>8. /\ ContentOf(doc) = ContentOf(a) + ContentOf(rest)
        /\ Holds(doc, "notice") <=> Holds(a, "notice") \/ Holds(rest, "notice")
    <3> DEFINE t == a \o one
    <3>1. t \in Text /\ ContentOf(t) = ContentOf(a) /\ (Holds(t, "notice") <=> Holds(a, "notice"))
      BY <2>7
    <3>2. doc = t \o rest
      BY <2>6
    <3> HIDE DEF t
    <3> QED BY <2>4, <3>1, <3>2, TextJoined
  <2>9. blank \in Text /\ ContentOf(blank) = 0
    <3>1. "line" \in Apart /\ 2 \in Nat
      BY DEF Apart
    <3> QED BY <3>1, PieceIs
  <2> HIDE DEF blank
  <2>10. /\ b \in Text /\ ContentOf(b) = ContentOf(rest)
         /\ Holds(rest, "notice") => Holds(b, "notice")
    BY <2>2, <2>4, <2>9, TextJoined, ContentsOf
  <2> QED BY <2>3, <2>8, <2>10
<1> QED BY <1>3, <1>4

LEMMA SourcePiece ==
  ASSUME NEW src \in Sources, NEW n \in Nat
  PROVE  Tells(Piece(src, n), n)
<1>1. src \notin Apart /\ src \in Sources \union Apart
  BY DEF Sources, Apart
<1> QED BY <1>1, PieceIs DEF Tells

(* What the output style leaves of the base prompt.                        *)
LEMMA BaseTells ==
  ASSUME NEW docs \in Documents
  PROVE  Tells(Base(docs), ContentOf(Base(docs))) /\ ContentOf(Base(docs)) \in Nat
<1>1. /\ docs.style \in {"none", "keep", "replace"} /\ docs.base \in Nat /\ 1 \in Nat
      /\ "base" \in Sources /\ "style" \in Sources
  BY DEF Documents, Sources
<1>2. Piece("base", docs.base) \in Text /\ Piece("style", 1) \in Text
  BY <1>1, SourcePiece DEF Tells
<1>3. Joined(<<Piece("base", docs.base), Piece("style", 1)>>, Gap) \in Text
  BY <1>2, JoinedTwo, JoinTwoTells, SeparatorsAre
<1>4. Base(docs) \in Text
  <2>1. CASE docs.style = "none"
    BY <1>2, <2>1, Zenon DEF Base
  <2>2. CASE docs.style = "keep"
    BY <1>3, <2>2, Zenon DEF Base
  <2>3. CASE docs.style = "replace"
    BY <1>2, <2>3, Zenon DEF Base
  <2> QED BY <1>1, <2>1, <2>2, <2>3
<1> QED BY <1>4, ContentsOf DEF Tells

(* What the project document is asked to hold.                             *)
OfProject(docs) ==
  docs.userAgents + Total(docs.userRules)
    + (IF docs.trusted THEN Total(docs.chain) + Total(docs.rules) ELSE 0)

(* Unless the chain of AGENTS.md was shortened, the project document holds *)
(* what it was asked to hold, or a notice.                                 *)
LEMMA DocumentTells ==
  ASSUME NEW docs \in Documents, ~(docs.trusted /\ Length(WholeChain(docs)) > MaxChain)
  PROVE  Tells(ProjectDocument(docs), OfProject(docs)) /\ OfProject(docs) \in Nat
<1> DEFINE agents == Piece("userAgents", docs.userAgents)
           userRules == Assemble(Blocks("userRule", docs.userRules))
           user == Joined(<<agents, userRules>>, Gap)
           chain == AgentsMd(docs)
           rules == Assemble(Blocks("rule", docs.rules))
<1>1. /\ docs.userAgents \in Nat /\ docs.userRules \in Seq(Nat)
      /\ docs.chain \in Seq(Nat) /\ docs.rules \in Seq(Nat) /\ docs.trusted \in BOOLEAN
      /\ {"userAgents", "userRule", "chain", "rule"} \subseteq Sources
  BY DEF Documents, Sources
<1>2. /\ Total(docs.userRules) \in Nat /\ Total(docs.chain) \in Nat
      /\ Total(docs.rules) \in Nat
  BY <1>1, SumsOf
<1>3. Tells(user, docs.userAgents + Total(docs.userRules))
  <2>1. Tells(agents, docs.userAgents) /\ Tells(userRules, Total(docs.userRules))
    BY <1>1, SourcePiece, AssembleTells
  <2> HIDE DEF agents, userRules
  <2> QED BY <1>1, <1>2, <2>1, JoinedTells
<1>4. ProjectDocument(docs) = IF ~docs.trusted THEN user ELSE Joined(<<user, chain, rules>>, Gap)
  BY DEF ProjectDocument
<1>5. CASE ~docs.trusted
  <2>1. OfProject(docs) = docs.userAgents + Total(docs.userRules)
    BY <1>1, <1>2, <1>5 DEF OfProject
  <2> HIDE DEF user
  <2> QED BY <1>1, <1>2, <1>3, <1>4, <1>5, <2>1
<1>6. CASE docs.trusted
  <2>1. Tells(rules, Total(docs.rules))
    BY <1>1, AssembleTells
  <2>2. Tells(chain, Total(docs.chain))
    <3>1. chain = WholeChain(docs)
      BY <1>6 DEF AgentsMd
    <3>2. Tells(WholeChain(docs), Total(docs.chain))
      BY <1>1, BlocksTell, SeparatorsAre DEF WholeChain
    <3> QED BY <3>1, <3>2
  <2> HIDE DEF user, chain, rules
  <2>3. /\ docs.userAgents + Total(docs.userRules) \in Nat
        /\ OfProject(docs) =
             (docs.userAgents + Total(docs.userRules)) + Total(docs.chain) + Total(docs.rules)
    BY <1>1, <1>2, <1>6 DEF OfProject
  <2>4. /\ Tells(Joined(<<user, chain, rules>>, Gap),
                 (docs.userAgents + Total(docs.userRules)) + Total(docs.chain)
                   + Total(docs.rules))
        /\ OfProject(docs) \in Nat
    BY <1>2, <1>3, <2>1, <2>2, <2>3, JoinedThreeTells
  <2> QED BY <1>4, <1>6, <2>3, <2>4
<1> QED BY <1>1, <1>5, <1>6

-----------------------------------------------------------------------------
(* A composition from which nothing was cut without a word.                *)
Uncut(c, base, n, surface) ==
  /\ DOMAIN c = {"base", "doc", "surface", "cuts"}
  /\ \/ c.cuts # {}
     \/ c.base = base /\ c.surface = surface /\ Tells(c.doc, n)

(* Each of the three cuts of withinBudget is recorded, or cuts nothing.    *)
LEMMA CutsAre ==
  ASSUME NEW c, NEW base, NEW n \in Nat, NEW surface, Uncut(c, base, n, surface)
  PROVE  /\ Uncut(CutRules(c), base, n, surface)
         /\ Uncut(CutAgentsMd(c), base, n, surface)
         /\ Uncut(CutSurface(c), base, n, surface)
<1> DEFINE s == Split(c.doc)
<1>1. ASSUME NEW source, NEW from, NEW to, NEW doc,
             c.cuts = {}, from = to => Tells(doc, n)
      PROVE  Uncut(Cut(c, source, from, to, doc), base, n, surface)
  BY <1>1 DEF Cut, Uncut
<1>2. ASSUME NEW source, NEW from, NEW to, NEW doc, c.cuts # {}
      PROVE  Uncut(Cut(c, source, from, to, doc), base, n, surface)
  BY <1>2 DEF Cut, Uncut
<1>3. c.cuts = {} => Tells(Joined(<<s.agentsMd, s.rules>>, Gap), n)
  <2>1. c.cuts = {} => Tells(c.doc, n)
    BY DEF Uncut
  <2> QED BY <2>1, SplitTells
<1> HIDE DEF s
<1>4. ASSUME NEW rules PROVE Uncut(CutRulesTo(c, s, rules), base, n, surface)
  BY <1>1, <1>2, <1>3 DEF CutRulesTo
<1>5. ASSUME NEW md PROVE Uncut(CutAgentsMdTo(c, s, md), base, n, surface)
  BY <1>1, <1>2, <1>3 DEF CutAgentsMdTo
<1>6. ASSUME NEW other PROVE Uncut(CutSurfaceTo(c, other), base, n, surface)
  BY DEF CutSurfaceTo, Uncut
<1>7. Uncut(CutRules(c), base, n, surface)
  BY <1>4 DEF CutRules, CutRulesOf, s
<1>8. Uncut(CutAgentsMd(c), base, n, surface)
  BY <1>5 DEF CutAgentsMd, CutAgentsMdOf, s
<1>9. Uncut(CutSurface(c), base, n, surface)
  BY <1>6 DEF CutSurface
<1> QED BY <1>7, <1>8, <1>9

(* Whatever is left out of the instructions is said.                       *)
LEMMA ComposeTells ==
  ASSUME NEW docs \in Documents
  PROVE  \/ ContentOf(Compose(docs).text) = Asked(docs)
         \/ Holds(Compose(docs).text, "notice")
         \/ Compose(docs).cuts # {} \/ Compose(docs).warned
<1>1. SUFFICES ASSUME ~(docs.trusted /\ Length(WholeChain(docs)) > MaxChain),
                      Compose(docs).cuts = {}
               PROVE  Tells(Compose(docs).text, Asked(docs))
  <2>1. docs.trusted /\ Length(WholeChain(docs)) > MaxChain => Compose(docs).warned
    BY DEF Compose, Composed
  <2> QED BY <1>1, <2>1 DEF Tells
<1> DEFINE base == Base(docs)
           n == OfProject(docs)
           surface == Piece("surface", docs.surface)
           c0 == [base |-> base, doc |-> ProjectDocument(docs), surface |-> surface,
                  cuts |-> {}]
           c3 == CutSurface(CutAgentsMd(CutRules(c0)))
<1>2. Tells(ProjectDocument(docs), n) /\ n \in Nat
  BY <1>1, DocumentTells
<1>3. Uncut(c0, base, n, surface)
  <2> HIDE DEF base, n, surface
  <2> QED BY <1>2 DEF Uncut
<1> HIDE DEF base, n, surface, c0
<1>4. Uncut(CutRules(c0), base, n, surface)
  BY <1>2, <1>3, CutsAre
<1>5. Uncut(CutAgentsMd(CutRules(c0)), base, n, surface)
  BY <1>2, <1>4, CutsAre
<1>6. Uncut(c3, base, n, surface)
  BY <1>2, <1>5, CutsAre
<1>7. Compose(docs).text = Whole(c3) /\ Compose(docs).cuts = c3.cuts
  BY DEF Compose, Composed, c0, base, surface
<1> HIDE DEF c3
<1>8. c3.base = base /\ c3.surface = surface /\ Tells(c3.doc, n)
  BY <1>1, <1>6, <1>7 DEF Uncut
<1>9. /\ Tells(base, ContentOf(base)) /\ ContentOf(base) \in Nat
      /\ Tells(surface, docs.surface) /\ docs.surface \in Nat
  <2>1. docs.surface \in Nat /\ "surface" \in Sources
    BY DEF Documents, Sources
  <2> QED BY <2>1, BaseTells, SourcePiece DEF base, surface
<1>10. Tells(Whole(c3), ContentOf(base) + n + docs.surface)
  BY <1>2, <1>8, <1>9, JoinedThreeTells DEF Whole
<1>11. Asked(docs) = ContentOf(base) + n + docs.surface
  <2>1. /\ docs.userAgents \in Nat /\ docs.userRules \in Seq(Nat)
        /\ docs.chain \in Seq(Nat) /\ docs.rules \in Seq(Nat) /\ docs.trusted \in BOOLEAN
    BY DEF Documents
  <2>2. /\ Total(docs.userRules) \in Nat /\ Total(docs.chain) \in Nat
        /\ Total(docs.rules) \in Nat
    BY <2>1, SumsOf
  <2>3. Asked(docs) = ContentOf(base) + docs.userAgents + Total(docs.userRules) + docs.surface
          + (IF docs.trusted THEN Total(docs.chain) + Total(docs.rules) ELSE 0)
    BY DEF Asked, base
  <2> QED BY <1>9, <2>1, <2>2, <2>3 DEF n, OfProject
<1> QED BY <1>7, <1>10, <1>11

-----------------------------------------------------------------------------
(* The instructions of the turn.                                           *)

LEMMA TextStep == TextInv /\ [Next]_vars => TextInv'
<1> SUFFICES ASSUME TextInv, [Next]_vars PROVE TextInv'
  OBVIOUS
<1>0. ASSUME UNCHANGED machine, UNCHANGED agent PROVE TextInv'
  BY <1>0 DEF TextInv, CutsAreTold
<1>1. CASE Parse \/ Chdir \/ Sessions \/ Doctor \/ MigrateConfig \/ GitGate \/ ReadPrompt
  BY <1>0, <1>1 DEF Parse, Chdir, Sessions, Doctor, MigrateConfig, GitGate, ReadPrompt, Exit,
     Throw, Go, input, work
<1>2. CASE Probe
  <2>1. UNCHANGED machine
    BY <1>2 DEF Probe, input
  <2>2. DOMAIN agent' = DOMAIN agent
    BY <1>2 DEF Probe
  <2>3. agent'.text = agent.text /\ agent'.cuts = agent.cuts /\ agent'.warned = agent.warned
    BY <1>2 DEF Probe, TextInv
  <2> QED  BY <2>1, <2>2, <2>3 DEF TextInv, CutsAreTold
<1>3. CASE ComposeRun
  <2>1. UNCHANGED machine /\ DOMAIN agent' = DOMAIN agent
    BY <1>3 DEF ComposeRun, input
  <2>2. CASE UNCHANGED agent
    BY <1>0, <2>1, <2>2
  <2>3. CASE agent' # agent
    <3> DEFINE composed == Compose(machine.docs)
    <3>1. agent' = [agent EXCEPT !.model = RouteToCredential(agent.probe, Requested),
                                 !.text = composed.text, !.cuts = composed.cuts,
                                 !.warned = composed.warned]
      BY <1>3, <2>3 DEF ComposeRun
    <3>2. /\ agent'.text = composed.text /\ agent'.cuts = composed.cuts
          /\ agent'.warned = composed.warned
      BY <3>1 DEF TextInv
    <3>3. \/ ContentOf(composed.text) = Asked(machine.docs)
          \/ Holds(composed.text, "notice") \/ composed.cuts # {} \/ composed.warned
      BY ComposeTells DEF TextInv
    <3> HIDE DEF composed
    <3> QED  BY <2>1, <3>2, <3>3 DEF TextInv, CutsAreTold
  <2> QED  BY <2>2, <2>3
<1>4. CASE ResolveAgain
  <2>1. UNCHANGED machine /\ DOMAIN agent' = DOMAIN agent
    BY <1>4 DEF ResolveAgain, input
  <2>2. agent'.text = agent.text /\ agent'.cuts = agent.cuts /\ agent'.warned = agent.warned
    BY <1>4 DEF ResolveAgain, TextInv
  <2> QED  BY <2>1, <2>2 DEF TextInv, CutsAreTold
<1>5. CASE OperatorSigns
  <2>1. UNCHANGED agent
    BY <1>5, Zenon DEF OperatorSigns, work
  <2>2. PICK s : machine' = [machine EXCEPT !.store = s, !.operator = "signed"]
    BY <1>5, Zenon DEF OperatorSigns
  <2>3. DOMAIN machine' = DOMAIN machine /\ machine'.docs = machine.docs
    BY <2>2 DEF TextInv
  <2> QED  BY <2>1, <2>3 DEF TextInv, CutsAreTold
<1>6. CASE OpenSession
  <2>1. UNCHANGED machine /\ agent' = NoAgent
    BY <1>6 DEF OpenSession, input
  <2> QED  BY <2>1 DEF TextInv, CutsAreTold, NoAgent
<1>7. CASE RateLimited \/ ChunkArrives \/ StreamEnds \/ StreamThrows \/ FinishRun \/ Drained
  BY <1>0, <1>7 DEF RateLimited, ChunkArrives, StreamEnds, StreamThrows, FinishRun, Drained,
     Streaming, Exit, Go, input, work
<1>8. CASE BuildGoal \/ PursueGoal \/ ReportGoal \/ CreateReviewer \/ ReviewEnds \/ ReportReview
  BY <1>0, <1>8 DEF BuildGoal, PursueGoal, ReportGoal, CreateReviewer, ReviewEnds, ReportReview,
     Exit, Throw, Go, input, work
<1>9. CASE Interrupt \/ FinishInterrupted \/ AbortGoal \/ CancellationReturns \/ ShutdownExits
  BY <1>0, <1>9 DEF Interrupt, FinishInterrupted, AbortGoal, CancellationReturns, ShutdownExits,
     Task, Exit, input, work
<1>10. CASE Dispose("dispose-goal-agent", "goal") \/ Dispose("discard-review", "reviewer")
  BY <1>0, <1>10 DEF Dispose, Task, input, work
<1>11. CASE UNCHANGED vars
  BY <1>0, <1>11 DEF vars
<1> QED
  BY <1>1, <1>2, <1>3, <1>4, <1>5, <1>6, <1>7, <1>8, <1>9, <1>10, <1>11 DEF Next, Exited

(* Whatever of the instructions is left out of the prompt is said, by a    *)
(* notice, a recorded cut or a warning: for documents of any number and    *)
(* length, and whatever the budgets (assemble, loadAgentsMd, withinBudget). *)
THEOREM CutsTold == Spec => []CutsAreTold
<1>1. ASSUME Init PROVE TextInv
  <2>1. PICK start \in Starts : machine = start.machine
    BY <1>1 DEF Init
  <2>2. agent = NoAgent
    BY <1>1 DEF Init
  <2>3. agent.text = <<>> /\ DOMAIN agent = {"probe", "cred", "model", "text", "cuts", "warned"}
    BY <2>2 DEF NoAgent
  <2>4. /\ machine.docs \in Documents
        /\ DOMAIN machine = {"env", "store", "operator", "asked", "config", "docs", "chunks"}
    BY <2>1, StartsAssumption
  <2> QED  BY <2>3, <2>4 DEF TextInv, CutsAreTold
<1>2. TextInv => CutsAreTold
  BY DEF TextInv
<1> QED  BY <1>1, <1>2, TextStep, PTL DEF Spec
=============================================================================
