------------------------------ MODULE Console ------------------------------
(***************************************************************************)
(* The terminal while a turn runs: the approvals and the question the turn *)
(* waits for, the surface that is drawn, the keys, and the shells that     *)
(* turns leave behind.                                                     *)
(*                                                                         *)
(* A session, a question, an approval and a backend of shells is a number; *)
(* 0 is the session of the launch, and elsewhere "none".  SessionSwitch    *)
(* has what a switch does to the session's file and its conversation, and  *)
(* TurnAuthority which approvals are given at once.                        *)
(***************************************************************************)
EXTENDS KeyRouter, ApprovalLedger, FiniteSets

CONSTANTS
  Launches,     \* how a terminal starts: its gate and sandbox mode, and how many
                \*   turns, messages, approvals, questions, shells, switches of
                \*   session, awaited switches, edits of the sandbox mode, surfaces
                \*   and keys there may be
  BindingsFile, \* the keys the operator's file binds, each with its action
  Keys,
  Modes,        \* the sandbox modes, MORE_PERMISSIVE last
  LastSession   \* sessions are numbered up to it

(* No launch switches to more sessions than there are numbers.             *)
Launch ==
  [gate : {"trust", "hooks", "none"}, sandbox : Range(Modes), turns : Nat, messages : Nat,
   approvals : Nat, questions : Nat, shells : Nat, switches : 0..LastSession, awaits : Nat,
   edits : Nat, surfaces : Nat, keys : Nat]

ASSUME LaunchesAssumption == LastSession \in Nat /\ Launches \subseteq Launch
ASSUME ModesAssumption == Modes \in Seq(Range(Modes))

VARIABLES
  left,     \* the launch, with what is left of its limits
  session,  \* SESSION.session()
  turn,     \* phase "none", "starting" up to its agent, "built" up to getSessionId,
            \*   "streaming"; its session and backend, whether the session was
            \*   switched under it, and what it asked
  thread,   \* the conversation's messages, each with the approvals it asked for
  sent,     \* the approvals that were answered
  ledger, card, dirty, effect,   \* useApprovals
  auto,     \* whether the approval mode approves what is asked
  bridge,   \* the question pending and the one remembered per session, the one shown
  screen,
  owner,    \* of the shells: its mode, and the number of its backend
  shells,
  late,     \* the commands that await before they switch
  on        \* whether the terminal runs

approvalVars == <<thread, sent, ledger, card, dirty, effect, auto>>
shellVars == <<owner, shells>>
vars == <<left, session, turn, approvalVars, bridge, screen, shellVars, late, on>>

Sessions == 0..LastSession
Spend(what) == left[what] > 0 /\ left' = [left EXCEPT ![what] = @ - 1]

NoTurn == [phase |-> "none", session |-> 0, backend |-> 0, moved |-> FALSE, asked |-> {}]
Streaming == turn.phase # "none"

ClosedLadder == [armed |-> FALSE, nth |-> SENTINEL, total |-> 0]

Init ==
  /\ left \in Launches
  /\ session = 0 /\ turn = NoTurn
  /\ thread = <<>> /\ sent = {} /\ ledger = CreateLedger
  /\ card = 0 /\ dirty = FALSE /\ effect = FALSE /\ auto = FALSE
  /\ bridge = [pending |-> [s \in Sessions |-> 0], ids |-> [s \in Sessions |-> 0], shown |-> 0]
  /\ screen = [gate |-> left.gate, login |-> FALSE, mode |-> "chat", panels |-> {},
               goal |-> FALSE, text |-> FALSE, exitArmed |-> FALSE,
               ladder |-> ClosedLadder, priming |-> FALSE, rotating |-> FALSE]
  /\ owner = [mode |-> left.sandbox, current |-> 1] /\ shells = {}
  /\ late = {} /\ on = TRUE

(* INPUT_LAYERS and CONVERSATION_LAYERS: the one surface that is drawn.    *)
Drawn ==
  CASE screen.gate # "none" -> screen.gate
    [] screen.gate = "none" /\ card # 0 -> "approval"
    [] screen.gate = "none" /\ card = 0 /\ screen.login -> "credential"
    [] screen.gate = "none" /\ card = 0 /\ ~screen.login ->
         IF bridge.shown # 0 THEN "question" ELSE IF screen.mode # "chat" THEN "demo" ELSE "composer"

Shows(surface) == on /\ Drawn = surface

-----------------------------------------------------------------------------
(* The shells (agent/src/pty/session-pty-owner.ts).                        *)

Permissiveness(mode) == CHOOSE i \in DOMAIN Modes : Modes[i] = mode

KillAll == {s \in shells : s.backend # owner.current}

(* Defect: what runs goes on under the mode it was started in.             *)
SetMode_NoKill(mode) == shells' = shells /\ owner' = [owner EXCEPT !.mode = mode]

(* setMode: a tighter mode ends what runs and takes a new backend.         *)
SetMode(mode) ==
  IF Permissiveness(mode) < Permissiveness(owner.mode)
  THEN shells' = KillAll /\ owner' = [mode |-> mode, current |-> owner.current + 1]
  ELSE shells' = shells /\ owner' = [owner EXCEPT !.mode = mode]

Rotate == shells' = KillAll /\ owner' = [owner EXCEPT !.current = @ + 1]

(* A tool of the turn starts a shell in the backend the turn was built     *)
(* with, wrapped for the mode the owner has now.                           *)
StartShell ==
  /\ on /\ turn.phase = "streaming" /\ Spend("shells")
  /\ shells' = shells \union
       {[id |-> left.shells, backend |-> turn.backend, mode |-> owner.mode,
         late |-> turn.backend # owner.current]}
  /\ UNCHANGED <<session, turn, approvalVars, bridge, screen, owner, late, on>>

(* /stop.                                                                  *)
HandleStopPtys ==
  /\ Shows("composer") /\ KillAll # shells
  /\ shells' = KillAll
  /\ UNCHANGED <<left, session, turn, approvalVars, bridge, screen, owner, late, on>>

-----------------------------------------------------------------------------
(* The turn.                                                               *)

Submit ==
  /\ Shows("composer") /\ ~Streaming /\ Spend("turns")
  /\ turn' = [NoTurn EXCEPT !.phase = "starting"]
  /\ thread' = Append(thread, <<>>) /\ dirty' = TRUE
  /\ screen' = [screen EXCEPT !.text = FALSE]
  /\ UNCHANGED <<session, sent, ledger, card, effect, auto, bridge, shellVars, late, on>>

(* resolveInteractiveBackend: in the mode this turn's configuration has.   *)
BuildAgent(mode) ==
  /\ on /\ turn.phase = "starting"
  /\ IF mode = owner.mode THEN UNCHANGED left ELSE Spend("edits")
  /\ SetMode(mode)
  /\ turn' = [turn EXCEPT !.phase = "built", !.backend = owner'.current]
  /\ UNCHANGED <<session, approvalVars, bridge, screen, late, on>>

OpenTurn ==
  /\ on /\ turn.phase = "built"
  /\ turn' = [turn EXCEPT !.phase = "streaming", !.session = session]
  /\ thread' = Append(thread, <<>>) /\ dirty' = TRUE
  /\ UNCHANGED <<left, session, sent, ledger, card, effect, auto, bridge, screen,
                 shellVars, late, on>>

NextMessage ==
  /\ on /\ turn.phase = "streaming" /\ Spend("messages")
  /\ thread' = Append(thread, <<>>) /\ dirty' = TRUE
  /\ UNCHANGED <<session, turn, sent, ledger, card, effect, auto, bridge, screen,
                 shellVars, late, on>>

TurnEnds ==
  /\ on /\ Streaming
  /\ turn' = NoTurn
  /\ UNCHANGED <<left, session, approvalVars, bridge, screen, shellVars, late, on>>

-----------------------------------------------------------------------------
(* Approvals (tui/src/consent/use-approvals.ts).                           *)

(* A tool of the turn waits for an approval, in its last message.          *)
RequestApproval ==
  /\ on /\ turn.phase = "streaming" /\ thread # <<>> /\ Spend("approvals")
  /\ thread' = [thread EXCEPT ![Len(thread)] = Append(@, [id |-> left.approvals, open |-> TRUE])]
  /\ dirty' = TRUE
  /\ UNCHANGED <<session, turn, sent, ledger, card, effect, auto, bridge, screen,
                 shellVars, late, on>>

(* The framework notes an answer, or that nobody waits for it any more.    *)
ApprovalCloses(i, k) ==
  /\ on /\ thread[i][k].open /\ (thread[i][k].id \in sent \/ ~Streaming)
  /\ thread' = [thread EXCEPT ![i][k].open = FALSE]
  /\ dirty' = TRUE
  /\ UNCHANGED <<left, session, turn, sent, ledger, card, effect, auto, bridge, screen,
                 shellVars, late, on>>

(* The memo of useApprovals, in the render of the thread at hand.          *)
Draw(known, messages) ==
  /\ ledger' = Ingest(known, messages)
  /\ card' = FindNextApproval(ledger')
  /\ effect' = (card' # 0)
  /\ dirty' = FALSE

Render ==
  /\ on /\ dirty
  /\ Draw(ledger, thread)
  /\ UNCHANGED <<left, session, turn, thread, sent, auto, bridge, screen, shellVars, late, on>>

SettleApproval(id) ==
  /\ sent' = sent \union {id}
  /\ Draw(Settle(ledger, id), thread)

(* Either answer: what differs is the tool's.  The card is drawn of an     *)
(* approval that is known to be there (narrowingLayer).                    *)
Decide ==
  /\ Shows("approval") /\ card # 0
  /\ SettleApproval(card)
  /\ UNCHANGED <<left, session, turn, thread, auto, bridge, screen, shellVars, late, on>>

(* The effect after a render.                                              *)
AutoApprove ==
  /\ on /\ effect
  /\ IF auto THEN SettleApproval(card)
     ELSE effect' = FALSE /\ UNCHANGED <<sent, ledger, card, dirty>>
  /\ UNCHANGED <<left, session, turn, thread, auto, bridge, screen, shellVars, late, on>>

HandleApprovalMode ==
  /\ Shows("composer") /\ left.approvals > 0
  /\ auto' = ~auto /\ effect' = (card # 0)
  /\ UNCHANGED <<left, session, turn, thread, sent, ledger, card, dirty, bridge, screen,
                 shellVars, late, on>>

-----------------------------------------------------------------------------
(* The question (agent/src/ask/ask-bridge.ts).                             *)

(* notify: the screen reads the question of the session that is on it.     *)
Notified(b) == [b EXCEPT !.shown = b.ids[session]]

Forgotten(b, s) == [b EXCEPT !.pending[s] = 0, !.ids[s] = 0]

(* abandonQuestion, and onAbandon if one was pending.                      *)
Abandon(b, s) == IF b.pending[s] = 0 THEN b ELSE Notified(Forgotten(b, s))

Asked(b, s, id) ==
  IF b.pending[s] # 0 THEN b
  ELSE Notified([b EXCEPT !.pending[s] = id, !.ids[s] = id])

(* A second question of the session is refused while one waits.            *)
Ask ==
  /\ on /\ turn.phase = "streaming" /\ Spend("questions")
  /\ bridge' = Asked(bridge, turn.session, left.questions)
  /\ turn' = [turn EXCEPT !.asked = @ \union {left.questions}]
  /\ UNCHANGED <<session, approvalVars, screen, shellVars, late, on>>

(* Its five minutes are over, or the framework gave the turn up.           *)
QuestionLapses(s) ==
  /\ on /\ bridge.pending[s] # 0
  /\ bridge' = Abandon(bridge, s)
  /\ UNCHANGED <<left, session, turn, approvalVars, screen, shellVars, late, on>>

(* answerQuestion: nothing happens when the session has none.              *)
AnswerQuestion ==
  /\ Shows("question") /\ bridge.ids[session] # 0
  /\ bridge.ids[session] \in Range(bridge.pending)
  /\ bridge' = [Forgotten(bridge, session) EXCEPT !.shown = 0]
  /\ UNCHANGED <<left, session, turn, approvalVars, screen, shellVars, late, on>>

AbandonQuestion == [Abandon(bridge, session) EXCEPT !.shown = 0]

CancelQuestion ==
  /\ Shows("question")
  /\ bridge' = AbandonQuestion
  /\ UNCHANGED <<left, session, turn, approvalVars, screen, shellVars, late, on>>

-----------------------------------------------------------------------------
(* Sessions.                                                               *)

(* A turn that has read the session goes on in it.                         *)
Moved(t) == [t EXCEPT !.moved = @ \/ t.phase = "streaming"]

(* A number no session had: they are counted down, from the largest.       *)
FreshSessions == {left.switches} \ {0}
FreshSession == session' = left.switches /\ Spend("switches")

ResetAgent ==
  /\ turn' = NoTurn
  /\ thread' = <<>> /\ Draw(ledger, <<>>)
  /\ UNCHANGED <<sent, auto>>

(* /new, /clear.                                                           *)
ResetConversation ==
  /\ Shows("composer") /\ FreshSession
  /\ Rotate /\ ResetAgent
  /\ screen' = [screen EXCEPT !.goal = FALSE, !.text = FALSE]
  /\ UNCHANGED <<bridge, late, on>>

Fork ==
  /\ Shows("composer") /\ FreshSession
  /\ turn' = Moved(turn)
  /\ UNCHANGED <<approvalVars, bridge, screen, shellVars, late, on>>

(* /resume, typed while nothing streams, and /archive, at any time.        *)
HandleLate(command) ==
  /\ Shows("composer") /\ (command = "resume" => ~Streaming)
  /\ left.switches > 0 /\ Spend("awaits")
  /\ late' = late \union {command}
  /\ UNCHANGED <<session, turn, approvalVars, bridge, screen, shellVars, on>>

(* To a session of before.                                                 *)
ResumeLands(s) ==
  /\ on /\ "resume" \in late /\ (s = 0 \/ s > left.switches) /\ s # session
  /\ Spend("switches")
  /\ session' = s /\ turn' = Moved(turn)
  /\ late' = late \ {"resume"}
  /\ UNCHANGED <<approvalVars, bridge, screen, shellVars, on>>

(* resetSession: the conversation stays on the screen.                     *)
ArchiveLands ==
  /\ on /\ "archive" \in late /\ FreshSession
  /\ turn' = Moved(turn) /\ Rotate
  /\ late' = late \ {"archive"}
  /\ UNCHANGED <<approvalVars, bridge, screen, on>>

(* confirmBacktrack, after its await: forked, or nothing to fork.          *)
RewindLands ==
  /\ on /\ screen.rotating
  /\ screen' = [screen EXCEPT !.rotating = FALSE, !.ladder = ClosedLadder]
  /\ \/ FreshSession /\ ResetAgent
     \/ UNCHANGED <<left, session, turn, approvalVars>>
  /\ UNCHANGED <<bridge, shellVars, late, on>>

-----------------------------------------------------------------------------
(* The screen (tui/src/terminal-io).                                       *)

Primed(total) ==
  /\ on /\ screen.priming
  /\ screen' = [screen EXCEPT !.priming = FALSE,
       !.ladder = IF total = 0 THEN @ ELSE [armed |-> TRUE, nth |-> SENTINEL, total |-> total]]
  /\ UNCHANGED <<left, session, turn, approvalVars, bridge, shellVars, late, on>>

(* What a command opens: a panel, the field of /login, a demo, a goal.     *)
Open(surface) ==
  /\ Shows("composer") /\ Spend("surfaces")
  /\ screen' =
       CASE surface \in {"diff", "usage", "help"} ->
              [screen EXCEPT !.panels = SymDiff(@, {surface})]
         [] surface = "login" -> [screen EXCEPT !.login = TRUE]
         [] surface = "goal" -> [screen EXCEPT !.goal = TRUE]
         [] OTHER -> [screen EXCEPT !.mode = surface]
  /\ UNCHANGED <<session, turn, approvalVars, bridge, shellVars, late, on>>

(* The gate, the field, the demo and the goal end; declining the first     *)
(* gate leaves, and a trust that could not be stored brings it back.       *)
Close ==
  /\ on
  /\ \/ /\ Shows("trust")
        /\ \E next \in {"hooks", "none"} : screen' = [screen EXCEPT !.gate = next]
     \/ Shows("hooks") /\ screen' = [screen EXCEPT !.gate = "none"]
     \/ Shows("credential") /\ screen' = [screen EXCEPT !.login = FALSE]
     \/ Shows("demo") /\ screen' = [screen EXCEPT !.mode = "chat"]
     \/ screen.goal /\ screen' = [screen EXCEPT !.goal = FALSE]
  /\ UNCHANGED <<left, session, turn, approvalVars, bridge, shellVars, late, on>>

TrustFails ==
  /\ on /\ screen.gate \in {"hooks", "none"} /\ Spend("surfaces")
  /\ screen' = [screen EXCEPT !.gate = "trust"]
  /\ UNCHANGED <<session, turn, approvalVars, bridge, shellVars, late, on>>

KeyboardState ==
  [question |-> bridge.shown # 0, trusted |-> screen.gate # "trust", approval |-> card # 0,
   demo |-> screen.mode = "ask", login |-> screen.login, rotating |-> screen.rotating,
   mode |-> screen.mode, usage |-> "usage" \in screen.panels, diff |-> "diff" \in screen.panels,
   help |-> "help" \in screen.panels, goal |-> screen.goal, streaming |-> Streaming,
   armed |-> screen.ladder.armed, text |-> screen.text, nth |-> screen.ladder.nth,
   total |-> screen.ladder.total, exitArmed |-> screen.exitArmed]

(* EXECUTORS, as far as they are of the screen.                            *)
ScreenAfter(s, action) ==
  CASE action \in {"close-progress", "close-demo"} -> [s EXCEPT !.mode = "chat"]
    [] action = "close-diff" -> [s EXCEPT !.panels = @ \ {"diff"}]
    [] action = "close-usage" -> [s EXCEPT !.panels = @ \ {"usage"}]
    [] action = "close-help" -> [s EXCEPT !.panels = @ \ {"help"}]
    [] action = "prime-backtrack" -> [s EXCEPT !.priming = TRUE]
    [] action = "reset-backtrack" -> [s EXCEPT !.ladder = ClosedLadder]
    [] action = "advance-backtrack" ->
         [s EXCEPT !.ladder.nth = StepBacktrack(s.ladder.nth, s.ladder.total)]
    [] action = "confirm-backtrack" -> [s EXCEPT !.rotating = s.ladder.nth # SENTINEL]
    [] action = "arm-exit" -> [s EXCEPT !.exitArmed = TRUE]
    [] action = "disarm-exit" -> [s EXCEPT !.exitArmed = FALSE]
    [] OTHER -> s

(* The composer takes a letter too.                                        *)
Typed(key, s) == IF key = "letter" /\ Drawn = "composer" THEN [s EXCEPT !.text = TRUE] ELSE s

(* makeInterruptTurn: not while an approval waits.  The turn is aborted,   *)
(* and its session forked if that can be.                                  *)
InterruptTurn ==
  IF card # 0 \/ ~Streaming THEN UNCHANGED <<session, turn>>
  ELSE turn' = NoTurn /\ session' \in {session} \union FreshSessions

(* pauseGoal stops the goal's loop and aborts whatever turn runs.          *)
PauseGoal == turn' = NoTurn /\ UNCHANGED session

(* ptyOwner.shutdown, as the terminal closes.                              *)
Shutdown == on' = FALSE /\ shells' = KillAll

Press(key) ==
  /\ on /\ left.keys > 0
  /\ LET actions == RouteKey(key, KeyboardState, Bindings(BindingsFile))
         does(action) == action \in Range(actions)
     IN /\ screen' = Typed(key, FoldLeft(ScreenAfter, screen, actions))
        /\ bridge' = IF does("abandon-question") THEN AbandonQuestion ELSE bridge
        /\ IF does("interrupt-turn") THEN InterruptTurn
           ELSE IF does("pause-goal") THEN PauseGoal ELSE UNCHANGED <<session, turn>>
        /\ IF does("quit") THEN Shutdown ELSE UNCHANGED <<on, shells>>
  /\ left' = [left EXCEPT !.keys = @ - 1, !.switches = IF session' = session THEN @ ELSE @ - 1]
  /\ UNCHANGED <<approvalVars, owner, late>>

(* /quit, and the answer No at the first gate.                             *)
Quit ==
  /\ Shows("composer") \/ Shows("trust")
  /\ Shutdown
  /\ UNCHANGED <<left, session, turn, approvalVars, bridge, screen, owner, late>>

-----------------------------------------------------------------------------
Next ==
  \/ Submit \/ OpenTurn \/ NextMessage \/ TurnEnds
  \/ \E mode \in Range(Modes) : BuildAgent(mode)
  \/ RequestApproval \/ Render \/ Decide \/ AutoApprove \/ HandleApprovalMode
  \/ \E i \in DOMAIN thread : \E k \in DOMAIN thread[i] : ApprovalCloses(i, k)
  \/ Ask \/ AnswerQuestion \/ CancelQuestion
  \/ \E s \in Sessions : QuestionLapses(s) \/ ResumeLands(s)
  \/ StartShell \/ HandleStopPtys
  \/ ResetConversation \/ Fork \/ ArchiveLands \/ RewindLands
  \/ \E command \in {"resume", "archive"} : HandleLate(command)
  \/ Close \/ TrustFails \/ Quit
  \/ \E total \in 0..2 : Primed(total)
  \/ \E surface \in {"diff", "usage", "help", "login", "goal", "ask", "progress"} : Open(surface)
  \/ \E key \in Keys : Press(key)

Spec == Init /\ [][Next]_vars

-----------------------------------------------------------------------------
(* The approvals a card will still be shown for.                           *)
ToBeShown == {e.id : e \in Unsettled(ledger)}
Parts == UNION {Range(thread[i]) : i \in DOMAIN thread}
Waiting == {part.id : part \in {part \in Parts : part.open}} \ sent

ApprovalsSeen == card \notin sent /\ (~dirty => Waiting \subseteq ToBeShown)

QuestionSeen ==
  /\ bridge.ids = bridge.pending
  /\ turn.phase = "streaming" /\ ~turn.moved /\ bridge.pending[turn.session] \in turn.asked
       => bridge.shown = bridge.pending[turn.session]

(* What the turn waits for the operator can see: an approval that is open  *)
(* and was not answered gets a card once the thread is drawn, whatever     *)
(* message it came in and however often the framework redraws it, and no   *)
(* card asks again for what was answered; the question of the turn is on   *)
(* the screen as long as the turn's session is, whatever other questions   *)
(* were refused, answered, abandoned or timed out.                         *)
WaitsAreSeen == ApprovalsSeen /\ QuestionSeen

(* While a card waits for an answer, no key ends the turn that waits for   *)
(* it, moves its session or takes the card away, through whichever layer,  *)
(* panel, goal, ladder or binding; and none leaves the terminal, but for   *)
(* the two Ctrl-C of a demo that the card covers.                          *)
KeysSpareTheAskedTurn ==
  [][(\E key \in Keys : Press(key)) /\ card # 0 =>
       /\ turn' = turn /\ session' = session /\ card' = card
       /\ on' \/ screen.mode = "ask"]_vars

(* Every shell the operator can still list and stop is confined at least   *)
(* as tightly as the sandbox of the last turn that was built, whatever     *)
(* turn started it and however often the mode was changed and the session  *)
(* switched since; and shells outlive their backend only if a turn that    *)
(* outlived it started them (createSessionPtyOwner).                       *)
ShellsConfined ==
  \A s \in shells :
    /\ s.backend = owner.current => Permissiveness(s.mode) <= Permissiveness(owner.mode)
    /\ s.backend # owner.current => s.late
=============================================================================
