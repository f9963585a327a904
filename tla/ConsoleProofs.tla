--------------------------- MODULE ConsoleProofs ---------------------------
(***************************************************************************)
(* Theorems of Console, for every choice of launches, bindings, keys and   *)
(* sandbox modes.                                                          *)
(***************************************************************************)
EXTENDS Console, FiniteSetTheorems, TLAPS

Surfaces == {"diff", "usage", "help", "login", "goal", "ask", "progress"}

-----------------------------------------------------------------------------
(* The keys.                                                               *)

(* No layer that comes before the gated one interrupts without giving the  *)
(* question up, pauses a goal, or leaves outside of a demo.                *)
LEMMA RoutePastApproval ==
  ASSUME NEW key, NEW s, NEW bindings, s.approval = TRUE
  PROVE  /\ "pause-goal" \notin Range(RouteKey(key, s, bindings))
         /\ "quit" \in Range(RouteKey(key, s, bindings)) => s.demo
<1>1. CASE s.question
  <2>1. Layer(s) = "open-question"  BY <1>1 DEF Layer
  <2>2. RouteKey(key, s, bindings) \in {<<"abandon-question", "interrupt-turn">>, <<>>}
    BY <2>1 DEF RouteKey
  <2> QED  BY <2>2 DEF Range
<1>2. CASE ~s.question /\ s.demo
  <2>1. Layer(s) = "demo"  BY <1>2 DEF Layer
  <2>2. RouteKey(key, s, bindings) \in {<<"close-demo">>, <<"quit">>, <<"arm-exit">>, <<>>}
    BY <2>1 DEF RouteKey, RouteInDemo
  <2> QED  BY <1>2, <2>2 DEF Range
<1>3. CASE ~s.question /\ ~s.demo
  <2>1. Layer(s) = "gated"  BY <1>3 DEF Layer
  <2>2. RouteKey(key, s, bindings) = <<>>  BY <2>1 DEF RouteKey
  <2> QED  BY <2>2 DEF Range
<1> QED  BY <1>1, <1>2, <1>3

(* While a card waits for an answer, no key touches the turn, its session  *)
(* or the card, and none leaves the terminal but from a demo: whatever the *)
(* operator's file binds.                                                  *)
THEOREM KeysSpare == Spec => KeysSpareTheAskedTurn
<1>1. ASSUME NEW key \in Keys, Press(key), card # 0
      PROVE  turn' = turn /\ session' = session /\ card' = card /\ (on' \/ screen.mode = "ask")
  <2> DEFINE actions == RouteKey(key, KeyboardState, Bindings(BindingsFile))
  <2>1. "pause-goal" \notin Range(actions) /\ ("quit" \in Range(actions) => screen.mode = "ask")
    <3>1. KeyboardState.approval = TRUE /\ KeyboardState.demo = (screen.mode = "ask")
      BY <1>1 DEF KeyboardState
    <3> QED  BY <3>1, RoutePastApproval
  <2>2. turn' = turn /\ session' = session
    BY <1>1, <2>1 DEF Press, InterruptTurn
  <2>3. on' \/ screen.mode = "ask"
    BY <1>1, <2>1 DEF Press
  <2>4. card' = card
    BY <1>1 DEF Press, approvalVars
  <2> QED  BY <2>2, <2>3, <2>4
<1>2. [Next]_vars => [(\E key \in Keys : Press(key)) /\ card # 0 =>
                        /\ turn' = turn /\ session' = session /\ card' = card
                        /\ on' \/ screen.mode = "ask"]_vars
  BY <1>1
<1> QED  BY <1>2, PTL DEF Spec, KeysSpareTheAskedTurn
-----------------------------------------------------------------------------
(* The types.                                                              *)

TurnType ==
  [phase : {"none", "starting", "built", "streaming"}, session : Sessions, backend : Nat,
   moved : BOOLEAN, asked : SUBSET Nat]
OwnerType == [mode : Range(Modes), current : Nat]
ShellType == [id : Nat, backend : Nat, mode : Range(Modes), late : BOOLEAN]
BridgeType == [pending : [Sessions -> Nat], ids : [Sessions -> Nat], shown : Nat]

Types ==
  /\ left \in Launch
  /\ session \in Sessions
  /\ turn \in TurnType
  /\ owner \in OwnerType
  /\ shells \subseteq ShellType
  /\ bridge \in BridgeType

Limits == {"turns", "messages", "approvals", "questions", "shells", "switches", "awaits",
           "edits", "surfaces", "keys"}

(* What is spent is counted down, and nothing else is.                     *)
LEMMA Spending ==
  ASSUME left \in Launch, NEW what \in Limits, Spend(what)
  PROVE  /\ left' \in Launch
         /\ what # "questions" => left'.questions = left.questions
         /\ left.questions > 0 /\ what = "questions" => left'.questions = left.questions - 1
<1>1. CASE what = "switches"
  BY <1>1, LaunchesAssumption DEF Spend, Launch
<1>2. CASE what # "switches"
  BY <1>2 DEF Spend, Launch, Limits
<1> QED  BY <1>1, <1>2

LEMMA FreshSessionTyped ==
  ASSUME left \in Launch, FreshSession
  PROVE  session' \in Sessions /\ left' \in Launch /\ left'.questions = left.questions
<1>1. left' \in Launch /\ left'.questions = left.questions
  BY Spending DEF FreshSession, Limits
<1>2. session' \in Sessions
  BY DEF FreshSession, Launch, Sessions
<1> QED  BY <1>1, <1>2

(* A key counts itself, and the session it forks, down.                    *)
LEMMA PressCounts ==
  ASSUME Types, NEW key, Press(key)
  PROVE  /\ left' \in Launch /\ left'.questions = left.questions
         /\ session' \in Sessions
         /\ (turn' = turn /\ session' = session) \/ turn' = NoTurn
<1>1. (session' = session \/ (session' = left.switches /\ left.switches # 0))
        /\ ((turn' = turn /\ session' = session) \/ turn' = NoTurn)
  BY DEF Press, InterruptTurn, PauseGoal, FreshSessions
<1>2. left' = [left EXCEPT !.keys = @ - 1,
                           !.switches = IF session' = session THEN @ ELSE @ - 1]
        /\ left.keys > 0
  BY DEF Press
<1>3. left.switches \in 0..LastSession /\ LastSession \in Nat /\ left.keys \in Nat
  BY LaunchesAssumption DEF Types, Launch
<1>4. session' \in Sessions
  BY <1>1, <1>3 DEF Types, Sessions
<1>5. left' \in Launch /\ left'.questions = left.questions
  <2>1. CASE session' = session
    <3>1. left' = [left EXCEPT !.keys = @ - 1]  BY <1>2, <2>1 DEF Types, Launch
    <3> QED  BY <3>1, <1>2, <1>3 DEF Types, Launch
  <2>2. CASE session' # session
    <3>1. left' = [left EXCEPT !.keys = @ - 1, !.switches = @ - 1]  BY <1>2, <2>2
    <3>2. left.switches - 1 \in 0..LastSession  BY <1>1, <1>3, <2>2
    <3> DEFINE counted == [left EXCEPT !.keys = @ - 1]
    <3>3. counted \in Launch /\ counted.questions = left.questions /\ counted.switches = left.switches
      BY <1>2, <1>3 DEF Types, Launch
    <3>4. left' = [counted EXCEPT !.switches = @ - 1]
      BY <3>1, <3>3 DEF Types, Launch
    <3> HIDE DEF counted
    <3> QED  BY <3>2, <3>3, <3>4 DEF Launch
  <2> QED  BY <2>1, <2>2
<1> QED  BY <1>1, <1>4, <1>5

LEMMA NoTurnTyped == NoTurn \in TurnType
BY LaunchesAssumption DEF NoTurn, TurnType, Sessions

LEMMA MovedTyped == ASSUME Types PROVE Moved(turn) \in TurnType
BY DEF Types, Moved, TurnType

LEMMA AbandonTyped ==
  ASSUME Types, NEW s \in Sessions
  PROVE  Abandon(bridge, s) \in BridgeType
BY DEF Types, Abandon, Notified, Forgotten, BridgeType

LEMMA SetModeTyped ==
  ASSUME Types, NEW mode \in Range(Modes), SetMode(mode)
  PROVE  owner' \in OwnerType /\ shells' \subseteq shells
BY DEF Types, SetMode, KillAll, OwnerType

LEMMA InitTypes == Init => Types
<1> SUFFICES ASSUME Init PROVE Types
  OBVIOUS
<1>1. left \in Launch
  BY LaunchesAssumption DEF Init
<1>2. owner \in OwnerType
  BY <1>1 DEF Init, OwnerType, Launch
<1>3. session \in Sessions /\ bridge \in BridgeType
  BY LaunchesAssumption DEF Init, Sessions, BridgeType
<1> QED  BY <1>1, <1>2, <1>3, NoTurnTyped DEF Init, Types

LEMMA NextTypes == Types /\ [Next]_vars => Types'
<1> SUFFICES ASSUME Types, [Next]_vars PROVE Types'
  OBVIOUS
<1> USE DEF approvalVars, shellVars
<1>1. CASE Submit
  <2>1. left' \in Launch  BY <1>1, Spending DEF Submit, Types, Limits
  <2> QED  BY <1>1, <2>1, NoTurnTyped DEF Submit, Types, TurnType
<1>2. ASSUME NEW mode \in Range(Modes), BuildAgent(mode) PROVE Types'
  <2>1. left' \in Launch
    <3>1. CASE mode = owner.mode  BY <1>2, <3>1 DEF BuildAgent, Types
    <3>2. CASE mode # owner.mode  BY <1>2, <3>2, Spending DEF BuildAgent, Types, Limits
    <3> QED  BY <3>1, <3>2
  <2>2. owner' \in OwnerType /\ shells' \subseteq shells
    BY <1>2, SetModeTyped DEF BuildAgent
  <2>3. turn' \in TurnType
    BY <1>2, <2>2 DEF BuildAgent, Types, TurnType, OwnerType
  <2> QED  BY <1>2, <2>1, <2>2, <2>3 DEF BuildAgent, Types
<1>3. CASE OpenTurn
  BY <1>3 DEF OpenTurn, Types, TurnType
<1>4. CASE NextMessage \/ RequestApproval
  <2>1. left' \in Launch
    BY <1>4, Spending DEF NextMessage, RequestApproval, Types, Limits
  <2> QED  BY <1>4, <2>1 DEF NextMessage, RequestApproval, Types
<1>5. CASE TurnEnds
  BY <1>5, NoTurnTyped DEF TurnEnds, Types
<1>6. CASE \/ Render \/ Decide \/ AutoApprove \/ HandleApprovalMode
           \/ \E i \in DOMAIN thread : \E k \in DOMAIN thread[i] : ApprovalCloses(i, k)
  BY <1>6 DEF Render, Decide, AutoApprove, HandleApprovalMode, ApprovalCloses, Types
<1>7. CASE Ask
  <2>1. left' \in Launch /\ left.questions \in Nat
    BY <1>7, Spending DEF Ask, Types, Limits, Launch
  <2>2. turn' \in TurnType
    BY <1>7, <2>1 DEF Ask, Types, TurnType
  <2>3. bridge' \in BridgeType
    BY <1>7, <2>1 DEF Ask, Asked, Notified, Types, TurnType, BridgeType
  <2> QED  BY <1>7, <2>1, <2>2, <2>3 DEF Ask, Types
<1>8. CASE AnswerQuestion
  <2>1. bridge' \in BridgeType
    BY <1>8 DEF AnswerQuestion, Forgotten, Types, BridgeType
  <2> QED  BY <1>8, <2>1 DEF AnswerQuestion, Types
<1>9. CASE CancelQuestion
  <2>1. bridge' \in BridgeType
    BY <1>9, AbandonTyped DEF CancelQuestion, AbandonQuestion, Types, BridgeType
  <2> QED  BY <1>9, <2>1 DEF CancelQuestion, Types
<1>10. ASSUME NEW s \in Sessions, QuestionLapses(s) PROVE Types'
  BY <1>10, AbandonTyped DEF QuestionLapses, Types
<1>11. ASSUME NEW s \in Sessions, ResumeLands(s) PROVE Types'
  <2>1. left' \in Launch  BY <1>11, Spending DEF ResumeLands, Types, Limits
  <2> QED  BY <1>11, <2>1, MovedTyped DEF ResumeLands, Types
<1>12. CASE StartShell
  <2>1. left' \in Launch /\ left.shells \in Nat
    BY <1>12, Spending DEF StartShell, Types, Limits, Launch
  <2> DEFINE shell == [id |-> left.shells, backend |-> turn.backend, mode |-> owner.mode,
                       late |-> turn.backend # owner.current]
  <2>2. shells' \subseteq ShellType
    <3>1. shell.late \in BOOLEAN
      OBVIOUS
    <3>2. shell \in ShellType
      BY <2>1, <3>1 DEF Types, TurnType, OwnerType, ShellType
    <3>3. shells' = shells \union {shell}
      BY <1>12 DEF StartShell
    <3> HIDE DEF shell
    <3> QED  BY <3>2, <3>3 DEF Types
  <2> QED  BY <1>12, <2>1, <2>2 DEF StartShell, Types
<1>13. CASE HandleStopPtys
  BY <1>13 DEF HandleStopPtys, KillAll, Types
<1>14. CASE ResetConversation
  <2>1. session' \in Sessions /\ left' \in Launch
    BY <1>14, FreshSessionTyped DEF ResetConversation, Types
  <2>2. owner' \in OwnerType /\ shells' \subseteq shells
    BY <1>14 DEF ResetConversation, Rotate, KillAll, Types, OwnerType
  <2> QED  BY <1>14, <2>1, <2>2, NoTurnTyped DEF ResetConversation, ResetAgent, Types
<1>15. CASE Fork
  <2>1. session' \in Sessions /\ left' \in Launch
    BY <1>15, FreshSessionTyped DEF Fork, Types
  <2> QED  BY <1>15, <2>1, MovedTyped DEF Fork, Types
<1>16. CASE ArchiveLands
  <2>1. session' \in Sessions /\ left' \in Launch
    BY <1>16, FreshSessionTyped DEF ArchiveLands, Types
  <2>2. owner' \in OwnerType /\ shells' \subseteq shells
    BY <1>16 DEF ArchiveLands, Rotate, KillAll, Types, OwnerType
  <2> QED  BY <1>16, <2>1, <2>2, MovedTyped DEF ArchiveLands, Types
<1>17. CASE RewindLands
  <2>1. CASE FreshSession /\ ResetAgent
    BY <1>17, <2>1, FreshSessionTyped, NoTurnTyped DEF RewindLands, ResetAgent, Types
  <2>2. CASE UNCHANGED <<left, session, turn, approvalVars>>
    BY <1>17, <2>2 DEF RewindLands, Types
  <2> QED  BY <1>17, <2>1, <2>2 DEF RewindLands
<1>18. CASE \E command \in {"resume", "archive"} : HandleLate(command)
  <2>1. left' \in Launch
    BY <1>18, Spending DEF HandleLate, Types, Limits
  <2> QED  BY <1>18, <2>1 DEF HandleLate, Types
<1>19. CASE Close \/ Quit \/ \E total \in 0..2 : Primed(total)
  BY <1>19 DEF Close, Quit, Shutdown, KillAll, Primed, Types
<1>20. CASE TrustFails \/ \E surface \in Surfaces : Open(surface)
  <2>1. left' \in Launch
    BY <1>20, Spending DEF TrustFails, Open, Types, Limits
  <2> QED  BY <1>20, <2>1 DEF TrustFails, Open, Types
<1>21. ASSUME NEW key \in Keys, Press(key) PROVE Types'
  <2>1. left' \in Launch /\ session' \in Sessions /\ turn' \in TurnType
    BY <1>21, PressCounts, NoTurnTyped DEF Types
  <2>2. bridge' \in BridgeType
    BY <1>21, AbandonTyped DEF Press, AbandonQuestion, Types, BridgeType
  <2>3. shells' \subseteq shells /\ owner' = owner
    BY <1>21 DEF Press, Shutdown, KillAll
  <2> QED  BY <2>1, <2>2, <2>3 DEF Types
<1>22. CASE UNCHANGED vars
  BY <1>22 DEF vars, Types
<1> QED
  BY <1>1, <1>2, <1>3, <1>4, <1>5, <1>6, <1>7, <1>8, <1>9, <1>10, <1>11, <1>12, <1>13, <1>14,
     <1>15, <1>16, <1>17, <1>18, <1>19, <1>20, <1>21, <1>22 DEF Next, Surfaces

LEMMA TypesHold == Spec => []Types
BY InitTypes, NextTypes, PTL DEF Spec

-----------------------------------------------------------------------------
(* The shells.                                                             *)

LEMMA PermissivenessType ==
  ASSUME NEW mode \in Range(Modes)
  PROVE  Permissiveness(mode) \in Nat
<1>1. \E i \in DOMAIN Modes : Modes[i] = mode
  BY DEF Range
<1>2. Permissiveness(mode) \in DOMAIN Modes
  BY <1>1 DEF Permissiveness
<1> QED  BY <1>2, ModesAssumption

(* No backend has a number the owner has not reached yet: a new backend is *)
(* of none of the shells that run.                                         *)
ShellsInv ==
  /\ turn.backend <= owner.current
  /\ \A s \in shells : s.backend <= owner.current
  /\ ShellsConfined

(* A new backend leaves nothing that can be stopped.                       *)
LEMMA RotateKeeps ==
  ASSUME Types, Types', ShellsInv, Rotate, turn'.backend <= owner.current
  PROVE  ShellsInv'
<1>1. owner.current \in Nat /\ owner'.current = owner.current + 1
  BY DEF Types, OwnerType, Rotate
<1>2. turn'.backend <= owner'.current
  BY <1>1 DEF Types, TurnType
<1> QED  BY <1>1, <1>2 DEF Rotate, KillAll, Types, ShellsInv, ShellsConfined, ShellType

(* Neither does the end of the terminal.                                   *)
LEMMA KillKeeps ==
  ASSUME Types, ShellsInv, shells' = KillAll, owner' = owner, turn'.backend <= owner.current
  PROVE  ShellsInv'
BY DEF Types, ShellsInv, ShellsConfined, KillAll, ShellType, OwnerType

LEMMA SetModeKeeps ==
  ASSUME Types, ShellsInv, NEW mode \in Range(Modes), SetMode(mode),
         turn'.backend = owner'.current
  PROVE  ShellsInv'
<1>0. owner.current \in Nat /\ owner.mode \in Range(Modes)
  BY DEF Types, OwnerType
<1>1. CASE Permissiveness(mode) < Permissiveness(owner.mode)
  BY <1>0, <1>1 DEF SetMode, KillAll, Types, ShellsInv, ShellsConfined, ShellType, OwnerType
<1>2. CASE ~(Permissiveness(mode) < Permissiveness(owner.mode))
  <2>1. shells' = shells /\ owner'.mode = mode /\ owner'.current = owner.current
    BY <1>2 DEF SetMode, Types, OwnerType
  <2>2. Permissiveness(owner.mode) <= Permissiveness(mode)
    BY <1>0, <1>2, PermissivenessType
  <2>3. ASSUME NEW s \in shells, s.backend = owner.current
        PROVE  Permissiveness(s.mode) <= Permissiveness(mode)
    <3>1. s.mode \in Range(Modes)  BY DEF Types, ShellType
    <3>2. Permissiveness(s.mode) <= Permissiveness(owner.mode)
      BY <2>3 DEF ShellsInv, ShellsConfined
    <3> QED  BY <1>0, <2>2, <3>1, <3>2, PermissivenessType
  <2> QED  BY <1>0, <2>1, <2>3 DEF ShellsInv, ShellsConfined, Types, ShellType
<1> QED  BY <1>1, <1>2

LEMMA UntouchedShells ==
  ASSUME Types, ShellsInv, UNCHANGED <<shells, owner>>, turn'.backend <= owner.current
  PROVE  ShellsInv'
BY DEF ShellsInv, ShellsConfined

LEMMA NextShells == Types /\ ShellsInv /\ [Next]_vars => ShellsInv'
<1> SUFFICES ASSUME Types, ShellsInv, [Next]_vars PROVE ShellsInv'
  OBVIOUS
<1> USE DEF approvalVars, shellVars
<1>a. turn.backend <= owner.current /\ owner.current \in Nat /\ NoTurn.backend = 0
  BY DEF ShellsInv, Types, OwnerType, NoTurn
<1>b. Moved(turn).backend = turn.backend
  BY DEF Moved, Types, TurnType
<1>1. CASE \/ Submit \/ OpenTurn \/ NextMessage \/ TurnEnds \/ RequestApproval \/ Ask
  <2>1. turn'.backend \in {0, turn.backend}
    BY <1>1, <1>a DEF Submit, OpenTurn, NextMessage, TurnEnds, RequestApproval, Ask, Types,
                      TurnType, NoTurn
  <2>2. UNCHANGED <<shells, owner>>
    BY <1>1 DEF Submit, OpenTurn, NextMessage, TurnEnds, RequestApproval, Ask
  <2> QED  BY <1>a, <2>1, <2>2, UntouchedShells
<1>2. ASSUME NEW mode \in Range(Modes), BuildAgent(mode) PROVE ShellsInv'
  <2>1. turn'.backend = owner'.current
    BY <1>2 DEF BuildAgent, Types, TurnType
  <2> QED  BY <1>2, <2>1, SetModeKeeps DEF BuildAgent
<1>3. CASE \/ Render \/ Decide \/ AutoApprove \/ HandleApprovalMode
           \/ \E i \in DOMAIN thread : \E k \in DOMAIN thread[i] : ApprovalCloses(i, k)
  BY <1>3, <1>a, UntouchedShells
  DEF Render, Decide, AutoApprove, HandleApprovalMode, ApprovalCloses
<1>4. CASE \/ AnswerQuestion \/ CancelQuestion \/ \E s \in Sessions : QuestionLapses(s)
  BY <1>4, <1>a, UntouchedShells DEF AnswerQuestion, CancelQuestion, QuestionLapses
<1>5. CASE Fork \/ \E s \in Sessions : ResumeLands(s)
  BY <1>5, <1>a, <1>b, UntouchedShells DEF Fork, ResumeLands
<1>6. CASE StartShell
  <2>1. UNCHANGED <<owner, turn>>
    BY <1>6 DEF StartShell
  <2>2. shells' = shells \union
          {[id |-> left.shells, backend |-> turn.backend, mode |-> owner.mode,
            late |-> turn.backend # owner.current]}
    BY <1>6 DEF StartShell
  <2>3. Permissiveness(owner.mode) \in Nat
    BY PermissivenessType DEF Types, OwnerType
  <2>4. ASSUME NEW s \in shells'
        PROVE  /\ s.backend <= owner.current
               /\ s.backend = owner.current => Permissiveness(s.mode) <= Permissiveness(owner.mode)
               /\ s.backend # owner.current => s.late
    <3>1. CASE s \in shells
      BY <3>1 DEF ShellsInv, ShellsConfined
    <3>2. CASE s \notin shells
      <4>1. s.backend = turn.backend /\ s.mode = owner.mode /\ s.late = (turn.backend # owner.current)
        BY <2>2, <3>2
      <4>2. s.backend # owner.current => s.late
        BY <4>1, Zenon
      <4>3. /\ s.backend <= owner.current
            /\ Permissiveness(s.mode) <= Permissiveness(owner.mode)
        BY <1>a, <2>3, <4>1
      <4> QED  BY <4>2, <4>3
    <3> QED  BY <3>1, <3>2
  <2> QED  BY <1>a, <2>1, <2>4 DEF ShellsInv, ShellsConfined
<1>7. CASE HandleStopPtys
  BY <1>7, <1>a, KillKeeps DEF HandleStopPtys
<1>8. CASE ResetConversation
  BY <1>8, <1>a, NextTypes, RotateKeeps DEF ResetConversation, ResetAgent
<1>9. CASE ArchiveLands
  BY <1>9, <1>a, <1>b, NextTypes, RotateKeeps DEF ArchiveLands
<1>10. CASE RewindLands
  BY <1>10, <1>a, UntouchedShells DEF RewindLands, ResetAgent
<1>11. CASE \/ Close \/ TrustFails
            \/ \E command \in {"resume", "archive"} : HandleLate(command)
            \/ \E total \in 0..2 : Primed(total)
            \/ \E surface \in Surfaces : Open(surface)
  BY <1>11, <1>a, UntouchedShells DEF Close, TrustFails, HandleLate, Primed, Open
<1>12. CASE Quit
  BY <1>12, <1>a, KillKeeps DEF Quit, Shutdown
<1>13. ASSUME NEW key \in Keys, Press(key) PROVE ShellsInv'
  <2>1. turn'.backend <= owner.current /\ owner' = owner
    <3>1. owner' = owner  BY <1>13 DEF Press
    <3>2. turn' = turn \/ turn' = NoTurn  BY <1>13, PressCounts
    <3> QED  BY <1>a, <3>1, <3>2
  <2>2. UNCHANGED shells \/ shells' = KillAll
    BY <1>13 DEF Press, Shutdown
  <2> QED  BY <2>1, <2>2, KillKeeps, UntouchedShells
<1>14. CASE UNCHANGED vars
  BY <1>14, <1>a, UntouchedShells DEF vars
<1> QED
  BY <1>1, <1>2, <1>3, <1>4, <1>5, <1>6, <1>7, <1>8, <1>9, <1>10, <1>11, <1>12, <1>13, <1>14
  DEF Next, Surfaces

(* Whatever turns, switches and tighter modes come, and in whatever order, *)
(* a shell that can be listed and stopped is confined as the last turn     *)
(* that was built, and one that cannot was started by a turn that outlived *)
(* its backend.                                                            *)
THEOREM ShellsKept == Spec => []ShellsConfined
<1>1. Init => ShellsInv
  BY DEF Init, ShellsInv, ShellsConfined, NoTurn
<1> QED  BY <1>1, NextShells, TypesHold, PTL DEF Spec, ShellsInv

-----------------------------------------------------------------------------
(* The question.                                                           *)

(* Questions are numbered downwards, so that none of those asked has the   *)
(* number of the next; and a turn that was not switched away from is of    *)
(* the session on the screen.                                              *)
QuestionInv ==
  /\ \A s \in Sessions : bridge.pending[s] = 0 \/ bridge.pending[s] > left.questions
  /\ \A q \in turn.asked : q > left.questions
  /\ turn.phase # "streaming" => turn.asked = {} /\ ~turn.moved
  /\ turn.phase = "streaming" /\ ~turn.moved => turn.session = session
  /\ QuestionSeen

(* A step that leaves the bridge alone and goes on in the same session, or *)
(* notes that it moved, or has no turn afterwards.                         *)
LEMMA UntouchedQuestion ==
  ASSUME Types, QuestionInv, bridge' = bridge, left'.questions = left.questions,
         \/ turn' = NoTurn
         \/ turn' = Moved(turn)
         \/ turn' = turn /\ session' = session
  PROVE  QuestionInv'
<1>1. CASE turn' = NoTurn
  BY <1>1 DEF QuestionInv, QuestionSeen, NoTurn
<1>2. CASE turn' = turn /\ session' = session
  BY <1>2 DEF QuestionInv, QuestionSeen
<1>3. CASE turn' = Moved(turn)
  <2>1. CASE turn.phase = "streaming"
    BY <1>3, <2>1 DEF QuestionInv, QuestionSeen, Moved, Types, TurnType
  <2>2. CASE turn.phase # "streaming"
    BY <1>3, <2>2 DEF QuestionInv, QuestionSeen, Moved, Types, TurnType
  <2> QED  BY <2>1, <2>2
<1> QED  BY <1>1, <1>2, <1>3

LEMMA AbandonmentForgets ==
  ASSUME Types, bridge.ids = bridge.pending
  PROVE  /\ AbandonQuestion.ids = AbandonQuestion.pending
         /\ AbandonQuestion.pending = [bridge.pending EXCEPT ![session] = 0]
<1>1. CASE bridge.pending[session] = 0
  <2>1. AbandonQuestion = [bridge EXCEPT !.shown = 0]
    BY <1>1 DEF AbandonQuestion, Abandon
  <2>2. [bridge.pending EXCEPT ![session] = 0] = bridge.pending
    BY <1>1 DEF Types, BridgeType
  <2> QED  BY <2>1, <2>2 DEF Types, BridgeType
<1>2. CASE bridge.pending[session] # 0
  BY <1>2 DEF AbandonQuestion, Abandon, Notified, Forgotten, Types, BridgeType
<1> QED  BY <1>1, <1>2

(* The question of the session on the screen is given up.                  *)
LEMMA GivenUp ==
  ASSUME Types, QuestionInv, left'.questions = left.questions, turn' = turn, session' = session,
         \/ bridge' = AbandonQuestion
         \/ bridge' = [Forgotten(bridge, session) EXCEPT !.shown = 0]
  PROVE  QuestionInv'
<1>1. /\ bridge'.ids = bridge'.pending
      /\ bridge'.pending = [bridge.pending EXCEPT ![session] = 0]
  BY AbandonmentForgets DEF Forgotten, Types, BridgeType, QuestionInv, QuestionSeen
<1>2. \A s \in Sessions : bridge'.pending[s] = 0 \/ bridge'.pending[s] > left.questions
  BY <1>1 DEF Types, BridgeType, QuestionInv
<1>3. turn.phase = "streaming" /\ ~turn.moved => bridge'.pending[turn.session] \notin turn.asked
  BY <1>1 DEF Types, BridgeType, Launch, QuestionInv
<1> QED  BY <1>1, <1>2, <1>3 DEF QuestionInv, QuestionSeen

LEMMA NextQuestion == Types /\ QuestionInv /\ [Next]_vars => QuestionInv'
<1> SUFFICES ASSUME Types, QuestionInv, [Next]_vars PROVE QuestionInv'
  OBVIOUS
<1> USE DEF approvalVars, shellVars
<1>1. CASE \/ Submit \/ TurnEnds \/ NextMessage \/ RequestApproval
  <2>1. left'.questions = left.questions
    BY <1>1, Spending DEF Submit, TurnEnds, NextMessage, RequestApproval, Types, Limits
  <2>2. CASE NextMessage \/ RequestApproval \/ TurnEnds
    BY <2>1, <2>2, UntouchedQuestion DEF NextMessage, RequestApproval, TurnEnds
  <2>3. CASE Submit
    BY <2>1, <2>3 DEF Submit, NoTurn, QuestionInv, QuestionSeen
  <2> QED  BY <1>1, <2>2, <2>3
<1>2. ASSUME NEW mode \in Range(Modes), BuildAgent(mode) PROVE QuestionInv'
  <2>1. left'.questions = left.questions
    <3>1. CASE mode = owner.mode  BY <1>2, <3>1 DEF BuildAgent
    <3>2. CASE mode # owner.mode  BY <1>2, <3>2, Spending DEF BuildAgent, Types, Limits
    <3> QED  BY <3>1, <3>2
  <2> QED  BY <1>2, <2>1 DEF BuildAgent, QuestionInv, QuestionSeen, Types, TurnType
<1>3. CASE OpenTurn
  BY <1>3 DEF OpenTurn, QuestionInv, QuestionSeen, Types, TurnType, BridgeType
<1>4. CASE \/ Render \/ Decide \/ AutoApprove \/ HandleApprovalMode
           \/ \E i \in DOMAIN thread : \E k \in DOMAIN thread[i] : ApprovalCloses(i, k)
  BY <1>4, UntouchedQuestion
  DEF Render, Decide, AutoApprove, HandleApprovalMode, ApprovalCloses
<1>5. CASE Ask
  <2>1. left.questions \in Nat /\ left.questions > 0 /\ left'.questions = left.questions - 1
    BY <1>5, Spending DEF Ask, Spend, Types, Limits, Launch
  <2>2. /\ turn' = [turn EXCEPT !.asked = @ \union {left.questions}]
        /\ turn.phase = "streaming" /\ session' = session /\ turn.session \in Sessions
    BY <1>5 DEF Ask, Types, TurnType
  <2>3. CASE bridge.pending[turn.session] # 0
    <3>1. bridge' = bridge  BY <1>5, <2>3 DEF Ask, Asked
    <3> QED  BY <2>1, <2>2, <2>3, <3>1 DEF QuestionInv, QuestionSeen, Types, TurnType, BridgeType
  <2>4. CASE bridge.pending[turn.session] = 0
    <3>1. /\ bridge'.pending = [bridge.pending EXCEPT ![turn.session] = left.questions]
          /\ bridge'.ids = bridge'.pending
          /\ bridge'.shown = bridge'.pending[session]
      BY <1>5, <2>2, <2>4 DEF Ask, Asked, Notified, QuestionInv, QuestionSeen, Types, BridgeType
    <3> QED  BY <2>1, <2>2, <3>1 DEF QuestionInv, QuestionSeen, Types, TurnType, BridgeType
  <2> QED  BY <2>3, <2>4
<1>6. CASE AnswerQuestion
  BY <1>6, GivenUp DEF AnswerQuestion
<1>7. CASE CancelQuestion
  BY <1>7, GivenUp DEF CancelQuestion
<1>8. ASSUME NEW s \in Sessions, QuestionLapses(s) PROVE QuestionInv'
  <2>1. /\ bridge'.pending = [bridge.pending EXCEPT ![s] = 0]
        /\ bridge'.ids = bridge'.pending
        /\ bridge'.shown = bridge'.pending[session]
    BY <1>8 DEF QuestionLapses, Abandon, Notified, Forgotten, QuestionInv, QuestionSeen, Types,
                BridgeType
  <2>2. UNCHANGED <<left, session, turn>>
    BY <1>8 DEF QuestionLapses
  <2> QED  BY <2>1, <2>2 DEF QuestionInv, QuestionSeen, Types, BridgeType, TurnType
<1>9. CASE Fork \/ ArchiveLands \/ \E s \in Sessions : ResumeLands(s)
  <2>1. left'.questions = left.questions
    BY <1>9, Spending, FreshSessionTyped DEF Fork, ArchiveLands, ResumeLands, Types, Limits
  <2> QED  BY <1>9, <2>1, UntouchedQuestion DEF Fork, ArchiveLands, ResumeLands
<1>10. CASE ResetConversation
  <2>1. left'.questions = left.questions
    BY <1>10, FreshSessionTyped DEF ResetConversation, Types
  <2> QED  BY <1>10, <2>1, UntouchedQuestion DEF ResetConversation, ResetAgent
<1>11. CASE RewindLands
  <2>1. left'.questions = left.questions
    BY <1>11, FreshSessionTyped DEF RewindLands, Types
  <2> QED  BY <1>11, <2>1, UntouchedQuestion DEF RewindLands, ResetAgent
<1>12. CASE \/ StartShell \/ TrustFails \/ \E surface \in Surfaces : Open(surface)
            \/ \E command \in {"resume", "archive"} : HandleLate(command)
  <2>1. left'.questions = left.questions
    BY <1>12, Spending DEF StartShell, TrustFails, Open, HandleLate, Types, Limits
  <2> QED  BY <1>12, <2>1, UntouchedQuestion DEF StartShell, TrustFails, Open, HandleLate
<1>13. CASE HandleStopPtys \/ Close \/ Quit \/ \E total \in 0..2 : Primed(total)
  BY <1>13, UntouchedQuestion DEF HandleStopPtys, Close, Quit, Primed
<1>14. ASSUME NEW key \in Keys, Press(key) PROVE QuestionInv'
  <2>1. bridge' = bridge \/ bridge' = AbandonQuestion
    BY <1>14 DEF Press
  <2>2. left'.questions = left.questions
    BY <1>14, PressCounts
  <2>3. CASE turn' = turn /\ session' = session
    BY <2>1, <2>2, <2>3, UntouchedQuestion, GivenUp
  <2>4. CASE turn' = NoTurn
    <3>1. CASE bridge' = bridge  BY <2>2, <2>4, <3>1, UntouchedQuestion
    <3>2. CASE bridge' = AbandonQuestion
      <4>1. /\ bridge'.ids = bridge'.pending
            /\ bridge'.pending = [bridge.pending EXCEPT ![session] = 0]
        BY <3>2, AbandonmentForgets DEF QuestionInv, QuestionSeen
      <4> QED  BY <2>2, <2>4, <4>1 DEF QuestionInv, QuestionSeen, NoTurn, Types, BridgeType
    <3> QED  BY <2>1, <3>1, <3>2
  <2> QED  BY <1>14, <2>3, <2>4, PressCounts
<1>15. CASE UNCHANGED vars
  BY <1>15, UntouchedQuestion DEF vars
<1> QED
  BY <1>1, <1>2, <1>3, <1>4, <1>5, <1>6, <1>7, <1>8, <1>9, <1>10, <1>11, <1>12, <1>13, <1>14,
     <1>15 DEF Next, Surfaces

(* The question a turn waits with is on the screen as long as the turn's   *)
(* session is, for any number of sessions, switches and questions: the     *)
(* second part of WaitsAreSeen.                                            *)
THEOREM QuestionsSeen == Spec => []QuestionSeen
<1>1. Init => QuestionInv
  BY DEF Init, QuestionInv, QuestionSeen, NoTurn
<1> QED  BY <1>1, NextQuestion, TypesHold, PTL DEF Spec, QuestionInv

-----------------------------------------------------------------------------
(* The approvals.                                                          *)

PartType == [id : Nat, open : BOOLEAN]
EntryType == [id : Nat, index : Nat, part : Nat, settled : BOOLEAN]
LedgerType == [inFlight : SUBSET EntryType, swept : Nat]

(* What the ledger keeps is of messages that still ask for it, and is      *)
(* settled exactly if it was answered.                                     *)
Placed(inFlight, messages) ==
  \A e \in inFlight : \A i \in DOMAIN messages : \A k \in DOMAIN messages[i] :
    messages[i][k].id = e.id => i = e.index

SettledIsSent(inFlight, answered) == \A e \in inFlight : e.settled <=> e.id \in answered

(* Of the messages that are final every approval that waits is known; of   *)
(* those that will be looked at again every approval that was answered.    *)
FinalIsKnown(reg, messages, answered) ==
  \A i \in DOMAIN messages : \A k \in DOMAIN messages[i] :
    i <= reg.swept /\ messages[i][k].open /\ messages[i][k].id \notin answered
      => messages[i][k].id \in Known(reg.inFlight)

AnsweredIsKnown(reg, messages, answered) ==
  \A i \in DOMAIN messages : \A k \in DOMAIN messages[i] :
    i > reg.swept /\ messages[i][k].open /\ messages[i][k].id \in answered
      => messages[i][k].id \in Known(reg.inFlight)

AllAreKnown(reg, messages, answered) ==
  \A i \in DOMAIN messages : \A k \in DOMAIN messages[i] :
    messages[i][k].open /\ messages[i][k].id \notin answered
      => messages[i][k].id \in Known(reg.inFlight)

LedgerInv(reg, messages, answered) ==
  /\ Placed(reg.inFlight, messages)
  /\ SettledIsSent(reg.inFlight, answered)
  /\ FinalIsKnown(reg, messages, answered)
  /\ AnsweredIsKnown(reg, messages, answered)
  /\ reg.swept = 0 \/ reg.swept < Len(messages)

(* Approvals are numbered downwards, so that no other has the number of    *)
(* the next.                                                               *)
Numbered(messages, reg, answered, next) ==
  /\ \A i \in DOMAIN messages : \A k \in DOMAIN messages[i] : messages[i][k].id > next
  /\ \A e \in reg.inFlight : e.id > next
  /\ \A id \in answered : id > next

(* An approval is asked for in one message.                                *)
OfOneMessage(messages) ==
  \A i, j \in DOMAIN messages : \A k \in DOMAIN messages[i] : \A l \in DOMAIN messages[j] :
    messages[i][k].id = messages[j][l].id => i = j

CardIsUnsettled == card = 0 \/ card \in ToBeShown

ApprovalTypes == thread \in Seq(Seq(PartType)) /\ sent \subseteq Nat /\ ledger \in LedgerType

ApprovalInv ==
  /\ ApprovalTypes
  /\ LedgerInv(ledger, thread, sent)
  /\ Numbered(thread, ledger, sent, left.approvals)
  /\ OfOneMessage(thread)
  /\ ~dirty => AllAreKnown(ledger, thread, sent)
  /\ CardIsUnsettled
  /\ effect => card # 0

LEMMA RequestIsOpen ==
  ASSUME NEW messages \in Seq(Seq(PartType)), NEW first \in Nat, first > 0,
         NEW e \in Requested(messages, first)
  PROVE  /\ e \in EntryType /\ ~e.settled
         /\ e.index \in DOMAIN messages /\ e.index >= first
         /\ \E k \in DOMAIN messages[e.index] :
              messages[e.index][k].open /\ messages[e.index][k].id = e.id
<1>1. PICK i \in first..Len(messages) :
        \E k \in {open \in DOMAIN messages[i] : messages[i][open].open} :
          e = [id |-> messages[i][k].id, index |-> i, part |-> k, settled |-> FALSE]
  BY DEF Requested
<1>2. PICK k \in DOMAIN messages[i] :
        /\ messages[i][k].open
        /\ e = [id |-> messages[i][k].id, index |-> i, part |-> k, settled |-> FALSE]
  BY <1>1
<1>3. i \in DOMAIN messages /\ messages[i] \in Seq(PartType) /\ i \in Nat
  OBVIOUS
<1>4. messages[i][k] \in PartType /\ k \in Nat
  BY <1>3
<1>5. e.id = messages[i][k].id /\ e.index = i /\ e.settled = FALSE
  BY <1>2
<1>6. e \in EntryType
  BY <1>2, <1>3, <1>4 DEF PartType, EntryType
<1>7. i >= first
  BY <1>1
<1> QED  BY <1>2, <1>3, <1>5, <1>6, <1>7

LEMMA OpenIsRequested ==
  ASSUME NEW messages \in Seq(Seq(PartType)), NEW first \in Nat, NEW inFlight,
         NEW i \in DOMAIN messages, i >= first, NEW k \in DOMAIN messages[i],
         messages[i][k].open
  PROVE  messages[i][k].id \in Known(Absorbed(inFlight, messages, first))
<1> DEFINE e == [id |-> messages[i][k].id, index |-> i, part |-> k, settled |-> FALSE]
<1>1. e \in Requested(messages, first)
  <2>1. i \in first..Len(messages)
    OBVIOUS
  <2>2. e \in {[id |-> messages[i][l].id, index |-> i, part |-> l, settled |-> FALSE] :
                 l \in {open \in DOMAIN messages[i] : messages[i][open].open}}
    OBVIOUS
  <2> HIDE DEF e
  <2> QED  BY <2>1, <2>2, Zenon DEF Requested
<1>2. e.id = messages[i][k].id
  OBVIOUS
<1> HIDE DEF e
<1> QED  BY <1>1, <1>2 DEF Absorbed, Known

(* Whatever the framework made of the messages that are not final, the     *)
(* ledger knows them all after it took them in.                            *)
LEMMA IngestKeeps ==
  ASSUME NEW reg \in LedgerType, NEW messages \in Seq(Seq(PartType)), NEW answered,
         Placed(reg.inFlight, messages), SettledIsSent(reg.inFlight, answered),
         FinalIsKnown(reg, messages, answered), AnsweredIsKnown(reg, messages, answered),
         OfOneMessage(messages), Len(messages) = 0 \/ reg.swept < Len(messages)
  PROVE  /\ Ingest(reg, messages) \in LedgerType
         /\ LedgerInv(Ingest(reg, messages), messages, answered)
         /\ AllAreKnown(Ingest(reg, messages), messages, answered)
         /\ \A e \in Ingest(reg, messages).inFlight :
              \/ e \in reg.inFlight
              \/ \E i \in DOMAIN messages : \E k \in DOMAIN messages[i] : messages[i][k].id = e.id
<1> DEFINE length == Len(messages)
           pruned == Prune(reg, length)
           first == pruned.swept + 1
           absorbed == Absorbed(pruned.inFlight, messages, first)
           new == Ingest(reg, messages)
<1>1. /\ length \in Nat /\ DOMAIN messages = 1..length
      /\ reg.swept \in Nat /\ reg.inFlight \subseteq EntryType
  BY DEF LedgerType
<1>2. /\ pruned.inFlight = {e \in reg.inFlight : e.index <= length}
      /\ pruned.swept \in Nat /\ pruned.swept <= reg.swept
      /\ length > 0 => pruned.swept = reg.swept /\ reg.swept < length
      /\ length = 0 => pruned.swept = 0
  BY <1>1 DEF Prune
<1>3. new = [inFlight |-> {e \in absorbed : ~(e.settled /\ e.index < length)},
             swept |-> IF pruned.swept < length THEN length - 1 ELSE pruned.swept]
  BY DEF Ingest, PruneDeadMarkers
<1>4. absorbed = pruned.inFlight \union
                   {e \in Requested(messages, first) : e.id \notin Known(pruned.inFlight)}
  BY DEF Absorbed
<1>5. first \in Nat /\ first > 0 /\ first = pruned.swept + 1
  BY <1>2
<1>6. new.inFlight = {e \in absorbed : ~(e.settled /\ e.index < length)}
  BY <1>3
<1>7. new.swept = IF pruned.swept < length THEN length - 1 ELSE pruned.swept
  BY <1>3
<1>8. new = [inFlight |-> new.inFlight, swept |-> new.swept]
  BY <1>3
<1> HIDE DEF new, absorbed, first, pruned, length
<1>9. ASSUME NEW i \in DOMAIN messages, NEW k \in DOMAIN messages[i], i >= first, messages[i][k].open
      PROVE  messages[i][k].id \in Known(absorbed)
  BY <1>5, <1>9, OpenIsRequested DEF absorbed
<1>10. ASSUME NEW i \in DOMAIN messages, NEW k \in DOMAIN messages[i],
              messages[i][k].id \in Known(reg.inFlight)
       PROVE  messages[i][k].id \in Known(pruned.inFlight)
  <2>1. PICK e \in reg.inFlight : e.id = messages[i][k].id
    BY <1>10 DEF Known
  <2>2. e.index = i
    BY <2>1 DEF Placed
  <2>3. e \in pruned.inFlight
    BY <1>1, <1>2, <2>2
  <2> QED  BY <2>1, <2>3 DEF Known
<1>11. Known(pruned.inFlight) \subseteq Known(absorbed)
  BY <1>4 DEF Known
<1>12. ASSUME NEW e \in absorbed
       PROVE  /\ e \in EntryType
              /\ \/ e \in reg.inFlight
                 \/ /\ ~e.settled /\ e.id \notin Known(pruned.inFlight)
                    /\ e.index \in DOMAIN messages /\ e.index >= first
                    /\ \E k \in DOMAIN messages[e.index] :
                         messages[e.index][k].open /\ messages[e.index][k].id = e.id
  <2>1. CASE e \in pruned.inFlight
    BY <1>1, <1>2, <2>1
  <2>2. CASE e \in Requested(messages, first) /\ e.id \notin Known(pruned.inFlight)
    BY <1>5, <2>2, RequestIsOpen
  <2> QED  BY <1>4, <1>12, <2>1, <2>2
<1>13. Placed(absorbed, messages)
  <2> SUFFICES ASSUME NEW e \in absorbed, NEW i \in DOMAIN messages, NEW k \in DOMAIN messages[i],
                      messages[i][k].id = e.id
               PROVE  i = e.index
    BY DEF Placed
  <2>1. CASE e \in reg.inFlight  BY <2>1 DEF Placed
  <2>2. CASE e \notin reg.inFlight
    <3>1. e.index \in DOMAIN messages /\
            \E l \in DOMAIN messages[e.index] : messages[e.index][l].id = e.id
      BY <1>12, <2>2
    <3> QED  BY <3>1 DEF OfOneMessage
  <2> QED  BY <2>1, <2>2
<1>14. SettledIsSent(absorbed, answered)
  <2> SUFFICES ASSUME NEW e \in absorbed PROVE e.settled <=> e.id \in answered
    BY DEF SettledIsSent
  <2>1. CASE e \in reg.inFlight  BY <2>1 DEF SettledIsSent
  <2>2. CASE e \notin reg.inFlight
    <3>1. /\ e \in EntryType /\ ~e.settled /\ e.id \notin Known(pruned.inFlight)
          /\ e.index \in DOMAIN messages /\ e.index >= first
      BY <1>12, <2>2
    <3>2. PICK k \in DOMAIN messages[e.index] :
            messages[e.index][k].open /\ messages[e.index][k].id = e.id
      BY <1>12, <2>2
    <3>3. e.index > reg.swept
      BY <1>1, <1>2, <1>5, <3>1
    <3>4. e.id \notin answered
      <4> SUFFICES ASSUME e.id \in answered PROVE FALSE
        OBVIOUS
      <4>1. messages[e.index][k].id \in Known(reg.inFlight)
        BY <3>1, <3>2, <3>3 DEF AnsweredIsKnown
      <4> QED  BY <1>10, <3>1, <3>2, <4>1
    <3> QED  BY <3>1, <3>4
  <2> QED  BY <2>1, <2>2
<1>15. AllAreKnown(new, messages, answered)
  <2> SUFFICES ASSUME NEW i \in DOMAIN messages, NEW k \in DOMAIN messages[i],
                      messages[i][k].open, messages[i][k].id \notin answered
               PROVE  messages[i][k].id \in Known(new.inFlight)
    BY DEF AllAreKnown
  <2>1. messages[i][k].id \in Known(absorbed)
    <3>1. CASE i >= first  BY <1>9, <3>1
    <3>2. CASE i < first
      <4>1. i <= reg.swept  BY <1>1, <1>2, <1>5, <3>2
      <4>2. messages[i][k].id \in Known(reg.inFlight)  BY <4>1 DEF FinalIsKnown
      <4> QED  BY <1>10, <1>11, <4>2
    <3> QED  BY <1>1, <1>5, <3>1, <3>2
  <2>2. PICK e \in absorbed : e.id = messages[i][k].id
    BY <2>1 DEF Known
  <2>3. ~e.settled
    BY <1>14, <2>2 DEF SettledIsSent
  <2>4. e \in new.inFlight
    BY <1>6, <2>3
  <2> QED  BY <2>2, <2>4 DEF Known
<1>16. AnsweredIsKnown(new, messages, answered)
  <2> SUFFICES ASSUME NEW i \in DOMAIN messages, NEW k \in DOMAIN messages[i],
                      i > new.swept, messages[i][k].open, messages[i][k].id \in answered
               PROVE  messages[i][k].id \in Known(new.inFlight)
    BY DEF AnsweredIsKnown
  <2>1. i = length /\ i >= first
    BY <1>1, <1>2, <1>5, <1>7
  <2>2. PICK e \in absorbed : e.id = messages[i][k].id
    BY <1>9, <2>1 DEF Known
  <2>3. e.index = length
    BY <1>13, <2>1, <2>2 DEF Placed
  <2>4. e \in new.inFlight
    BY <1>1, <1>6, <2>3
  <2> QED  BY <2>2, <2>4 DEF Known
<1>17. FinalIsKnown(new, messages, answered)
  BY <1>15 DEF AllAreKnown, FinalIsKnown
<1>18. Placed(new.inFlight, messages) /\ SettledIsSent(new.inFlight, answered)
  BY <1>6, <1>13, <1>14 DEF Placed, SettledIsSent
<1>19. new \in LedgerType
  <2>1. new.inFlight \subseteq EntryType  BY <1>6, <1>12
  <2>2. new.swept \in Nat  BY <1>1, <1>2, <1>7
  <2> QED  BY <1>8, <2>1, <2>2 DEF LedgerType
<1>20. new.swept = 0 \/ new.swept < Len(messages)
  BY <1>1, <1>2, <1>7 DEF length
<1>21. \A e \in new.inFlight :
         \/ e \in reg.inFlight
         \/ \E i \in DOMAIN messages : \E k \in DOMAIN messages[i] : messages[i][k].id = e.id
  BY <1>6, <1>12
<1> QED  BY <1>15, <1>16, <1>17, <1>18, <1>19, <1>20, <1>21 DEF LedgerInv, new

(* A set of numbers has a least one: of the intervals below its members,   *)
(* one holds no other.                                                     *)
LEMMA HasLeast ==
  ASSUME NEW S \in SUBSET Nat, S # {}
  PROVE  \E n \in S : \A m \in S : n <= m
<1> DEFINE below == {1 .. n : n \in S}
<1>1. below \subseteq FiniteSubsetsOf(Nat) /\ below # {}
  <2>1. \A n \in S : IsFiniteSet(1 .. n)
    BY FS_Interval
  <2>2. \A n \in S : (1 .. n) \in FiniteSubsetsOf(Nat)
    BY <2>1 DEF FiniteSubsetsOf
  <2>3. PICK n \in S : TRUE
    OBVIOUS
  <2>4. (1 .. n) \in below
    OBVIOUS
  <2> QED  BY <2>2, <2>4
<1>2. PICK b \in below : \A c \in below : ~(<<c, b>> \in StrictSubsetOrdering(Nat))
  <2> HIDE DEF below
  <2> QED  BY <1>1, FS_StrictSubsetOrderingWellFounded, WFMin
<1>3. PICK n \in S : b = 1 .. n
  OBVIOUS
<1>4. ASSUME NEW m \in S, m < n PROVE FALSE
  <2>1. (1 .. m) \subseteq (1 .. n) /\ n \in 1 .. n /\ n \notin 1 .. m /\ (1 .. m) \in below
    BY <1>4
  <2>2. (1 .. m) # (1 .. n) /\ (1 .. m) \in SUBSET Nat /\ (1 .. n) \in SUBSET Nat
    BY <2>1
  <2>3. <<1 .. m, 1 .. n>> \in StrictSubsetOrdering(Nat)
    BY <2>1, <2>2 DEF StrictSubsetOrdering
  <2> QED  BY <1>2, <1>3, <2>1, <2>3
<1> QED  BY <1>4

(* The card is of what waits, if anything does.                            *)
LEMMA CardIsOfWaiting ==
  ASSUME NEW reg \in LedgerType
  PROVE  FindNextApproval(reg) = 0 \/ \E e \in Unsettled(reg) : e.id = FindNextApproval(reg)
<1> DEFINE waiting == Unsettled(reg)
<1>1. waiting \subseteq EntryType
  BY DEF Unsettled, LedgerType
<1>2. CASE waiting = {}
  BY <1>2 DEF FindNextApproval
<1>3. CASE waiting # {}
  <2> HIDE DEF waiting
  <2> DEFINE indices == {e.index : e \in waiting}
  <2>1. indices \in SUBSET Nat /\ indices # {}
    BY <1>1, <1>3 DEF EntryType
  <2>2. PICK i \in indices : \A j \in indices : i <= j
    <3> HIDE DEF indices
    <3> QED  BY <2>1, HasLeast
  <2> DEFINE parts == {e.part : e \in {e \in waiting : e.index = i}}
  <2>3. parts \in SUBSET Nat /\ parts # {}
    BY <1>1, <2>2 DEF EntryType
  <2>4. PICK k \in parts : \A l \in parts : k <= l
    <3> HIDE DEF parts
    <3> QED  BY <2>3, HasLeast
  <2>5. PICK e \in waiting : e.index = i /\ e.part = k
    BY <2>4
  <2>6. \A f \in waiting : Before(e, f)
    <3> SUFFICES ASSUME NEW f \in waiting PROVE Before(e, f)
      OBVIOUS
    <3>1. i <= f.index /\ f.index \in Nat /\ i \in Nat
      BY <1>1, <2>1, <2>2 DEF EntryType
    <3>2. f.index = i => k <= f.part
      BY <2>4
    <3> QED  BY <2>5, <3>1, <3>2 DEF Before
  <2> DEFINE first == CHOOSE e1 \in waiting : \A f \in waiting : Before(e1, f)
  <2>7. first \in waiting
    BY <2>5, <2>6
  <2>8. FindNextApproval(reg) = first.id
    BY <1>3 DEF FindNextApproval, waiting
  <2> HIDE DEF first
  <2> QED  BY <2>7, <2>8 DEF waiting
<1> QED  BY <1>2, <1>3

LEMMA DrawKeeps ==
  ASSUME NEW known \in LedgerType, NEW messages, thread' = messages, Draw(known, messages),
         messages \in Seq(Seq(PartType)), sent' \subseteq Nat, left'.approvals \in Nat,
         Placed(known.inFlight, messages), SettledIsSent(known.inFlight, sent'),
         FinalIsKnown(known, messages, sent'), AnsweredIsKnown(known, messages, sent'),
         OfOneMessage(messages), Len(messages) = 0 \/ known.swept < Len(messages),
         Numbered(messages, known, sent', left'.approvals)
  PROVE  ApprovalInv'
<1>1. /\ ledger' = Ingest(known, messages) /\ card' = FindNextApproval(ledger')
      /\ effect' = (card' # 0) /\ dirty' = FALSE
  BY DEF Draw
<1>2. /\ ledger' \in LedgerType
      /\ LedgerInv(ledger', messages, sent')
      /\ AllAreKnown(ledger', messages, sent')
      /\ \A e \in ledger'.inFlight :
           \/ e \in known.inFlight
           \/ \E i \in DOMAIN messages : \E k \in DOMAIN messages[i] : messages[i][k].id = e.id
  BY <1>1, IngestKeeps
<1>3. ApprovalTypes'
  BY <1>2 DEF ApprovalTypes
<1>4. LedgerInv(ledger, thread, sent)' /\ (AllAreKnown(ledger, thread, sent))' /\ OfOneMessage(thread)'
  BY <1>2
<1>5. Numbered(thread, ledger, sent, left.approvals)'
  BY <1>2 DEF Numbered
<1>6. CardIsUnsettled'
  BY <1>1, <1>2, CardIsOfWaiting DEF CardIsUnsettled, ToBeShown
<1>7. (effect => card # 0)'
  BY <1>1
<1> QED  BY <1>3, <1>4, <1>5, <1>6, <1>7 DEF ApprovalInv

(* What is spent is counted down, also of the approvals.                   *)
LEMMA SpendingApprovals ==
  ASSUME left \in Launch, NEW what \in Limits, Spend(what)
  PROVE  /\ left'.approvals \in Nat /\ left'.approvals <= left.approvals
         /\ what = "approvals" => left'.approvals < left.approvals
BY DEF Spend, Launch, Limits

(* An answer is kept as a marker of the entry, and nothing else changes.   *)
LEMMA SettleKeeps ==
  ASSUME Types, ApprovalInv, card # 0, SettleApproval(card), thread' = thread, left' = left
  PROVE  ApprovalInv'
<1> DEFINE known == Settle(ledger, card)
<1>1. /\ ledger \in LedgerType /\ thread \in Seq(Seq(PartType)) /\ sent \subseteq Nat
      /\ sent' = sent \union {card} /\ left'.approvals \in Nat
  BY DEF ApprovalInv, ApprovalTypes, SettleApproval, Types, Launch
<1>2. PICK waiting \in ledger.inFlight : waiting.id = card /\ ~waiting.settled
  BY DEF ApprovalInv, CardIsUnsettled, ToBeShown, Unsettled
<1>3. card \in Nat /\ card > left.approvals
  BY <1>1, <1>2 DEF LedgerType, EntryType, ApprovalInv, Numbered
<1> DEFINE marked ==
      {e \in ledger.inFlight : e.id # card}
        \union {[e EXCEPT !.settled = TRUE] : e \in {e \in ledger.inFlight : e.id = card}}
<1>4. /\ known.swept = ledger.swept
      /\ known.inFlight = marked
      /\ known = [inFlight |-> known.inFlight, swept |-> known.swept]
  <2>1. known = [ledger EXCEPT !.inFlight = marked]
    BY DEF Settle
  <2> HIDE DEF known, marked
  <2> QED  BY <1>1, <2>1 DEF LedgerType
<1> HIDE DEF known
<1>5. ASSUME NEW e \in known.inFlight
      PROVE  /\ e \in EntryType
             /\ \E f \in ledger.inFlight :
                  /\ e.id = f.id /\ e.index = f.index
                  /\ IF f.id = card THEN e.settled ELSE e.settled = f.settled
  <2>1. CASE e \in ledger.inFlight /\ e.id # card
    BY <1>1, <2>1 DEF LedgerType
  <2>2. CASE \E f \in ledger.inFlight : f.id = card /\ e = [f EXCEPT !.settled = TRUE]
    BY <1>1, <2>2 DEF LedgerType, EntryType
  <2> QED  BY <1>4, <2>1, <2>2
<1>6. ASSUME NEW id \in Known(ledger.inFlight) PROVE id \in Known(known.inFlight)
  <2>1. PICK e \in ledger.inFlight : e.id = id
    BY DEF Known
  <2>2. CASE id # card
    BY <1>4, <2>1, <2>2 DEF Known
  <2>3. CASE id = card
    <3>1. [e EXCEPT !.settled = TRUE] \in known.inFlight
      BY <1>4, <2>1, <2>3
    <3>2. [e EXCEPT !.settled = TRUE].id = id
      BY <1>1, <2>1 DEF LedgerType, EntryType
    <3> QED  BY <3>1, <3>2 DEF Known
  <2> QED  BY <2>2, <2>3
<1>7. known \in LedgerType
  <2>1. known.inFlight \subseteq EntryType  BY <1>5
  <2>2. known.swept \in Nat  BY <1>1, <1>4 DEF LedgerType
  <2> QED  BY <1>4, <2>1, <2>2 DEF LedgerType
<1>8. Placed(known.inFlight, thread)
  BY <1>5 DEF ApprovalInv, LedgerInv, Placed
<1>9. SettledIsSent(known.inFlight, sent')
  BY <1>1, <1>5 DEF ApprovalInv, LedgerInv, SettledIsSent
<1>10. FinalIsKnown(known, thread, sent')
  BY <1>1, <1>4, <1>6 DEF ApprovalInv, LedgerInv, FinalIsKnown
<1>11. AnsweredIsKnown(known, thread, sent')
  <2>1. card \in Known(ledger.inFlight)
    BY <1>2 DEF Known
  <2> QED  BY <1>1, <1>4, <1>6, <2>1 DEF ApprovalInv, LedgerInv, AnsweredIsKnown
<1>12. Numbered(thread, known, sent', left'.approvals)
  BY <1>1, <1>3, <1>5 DEF ApprovalInv, Numbered
<1>13. OfOneMessage(thread) /\ (Len(thread) = 0 \/ known.swept < Len(thread))
  BY <1>1, <1>4 DEF ApprovalInv, LedgerInv
<1>14. Draw(known, thread) /\ sent' \subseteq Nat
  BY <1>1, <1>3 DEF SettleApproval, known
<1> QED  BY <1>1, <1>7, <1>8, <1>9, <1>10, <1>11, <1>12, <1>13, <1>14, DrawKeeps

LEMMA RenderKeeps ==
  ASSUME Types, ApprovalInv, Render
  PROVE  ApprovalInv'
<1>1. /\ ledger \in LedgerType /\ thread \in Seq(Seq(PartType)) /\ sent' \subseteq Nat
      /\ sent' = sent /\ left'.approvals \in Nat /\ left' = left /\ thread' = thread
      /\ Draw(ledger, thread)
  BY DEF ApprovalInv, ApprovalTypes, Render, Types, Launch
<1>2. Len(thread) = 0 \/ ledger.swept < Len(thread)
  BY <1>1 DEF ApprovalInv, LedgerInv
<1> QED  BY <1>1, <1>2, DrawKeeps DEF ApprovalInv, LedgerInv

(* Of a conversation that was put away nothing is left.                    *)
LEMMA ResetKeeps ==
  ASSUME Types, ApprovalInv, ResetAgent, left'.approvals \in Nat,
         left'.approvals <= left.approvals
  PROVE  ApprovalInv'
<1>1. /\ ledger \in LedgerType /\ sent' \subseteq Nat /\ sent' = sent
      /\ thread' = <<>> /\ Draw(ledger, <<>>)
  BY DEF ApprovalInv, ApprovalTypes, ResetAgent
<1>2. <<>> \in Seq(Seq(PartType)) /\ Len(<<>>) = 0
  OBVIOUS
<1> DEFINE messages == <<>>
<1>3. DOMAIN messages = {}
  OBVIOUS
<1>4. messages \in Seq(Seq(PartType)) /\ Len(messages) = 0 /\ thread' = messages /\ Draw(ledger, messages)
  BY <1>1, <1>2
<1> HIDE DEF messages
<1>5. /\ Placed(ledger.inFlight, messages) /\ FinalIsKnown(ledger, messages, sent')
      /\ AnsweredIsKnown(ledger, messages, sent') /\ OfOneMessage(messages)
  BY <1>3 DEF Placed, FinalIsKnown, AnsweredIsKnown, OfOneMessage
<1>6. SettledIsSent(ledger.inFlight, sent')
  BY <1>1 DEF ApprovalInv, LedgerInv
<1>7. left.approvals \in Nat /\ \A e \in ledger.inFlight : e.id \in Nat
  BY <1>1 DEF Types, Launch, LedgerType, EntryType
<1>8. Numbered(messages, ledger, sent', left'.approvals)
  BY <1>1, <1>3, <1>7 DEF ApprovalInv, ApprovalTypes, Numbered
<1> QED  BY <1>1, <1>4, <1>5, <1>6, <1>8, DrawKeeps

(* A step that adds no approval, or adds one to the last message, or notes *)
(* that one is closed.                                                     *)
LEMMA ThreadKeeps ==
  ASSUME Types, ApprovalInv, UNCHANGED <<sent, ledger, card, effect>>, dirty',
         thread' \in Seq(Seq(PartType)), Len(thread') >= Len(thread),
         left'.approvals \in Nat, left'.approvals <= left.approvals,
         \A i \in DOMAIN thread' : \A k \in DOMAIN thread'[i] :
           \/ /\ i \in DOMAIN thread /\ k \in DOMAIN thread[i]
              /\ thread'[i][k].id = thread[i][k].id
              /\ thread'[i][k].open => thread[i][k].open
           \/ /\ i = Len(thread') /\ i = Len(thread)
              /\ thread'[i][k].id = left.approvals /\ left'.approvals < left.approvals
  PROVE  ApprovalInv'
<1>1. /\ thread \in Seq(Seq(PartType)) /\ left.approvals \in Nat /\ ledger \in LedgerType
      /\ ledger.swept \in Nat /\ ledger.inFlight \subseteq EntryType /\ sent \subseteq Nat
  BY DEF ApprovalInv, ApprovalTypes, Types, Launch, LedgerType
<1>2. ASSUME NEW i \in DOMAIN thread, NEW k \in DOMAIN thread[i]
      PROVE  thread[i][k].id \in Nat /\ thread[i][k].id > left.approvals /\ i \in 1..Len(thread)
  <2>1. thread[i] \in Seq(PartType) /\ i \in 1..Len(thread)  BY <1>1
  <2>2. thread[i][k] \in PartType  BY <2>1
  <2> QED  BY <2>1, <2>2 DEF PartType, ApprovalInv, Numbered
<1> DEFINE Kept(i, k) == /\ i \in DOMAIN thread /\ k \in DOMAIN thread[i]
                         /\ thread'[i][k].id = thread[i][k].id
                         /\ thread'[i][k].open => thread[i][k].open
           Added(i, k) == /\ i = Len(thread') /\ i = Len(thread)
                          /\ thread'[i][k].id = left.approvals /\ left'.approvals < left.approvals
<1>a. ASSUME NEW i \in DOMAIN thread', NEW k \in DOMAIN thread'[i]
      PROVE  Kept(i, k) \/ Added(i, k)
  OBVIOUS
<1>b. \A e \in ledger.inFlight : e.id > left.approvals /\ e.id \in Nat
  BY <1>1 DEF ApprovalInv, Numbered, EntryType
<1>c. \A id \in sent : id > left.approvals /\ id \in Nat
  BY <1>1 DEF ApprovalInv, Numbered
<1>3. Placed(ledger.inFlight, thread')
  <2> SUFFICES ASSUME NEW e \in ledger.inFlight, NEW i \in DOMAIN thread',
                      NEW k \in DOMAIN thread'[i], thread'[i][k].id = e.id
               PROVE  i = e.index
    BY DEF Placed
  <2>1. Kept(i, k)  BY <1>1, <1>a, <1>b
  <2> QED  BY <2>1 DEF ApprovalInv, LedgerInv, Placed
<1>4. FinalIsKnown(ledger, thread', sent)
  <2> SUFFICES ASSUME NEW i \in DOMAIN thread', NEW k \in DOMAIN thread'[i], i <= ledger.swept,
                      thread'[i][k].open, thread'[i][k].id \notin sent
               PROVE  thread'[i][k].id \in Known(ledger.inFlight)
    BY DEF FinalIsKnown
  <2>1. CASE Kept(i, k)
    BY <2>1 DEF ApprovalInv, LedgerInv, FinalIsKnown
  <2>2. CASE Added(i, k)
    <3>1. i = Len(thread) /\ i \in Nat /\ i # 0
      BY <1>1, <2>2
    <3> QED  BY <1>1, <3>1 DEF ApprovalInv, LedgerInv
  <2> QED  BY <1>a, <2>1, <2>2
<1>5. AnsweredIsKnown(ledger, thread', sent)
  <2> SUFFICES ASSUME NEW i \in DOMAIN thread', NEW k \in DOMAIN thread'[i], i > ledger.swept,
                      thread'[i][k].open, thread'[i][k].id \in sent
               PROVE  thread'[i][k].id \in Known(ledger.inFlight)
    BY DEF AnsweredIsKnown
  <2>1. Kept(i, k)  BY <1>1, <1>a, <1>c
  <2> QED  BY <2>1 DEF ApprovalInv, LedgerInv, AnsweredIsKnown
<1>6. Numbered(thread', ledger, sent, left'.approvals)
  <2>1. ASSUME NEW i \in DOMAIN thread', NEW k \in DOMAIN thread'[i]
        PROVE  thread'[i][k].id > left'.approvals
    <3>1. CASE Kept(i, k)  BY <1>1, <1>2, <3>1
    <3>2. CASE Added(i, k)  BY <3>2, <1>1
    <3> QED  BY <1>a, <3>1, <3>2
  <2>2. /\ \A e \in ledger.inFlight : e.id > left'.approvals
        /\ \A id \in sent : id > left'.approvals
    BY <1>1, <1>b, <1>c
  <2> QED  BY <2>1, <2>2 DEF Numbered
<1>7. OfOneMessage(thread')
  <2> SUFFICES ASSUME NEW i \in DOMAIN thread', NEW j \in DOMAIN thread',
                      NEW k \in DOMAIN thread'[i], NEW l \in DOMAIN thread'[j],
                      thread'[i][k].id = thread'[j][l].id
               PROVE  i = j
    BY DEF OfOneMessage
  <2>1. CASE Kept(i, k) /\ Kept(j, l)
    <3>1. /\ i \in DOMAIN thread /\ j \in DOMAIN thread
          /\ k \in DOMAIN thread[i] /\ l \in DOMAIN thread[j]
          /\ thread[i][k].id = thread[j][l].id
      BY <2>1
    <3>2. OfOneMessage(thread)
      BY DEF ApprovalInv
    <3> HIDE DEF Kept, Added
    <3> QED  BY <3>1, <3>2 DEF OfOneMessage
  <2>2. CASE Added(i, k) /\ Added(j, l)
    BY <2>2
  <2>3. CASE Added(i, k) /\ Kept(j, l)
    BY <1>1, <1>2, <2>3
  <2>4. CASE Kept(i, k) /\ Added(j, l)
    <3>1. thread[i][k].id > left.approvals /\ thread[i][k].id = thread'[i][k].id
      BY <1>2, <2>4
    <3>2. thread'[j][l].id = left.approvals
      BY <2>4
    <3> QED  BY <1>1, <3>1, <3>2
  <2> QED  BY <1>a, <2>1, <2>2, <2>3, <2>4
<1>8. ledger.swept = 0 \/ ledger.swept < Len(thread')
  BY <1>1 DEF ApprovalInv, LedgerInv
<1>9. LedgerInv(ledger', thread', sent')
  BY <1>3, <1>4, <1>5, <1>8 DEF ApprovalInv, LedgerInv
<1>10. CardIsUnsettled' /\ (effect => card # 0)'
  BY DEF ApprovalInv, CardIsUnsettled, ToBeShown
<1> QED  BY <1>1, <1>6, <1>7, <1>9, <1>10 DEF ApprovalInv, ApprovalTypes

(* A step that leaves all that alone.                                      *)
LEMMA UntouchedApprovals ==
  ASSUME Types, ApprovalInv, UNCHANGED <<thread, sent, ledger, card, dirty>>,
         effect' = effect \/ effect' = FALSE \/ effect' = (card # 0),
         left'.approvals \in Nat, left'.approvals <= left.approvals
  PROVE  ApprovalInv'
<1>1. /\ thread \in Seq(Seq(PartType)) /\ left.approvals \in Nat /\ ledger \in LedgerType
      /\ ledger.inFlight \subseteq EntryType /\ sent \subseteq Nat
  BY DEF ApprovalInv, ApprovalTypes, Types, Launch, LedgerType
<1>2. ASSUME NEW i \in DOMAIN thread, NEW k \in DOMAIN thread[i]
      PROVE  thread[i][k].id \in Nat
  <2>1. thread[i] \in Seq(PartType)  BY <1>1
  <2>2. thread[i][k] \in PartType  BY <2>1
  <2> QED  BY <2>2 DEF PartType
<1>3. Numbered(thread, ledger, sent, left'.approvals)
  BY <1>1, <1>2 DEF ApprovalInv, Numbered, EntryType
<1>4. LedgerInv(ledger', thread', sent') /\ OfOneMessage(thread') /\ (~dirty => AllAreKnown(ledger, thread, sent))'
  BY DEF ApprovalInv
<1>5. CardIsUnsettled'
  BY DEF ApprovalInv, CardIsUnsettled, ToBeShown
<1>6. (effect => card # 0)'
  BY Zenon DEF ApprovalInv
<1> QED  BY <1>1, <1>3, <1>4, <1>5, <1>6 DEF ApprovalInv, ApprovalTypes

LEMMA NewMessage ==
  ASSUME Types, ApprovalInv, thread' = Append(thread, <<>>), dirty',
         UNCHANGED <<sent, ledger, card, effect>>,
         left'.approvals \in Nat, left'.approvals <= left.approvals
  PROVE  ApprovalInv'
<1> DEFINE empty == <<>>
<1>1. thread \in Seq(Seq(PartType)) /\ empty \in Seq(PartType) /\ DOMAIN empty = {}
  BY DEF ApprovalInv, ApprovalTypes
<1>2. thread' = Append(thread, empty)
  OBVIOUS
<1> HIDE DEF empty
<1>3. /\ thread' \in Seq(Seq(PartType)) /\ Len(thread') = Len(thread) + 1
      /\ \A i \in DOMAIN thread' : i = Len(thread) + 1 \/ (i \in DOMAIN thread /\ thread'[i] = thread[i])
      /\ thread'[Len(thread) + 1] = empty
  BY <1>1, <1>2
<1>4. \A i \in DOMAIN thread' : \A k \in DOMAIN thread'[i] :
         i \in DOMAIN thread /\ thread'[i] = thread[i]
  BY <1>1, <1>3
<1> QED  BY <1>1, <1>3, <1>4, ThreadKeeps

LEMMA NewPart ==
  ASSUME Types, ApprovalInv, RequestApproval
  PROVE  ApprovalInv'
<1> USE DEF approvalVars, shellVars
<1> DEFINE part == [id |-> left.approvals, open |-> TRUE]
           last == Len(thread)
<1>1. /\ thread \in Seq(Seq(PartType)) /\ thread # <<>> /\ left.approvals \in Nat
      /\ left'.approvals \in Nat /\ left'.approvals < left.approvals
      /\ dirty' /\ UNCHANGED <<sent, ledger, card, effect>>
  BY SpendingApprovals DEF RequestApproval, ApprovalInv, ApprovalTypes, Types, Launch, Limits
<1>2. thread' = [thread EXCEPT ![last] = Append(thread[last], part)]
  BY DEF RequestApproval
<1>3. part \in PartType /\ part.id = left.approvals
  BY <1>1 DEF PartType
<1>4. last \in DOMAIN thread /\ thread[last] \in Seq(PartType)
  BY <1>1
<1> HIDE DEF part
<1>5. Append(thread[last], part) \in Seq(PartType)
  BY <1>3, <1>4
<1>6. /\ thread' \in Seq(Seq(PartType)) /\ Len(thread') = last
      /\ DOMAIN thread' = DOMAIN thread
      /\ thread'[last] = Append(thread[last], part)
      /\ \A i \in DOMAIN thread : i # last => thread'[i] = thread[i]
  BY <1>1, <1>2, <1>4, <1>5
<1>7. \A k \in DOMAIN thread'[last] :
        \/ k \in DOMAIN thread[last] /\ thread'[last][k] = thread[last][k]
        \/ thread'[last][k] = part
  BY <1>3, <1>4, <1>6
<1>8. ASSUME NEW i \in DOMAIN thread', NEW k \in DOMAIN thread'[i]
      PROVE  \/ /\ i \in DOMAIN thread /\ k \in DOMAIN thread[i]
                /\ thread'[i][k].id = thread[i][k].id
                /\ thread'[i][k].open => thread[i][k].open
             \/ /\ i = Len(thread') /\ i = Len(thread)
                /\ thread'[i][k].id = left.approvals /\ left'.approvals < left.approvals
  <2>1. CASE i = last
    BY <1>1, <1>3, <1>4, <1>6, <1>7, <2>1
  <2>2. CASE i # last
    BY <1>6, <2>2
  <2> QED  BY <2>1, <2>2
<1>9. Len(thread') >= Len(thread) /\ left'.approvals <= left.approvals
  BY <1>1, <1>6
<1> QED  BY <1>1, <1>6, <1>8, <1>9, ThreadKeeps

LEMMA ReplacedElement ==
  ASSUME NEW S, NEW s \in Seq(S), NEW i \in DOMAIN s, NEW x \in S
  PROVE  [s EXCEPT ![i] = x] \in Seq(S)
OBVIOUS

LEMMA ClosedPart ==
  ASSUME Types, ApprovalInv, NEW i \in DOMAIN thread, NEW k \in DOMAIN thread[i],
         ApprovalCloses(i, k)
  PROVE  ApprovalInv'
<1>1. /\ thread \in Seq(Seq(PartType)) /\ left' = left /\ left.approvals \in Nat
      /\ dirty' /\ UNCHANGED <<sent, ledger, card, effect>>
      /\ thread' = [thread EXCEPT ![i] = [thread[i] EXCEPT ![k] = [thread[i][k] EXCEPT !.open = FALSE]]]
  BY DEF ApprovalCloses, ApprovalInv, ApprovalTypes, Types, Launch
<1> DEFINE part == [thread[i][k] EXCEPT !.open = FALSE]
           message == [thread[i] EXCEPT ![k] = part]
<1>2. thread[i] \in Seq(PartType)
  BY <1>1
<1>3. thread[i][k] \in PartType
  BY <1>2
<1>4. part \in PartType /\ part.id = thread[i][k].id /\ part.open = FALSE
  BY <1>3 DEF PartType
<1> HIDE DEF part
<1>5. /\ message \in Seq(PartType) /\ DOMAIN message = DOMAIN thread[i]
      /\ \A l \in DOMAIN message : message[l] = thread[i][l] \/ (l = k /\ message[l] = part)
  BY <1>2, <1>4
<1>6. thread' = [thread EXCEPT ![i] = message]
  BY <1>1 DEF part
<1> HIDE DEF message
<1>7. /\ thread' \in Seq(Seq(PartType)) /\ Len(thread') = Len(thread)
      /\ DOMAIN thread' = DOMAIN thread
      /\ thread'[i] = message
      /\ \A j \in DOMAIN thread : j # i => thread'[j] = thread[j]
  <2>1. thread' \in Seq(Seq(PartType))
    <3>1. thread \in Seq(Seq(PartType)) /\ message \in Seq(PartType)
      BY <1>1, <1>5
    <3>2. [thread EXCEPT ![i] = message] \in Seq(Seq(PartType))
      BY <3>1, ReplacedElement, Zenon
    <3> QED  BY <1>6, <3>2
  <2>2. DOMAIN thread' = DOMAIN thread /\ thread'[i] = message
    BY <1>6
  <2>3. Len(thread') = Len(thread)
    BY <1>1, <2>1, <2>2
  <2>4. \A j \in DOMAIN thread : j # i => thread'[j] = thread[j]
    BY <1>6
  <2> QED  BY <2>1, <2>2, <2>3, <2>4
<1>8. ASSUME NEW j \in DOMAIN thread', NEW l \in DOMAIN thread'[j]
      PROVE  /\ j \in DOMAIN thread /\ l \in DOMAIN thread[j]
             /\ thread'[j][l].id = thread[j][l].id
             /\ thread'[j][l].open => thread[j][l].open
  <2>1. CASE j = i
    BY <1>4, <1>5, <1>7, <2>1
  <2>2. CASE j # i
    BY <1>7, <2>2
  <2> QED  BY <2>1, <2>2
<1>9. Len(thread') >= Len(thread) /\ left'.approvals \in Nat /\ left'.approvals <= left.approvals
  BY <1>1, <1>7
<1> QED  BY <1>1, <1>7, <1>8, <1>9, ThreadKeeps

LEMMA NextApprovals == Types /\ ApprovalInv /\ [Next]_vars => ApprovalInv'
<1> SUFFICES ASSUME Types, ApprovalInv, [Next]_vars PROVE ApprovalInv'
  OBVIOUS
<1> USE DEF approvalVars, shellVars
<1>a. left.approvals \in Nat /\ left \in Launch
  BY DEF Types, Launch
<1>b. left' = left => left'.approvals \in Nat /\ left'.approvals <= left.approvals
  BY <1>a
<1>1. CASE Submit \/ OpenTurn \/ NextMessage
  <2>1. left'.approvals \in Nat /\ left'.approvals <= left.approvals
    BY <1>1, <1>a, SpendingApprovals DEF Submit, OpenTurn, NextMessage, Limits
  <2>2. thread' = Append(thread, <<>>) /\ dirty' = TRUE /\ UNCHANGED <<sent, ledger, card, effect>>
    BY <1>1 DEF Submit, OpenTurn, NextMessage
  <2> QED  BY <2>1, <2>2, NewMessage
<1>2. CASE RequestApproval
  BY <1>2, NewPart
<1>3. CASE \E i \in DOMAIN thread : \E k \in DOMAIN thread[i] : ApprovalCloses(i, k)
  BY <1>3, ClosedPart
<1>4. CASE Render
  BY <1>4, RenderKeeps
<1>5. CASE Decide
  BY <1>5, SettleKeeps DEF Decide
<1>6. CASE AutoApprove
  <2>1. CASE auto
    <3>1. card # 0 /\ SettleApproval(card) /\ thread' = thread /\ left' = left
      BY <1>6, <2>1 DEF AutoApprove, ApprovalInv
    <3> QED  BY <3>1, SettleKeeps
  <2>2. CASE ~auto
    <3>1. effect' = FALSE /\ UNCHANGED <<left, thread, sent, ledger, card, dirty>>
      BY <1>6, <2>2 DEF AutoApprove
    <3> QED  BY <1>b, <3>1, UntouchedApprovals
  <2> QED  BY <2>1, <2>2
<1>7. CASE HandleApprovalMode
  BY <1>7, <1>b, UntouchedApprovals DEF HandleApprovalMode
<1>8. CASE \/ TurnEnds \/ AnswerQuestion \/ CancelQuestion \/ HandleStopPtys \/ Close \/ Quit
           \/ \E s \in Sessions : QuestionLapses(s)
           \/ \E total \in 0..2 : Primed(total)
  BY <1>8, <1>b, UntouchedApprovals
  DEF TurnEnds, AnswerQuestion, CancelQuestion, HandleStopPtys, Close, Quit, QuestionLapses, Primed
<1>9. CASE \/ Ask \/ StartShell \/ TrustFails \/ \E surface \in Surfaces : Open(surface)
           \/ \E command \in {"resume", "archive"} : HandleLate(command)
  <2>1. left'.approvals \in Nat /\ left'.approvals <= left.approvals
    BY <1>9, <1>a, SpendingApprovals DEF Ask, StartShell, TrustFails, Open, HandleLate, Limits
  <2>2. UNCHANGED <<thread, sent, ledger, card, dirty, effect>>
    BY <1>9 DEF Ask, StartShell, TrustFails, Open, HandleLate
  <2> QED  BY <2>1, <2>2, UntouchedApprovals
<1>10. ASSUME NEW mode \in Range(Modes), BuildAgent(mode) PROVE ApprovalInv'
  <2>1. left'.approvals \in Nat /\ left'.approvals <= left.approvals
    <3>1. CASE mode = owner.mode  BY <1>10, <1>b, <3>1 DEF BuildAgent
    <3>2. CASE mode # owner.mode  BY <1>10, <1>a, <3>2, SpendingApprovals DEF BuildAgent, Limits
    <3> QED  BY <3>1, <3>2
  <2> QED  BY <1>10, <2>1, UntouchedApprovals DEF BuildAgent
<1>11. CASE Fork \/ ArchiveLands \/ \E s \in Sessions : ResumeLands(s)
  <2>1. left'.approvals \in Nat /\ left'.approvals <= left.approvals
    BY <1>11, <1>a, SpendingApprovals DEF Fork, ArchiveLands, ResumeLands, FreshSession, Limits
  <2> QED  BY <1>11, <2>1, UntouchedApprovals DEF Fork, ArchiveLands, ResumeLands
<1>12. CASE ResetConversation
  <2>1. left'.approvals \in Nat /\ left'.approvals <= left.approvals
    BY <1>12, <1>a, SpendingApprovals DEF ResetConversation, FreshSession, Limits
  <2> QED  BY <1>12, <2>1, ResetKeeps DEF ResetConversation
<1>13. CASE RewindLands
  <2>1. CASE FreshSession /\ ResetAgent
    <3>1. left'.approvals \in Nat /\ left'.approvals <= left.approvals
      BY <2>1, <1>a, SpendingApprovals DEF FreshSession, Limits
    <3> QED  BY <2>1, <3>1, ResetKeeps
  <2>2. CASE UNCHANGED <<left, session, turn, approvalVars>>
    BY <1>b, <2>2, UntouchedApprovals
  <2> QED  BY <1>13, <2>1, <2>2 DEF RewindLands
<1>14. ASSUME NEW key \in Keys, Press(key) PROVE ApprovalInv'
  <2>1. left' = [left EXCEPT !.keys = @ - 1, !.switches = IF session' = session THEN @ ELSE @ - 1]
    BY <1>14 DEF Press
  <2>2. left'.approvals = left.approvals
    BY <1>a, <2>1 DEF Launch
  <2> QED  BY <1>14, <1>a, <2>2, UntouchedApprovals DEF Press
<1>15. CASE UNCHANGED vars
  BY <1>15, <1>b, UntouchedApprovals DEF vars
<1> QED
  BY <1>1, <1>2, <1>3, <1>4, <1>5, <1>6, <1>7, <1>8, <1>9, <1>10, <1>11, <1>12, <1>13, <1>14,
     <1>15 DEF Next, Surfaces

LEMMA InitApprovals == Init => ApprovalInv
<1> SUFFICES ASSUME Init PROVE ApprovalInv
  OBVIOUS
<1>1. /\ thread = <<>> /\ sent = {} /\ ledger = [inFlight |-> {}, swept |-> 0] /\ card = 0
      /\ effect = FALSE
  BY DEF Init, CreateLedger
<1>2. /\ thread \in Seq(Seq(PartType)) /\ DOMAIN thread = {} /\ ledger.inFlight = {}
      /\ ledger.swept = 0 /\ ledger \in LedgerType
  BY <1>1 DEF LedgerType
<1>3. LedgerInv(ledger, thread, sent)
  BY <1>2 DEF LedgerInv, Placed, SettledIsSent, FinalIsKnown, AnsweredIsKnown
<1> QED
  BY <1>1, <1>2, <1>3
  DEF ApprovalInv, ApprovalTypes, Numbered, OfOneMessage, AllAreKnown, CardIsUnsettled

(* Every approval that waits is of the cards to come, and the one on the   *)
(* screen was not answered.                                                *)
LEMMA ApprovalInvSuffices == Types /\ ApprovalInv => ApprovalsSeen
<1> SUFFICES ASSUME Types, ApprovalInv PROVE ApprovalsSeen
  OBVIOUS
<1>1. card \notin sent
  <2>1. CASE card = 0
    BY <2>1 DEF ApprovalInv, Numbered, Types, Launch
  <2>2. CASE card \in ToBeShown
    BY <2>2 DEF ToBeShown, Unsettled, ApprovalInv, LedgerInv, SettledIsSent
  <2> QED  BY <2>1, <2>2 DEF ApprovalInv, CardIsUnsettled
<1>2. ASSUME ~dirty, NEW id \in Waiting PROVE id \in ToBeShown
  <2>1. PICK i \in DOMAIN thread : \E k \in DOMAIN thread[i] :
          thread[i][k].open /\ thread[i][k].id = id /\ id \notin sent
    BY DEF Waiting, Parts, Range
  <2>2. id \in Known(ledger.inFlight)
    BY <1>2, <2>1 DEF ApprovalInv, AllAreKnown
  <2>3. PICK e \in ledger.inFlight : e.id = id
    BY <2>2 DEF Known
  <2>4. ~e.settled
    BY <2>1, <2>3 DEF ApprovalInv, LedgerInv, SettledIsSent
  <2> QED  BY <2>3, <2>4 DEF ToBeShown, Unsettled
<1> QED  BY <1>1, <1>2 DEF ApprovalsSeen

(* What the turn waits for the operator can see, for any number of         *)
(* messages, approvals, questions, sessions and switches: every approval   *)
(* that is open and was not answered is of the cards to come, no card asks *)
(* again, and the question of the turn is on the screen.                   *)
THEOREM WaitsSeen == Spec => []WaitsAreSeen
BY InitApprovals, NextApprovals, ApprovalInvSuffices, TypesHold, QuestionsSeen, PTL
DEF Spec, WaitsAreSeen
=============================================================================
