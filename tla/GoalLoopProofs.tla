--------------------------- MODULE GoalLoopProofs ---------------------------
(***************************************************************************)
(* The types of the goal loop, that the goal's record reaches the disk,    *)
(* and - as long as no loop ended in the name of another - that the loop   *)
(* that drives is the one on the screen and that it and the operator keep  *)
(* out of each other's turns; for any number of goals, loops and turns.    *)
(***************************************************************************)
EXTENDS GoalLoop, SequenceTheorems, TLAPS

USE MaxTurnsAssumption, NoneAssumption

Record == GoalRun \union {None}

(***************************************************************************)
(* The invariant's parts.  A loop that is alive has a goal, and what it    *)
(* sends and what its goal had used fit the budget.                        *)
(***************************************************************************)
HasGoal == \A l \in Loops : pc[l] # "off" => goal[l] \in Goals
WithinBudget == \A l \in Loops : carried[l] + used[l] <= MaxTurns

(* The screen's record is the last one queued, or the one on disk.         *)
QueuedLast ==
  /\ writes # <<>> => goalRun = writes[Len(writes)]
  /\ writes = <<>> /\ ~lostWrite => goalRun = file

(* A message of the operator streams only while no goal drives.            *)
OperatorsTurn ==
  turnOf = "send" => status = "streaming" /\ (usurped \/ ~GoalDrives)

-----------------------------------------------------------------------------
(***************************************************************************)
(* The record and its queue.                                               *)
(***************************************************************************)

LEMMA SetKeeps ==
  ASSUME file \in Record, goalRun \in Record, writes \in Seq(Record), QueuedLast,
         NEW run \in Record, SetGoalRun(run), lostWrite' = lostWrite
  PROVE  /\ file' \in Record /\ goalRun' \in Record /\ writes' \in Seq(Record)
         /\ QueuedLast'
<1>1. CASE run = goalRun
  BY <1>1 DEF SetGoalRun, QueuedLast
<1>2. CASE run # goalRun
  <2>1. writes' = Append(writes, run) /\ goalRun' = run /\ file' = file
    BY <1>2 DEF SetGoalRun
  <2>2. /\ writes' \in Seq(Record)
        /\ Len(writes') = Len(writes) + 1 /\ writes'[Len(writes')] = run
        /\ writes' # <<>>
    BY <2>1
  <2> QED BY <2>1, <2>2 DEF QueuedLast
<1> QED BY <1>1, <1>2

LEMMA HeadLeaves ==
  ASSUME writes \in Seq(Record), QueuedLast, writes # <<>>, writes' = Tail(writes),
         goalRun' = goalRun, file' = Head(writes) \/ lostWrite'
  PROVE  writes' \in Seq(Record) /\ Head(writes) \in Record /\ QueuedLast'
<1>1. /\ Len(writes) \in Nat \ {0} /\ writes' \in Seq(Record)
      /\ Len(writes') = Len(writes) - 1 /\ Head(writes) = writes[1]
      /\ Head(writes) \in Record
  OBVIOUS
<1>2. CASE writes' = <<>>
  <2>1. Len(writes') = 0
    BY <1>1, <1>2, EmptySeq
  <2>2. Len(writes) = 1
    BY <1>1, <2>1
  <2> QED BY <1>1, <1>2, <2>2 DEF QueuedLast
<1>3. CASE writes' # <<>>
  <2>1. writes'[Len(writes')] = writes[Len(writes)]
    BY <1>1, <1>3
  <2> QED BY <1>1, <1>3, <2>1 DEF QueuedLast
<1> QED BY <1>2, <1>3

LEMMA LoadType ==
  ASSUME NEW stored \in Record
  PROVE  /\ LoadGoalRun(stored) \in Record
         /\ LoadGoalRun(stored) # None => LoadGoalRun(stored).status # "active"
BY DEF Record, LoadGoalRun, GoalRun, GoalStatus

LEMMA ShutdownType ==
  ASSUME goalRun \in Record, NEW l \in Loops, NEW final \in GoalStatus,
         NEW turns, carried[l] + turns \in Turns
  PROVE  /\ ShutdownRun(l, final, turns) \in Record
         /\ ShutdownRun(l, final, turns) # None =>
              ShutdownRun(l, final, turns).status = final
BY DEF Record, ShutdownRun, GoalRun, Turns
-----------------------------------------------------------------------------
(***************************************************************************)
(* Types, the budget and the record.                                       *)
(***************************************************************************)

TypeInv == TypeOK /\ HasGoal /\ WithinBudget /\ QueuedLast

LEMMA TypeInit == Init => TypeInv
<1> SUFFICES ASSUME Init PROVE TypeInv
  OBVIOUS
<1>1. writes \in Seq(GoalRun \union {None})
  BY EmptySeq DEF Init
<1>2. TypeOK
  <2>1. /\ carried \in [Loops -> Turns] /\ used \in [Loops -> Turns]
        /\ spent \in [Goals -> 0 .. MaxTurns + 1]
    BY DEF Init, Turns
  <2>2. /\ pc \in [Loops -> {"off", "starting", "ready", "sent", "polling", "judging"}]
        /\ goal \in [Loops -> Goals \union {None}]
        /\ stop \in [Loops -> BOOLEAN] /\ fresh \in [Loops -> BOOLEAN]
    BY DEF Init
  <2> QED BY <1>1, <2>1, <2>2 DEF Init, TypeOK
<1>3. HasGoal /\ WithinBudget /\ QueuedLast
  BY DEF Init, HasGoal, WithinBudget, QueuedLast
<1> QED BY <1>2, <1>3 DEF TypeInv

(* Every step that sets the record and the loops' variables.               *)
LEMMA RunKeeps ==
  ASSUME TypeInv, NEW l \in Loops, NEW g \in Goals, NEW turns \in Turns,
         RunGoalLoop(l, g, turns), lostWrite' = lostWrite, usurped' = usurped,
         spent' \in [Goals -> 0 .. MaxTurns + 1], forgot' \subseteq Goals
  PROVE  TypeInv'
<1> USE DEF TypeInv, TypeOK, Turns
<1>1. [goal |-> g, status |-> "active", turns |-> turns] \in Record
  BY DEF Record, GoalRun, GoalStatus
<1>2. file' \in Record /\ goalRun' \in Record /\ writes' \in Seq(Record) /\ QueuedLast'
  BY <1>1, SetKeeps DEF RunGoalLoop, Record
<1>3. TypeOK'
  BY <1>2 DEF RunGoalLoop, Record, agentVars
<1>4. HasGoal' /\ WithinBudget'
  BY DEF RunGoalLoop, HasGoal, WithinBudget
<1> QED BY <1>2, <1>3, <1>4

LEMMA EndKeeps ==
  ASSUME TypeInv, NEW l \in Loops, NEW final \in GoalStatus, NEW turns \in {0, used[l]},
         EndLoop(l, final, turns), pc[l] # "off"
  PROVE  TypeInv'
<1> USE DEF TypeInv, TypeOK, Turns
<1>1. carried[l] + turns \in Turns
  BY DEF WithinBudget
<1>2. ShutdownRun(l, final, turns) \in Record
  BY <1>1, ShutdownType DEF Record
<1>3. file' \in Record /\ goalRun' \in Record /\ writes' \in Seq(Record) /\ QueuedLast'
  BY <1>2, SetKeeps DEF EndLoop, Record
<1>4. forgot' \subseteq Goals
  BY DEF EndLoop, HasGoal
<1>5. TypeOK'
  BY <1>3, <1>4 DEF EndLoop, Record, agentVars, Usurps
<1>6. HasGoal' /\ WithinBudget'
  BY DEF EndLoop, HasGoal, WithinBudget
<1> QED BY <1>3, <1>5, <1>6

LEMMA StoredKeeps ==
  ASSUME TypeInv, NEW run \in Record, SetGoalRun(run), lostWrite' = lostWrite,
         UNCHANGED <<pc, goal, carried, used, fresh, expanding, history>>,
         stop' \in [Loops -> BOOLEAN], goalAbort' \in Loops \union {None},
         status' \in {"idle", "streaming", "error"}, seen' = seen,
         turnOf' \in Messages \union {"goal", "none"}
  PROVE  TypeInv'
<1> USE DEF TypeInv, TypeOK
<1>1. file' \in Record /\ goalRun' \in Record /\ writes' \in Seq(Record) /\ QueuedLast'
  BY SetKeeps DEF Record
<1>2. TypeOK'
  BY <1>1 DEF Record, history
<1>3. HasGoal' /\ WithinBudget'
  BY DEF HasGoal, WithinBudget
<1> QED BY <1>1, <1>2, <1>3

(* What moves a loop, or the agent, and leaves the record.                 *)
LEMMA MoveKeeps ==
  ASSUME TypeInv, UNCHANGED <<goal, carried, goalAbort, goalRun, diskVars, lostWrite>>,
         \A l \in Loops : pc'[l] # "off" => pc[l] # "off",
         \A l \in Loops : carried[l] + used'[l] <= MaxTurns,
         TypeOK'
  PROVE  TypeInv'
BY DEF TypeInv, HasGoal, WithinBudget, QueuedLast, diskVars

LEMMA TypeLoop ==
  ASSUME TypeInv, NEW l \in Loops, LoopStep(l)
  PROVE  TypeInv'
<1> USE DEF Turns, Messages, GoalStatus
<1>0. TypeOK /\ WithinBudget
  BY DEF TypeInv
<1>1. CASE DriveGoal(l)
  <2>1. CASE EndLoop(l, "ended", 0)
    BY <1>1, <2>1, EndKeeps DEF DriveGoal
  <2>2. CASE ~EndLoop(l, "ended", 0)
    <3>1. TypeOK'
      BY <1>0, <1>1, <2>2 DEF DriveGoal, TypeOK, agentVars, diskVars, history
    <3> QED BY <1>0, <1>1, <2>2, <3>1, MoveKeeps
            DEF DriveGoal, diskVars, history, WithinBudget, TypeOK
  <2> QED BY <2>1, <2>2
<1>2. CASE SendTurn(l)
  <2>1. used'[l] = used[l] + 1 /\ carried[l] + used[l] + 1 <= MaxTurns
        /\ \A m \in Loops : m # l => used'[m] = used[m]
    BY <1>0, <1>2 DEF SendTurn, Exhausted, WithinBudget, TypeOK
  <2>2. spent' \in [Goals -> 0 .. MaxTurns + 1]
    <3>1. \A g \in Goals : spent[g] \in 0 .. MaxTurns + 1
      BY <1>0 DEF TypeOK
    <3>2. \A g \in Goals :
            (IF spent[g] > MaxTurns THEN spent[g] ELSE spent[g] + 1) \in 0 .. MaxTurns + 1
      <4> TAKE g \in Goals
      <4>1. spent[g] \in Int /\ 0 <= spent[g] /\ spent[g] <= MaxTurns + 1
        BY <3>1
      <4>2. CASE spent[g] > MaxTurns
        BY <4>1, <4>2
      <4>3. CASE ~(spent[g] > MaxTurns)
        BY <4>1, <4>3
      <4> QED BY <4>2, <4>3
    <3>3. spent \in [Goals -> 0 .. MaxTurns + 1]
      BY <1>0 DEF TypeOK
    <3> QED BY <1>2, <3>2, <3>3 DEF SendTurn
  <2>3. TypeOK'
    BY <1>0, <1>2, <2>1, <2>2 DEF SendTurn, Send, TypeOK, diskVars
  <2>4. \A m \in Loops : carried[m] + used'[m] <= MaxTurns
    <3>1. \A m \in Loops : carried[m] \in Nat /\ used[m] \in Nat
      BY <1>0 DEF TypeOK
    <3> QED BY <1>0, <2>1, <3>1 DEF WithinBudget
  <2> QED BY <1>0, <1>2, <2>3, <2>4, MoveKeeps DEF SendTurn, TypeOK
<1>3. CASE RunnerStops(l)
  BY <1>3, EndKeeps DEF RunnerStops
<1>4. CASE WaitBegins(l)
  <2>1. TypeOK'
    BY <1>0, <1>4 DEF WaitBegins, TypeOK, agentVars, diskVars, history
  <2> QED BY <1>0, <1>4, <2>1, MoveKeeps
          DEF WaitBegins, diskVars, history, WithinBudget, TypeOK
<1>5. CASE Poll(l)
  <2>1. CASE seen = "error"
    BY <1>5, <2>1, EndKeeps DEF Poll
  <2>2. CASE seen # "error"
    <3>1. TypeOK'
      BY <1>0, <1>5, <2>2 DEF Poll, TypeOK, agentVars, diskVars, history
    <3> QED BY <1>0, <1>5, <2>2, <3>1, MoveKeeps
            DEF Poll, diskVars, history, WithinBudget, TypeOK
  <2> QED BY <2>1, <2>2
<1>6. CASE Judge(l)
  <2>1. CASE EndLoop(l, "ended", used[l])
    BY <1>6, <2>1, EndKeeps DEF Judge
  <2>2. CASE ~EndLoop(l, "ended", used[l])
    <3>1. TypeOK'
      BY <1>0, <1>6, <2>2 DEF Judge, TypeOK, agentVars, diskVars, history
    <3> QED BY <1>0, <1>6, <2>2, <3>1, MoveKeeps
            DEF Judge, diskVars, history, WithinBudget, TypeOK
  <2> QED BY <2>1, <2>2
<1> QED BY <1>1, <1>2, <1>3, <1>4, <1>5, <1>6 DEF LoopStep

LEMMA TypeOperator ==
  ASSUME TypeInv, Operator
  PROVE  TypeInv'
<1> USE DEF Turns, Messages
<1>0. /\ TypeOK /\ WithinBudget /\ None \in Record
      /\ stop \in [Loops -> BOOLEAN] /\ goalAbort \in Loops \union {None}
      /\ status \in {"idle", "streaming", "error"}
      /\ turnOf \in Messages \union {"goal", "none"}
      /\ \A m \in Loops : carried[m] + used[m] <= MaxTurns
  BY DEF TypeInv, TypeOK, WithinBudget, Record
<1>1. ASSUME NEW l \in Loops, ResumeGoal(l) PROVE TypeInv'
  <2>1. goalRun.goal \in Goals /\ goalRun.turns \in Turns
    BY <1>0, <1>1 DEF ResumeGoal, TypeOK, GoalRun
  <2> QED BY <1>0, <1>1, <2>1, RunKeeps DEF ResumeGoal, history, TypeOK
<1>2. ASSUME NEW l \in Loops, NEW g \in Goals, SetGoal(l, g) PROVE TypeInv'
  <2>1. /\ spent' \in [Goals -> 0 .. MaxTurns + 1] /\ forgot' \subseteq Goals
        /\ 0 \in Turns
    BY <1>0, <1>2 DEF SetGoal, TypeOK
  <2> QED BY <1>2, <2>1, RunKeeps DEF SetGoal
<1>3. StopLoop =>
        /\ stop' \in [Loops -> BOOLEAN]
        /\ AbortTurn => status' \in {"idle", "streaming", "error"}
  BY <1>0 DEF StopLoop, AbortTurn
<1>4. CASE PauseGoal
  <2>1. TypeOK'
    BY <1>0, <1>3, <1>4 DEF PauseGoal, AbortTurn, TypeOK, diskVars, history
  <2> QED BY <1>0, <1>4, <2>1, MoveKeeps DEF PauseGoal, diskVars, history
<1>5. CASE ClearGoal
  <2>1. CASE goalActive
    BY <1>0, <1>3, <1>5, <2>1, StoredKeeps DEF ClearGoal, AbortTurn, history
  <2>2. CASE ~goalActive
    BY <1>0, <1>5, <2>2, StoredKeeps DEF ClearGoal, agentVars, history
  <2> QED BY <2>1, <2>2
<1>6. CASE ResetConversation
  BY <1>0, <1>3, <1>6, StoredKeeps DEF ResetConversation, AbortTurn, history
<1>7. CASE InterruptTurn
  <2>1. TypeOK'
    BY <1>0, <1>7 DEF InterruptTurn, AbortTurn, TypeOK, loopVars, diskVars, history
  <2> QED BY <1>0, <1>7, <2>1, MoveKeeps DEF InterruptTurn, loopVars, diskVars, history
<1>8. CASE SendMessage \/ InitAgents
  <2>1. TypeOK'
    BY <1>0, <1>8 DEF SendMessage, InitAgents, OperatorSends, Send, TypeOK, loopVars, diskVars
  <2> QED BY <1>0, <1>8, <2>1, MoveKeeps
          DEF SendMessage, InitAgents, OperatorSends, loopVars, diskVars
<1>9. CASE SubmitCustom
  <2>1. TypeOK'
    BY <1>0, <1>9 DEF SubmitCustom, TypeOK, loopVars, agentVars, diskVars, history
  <2> QED BY <1>0, <1>9, <2>1, MoveKeeps DEF SubmitCustom, loopVars, diskVars, history
<1> QED BY <1>1, <1>2, <1>4, <1>5, <1>6, <1>7, <1>8, <1>9 DEF Operator

LEMMA TypeRelaunch ==
  ASSUME TypeInv, Relaunch
  PROVE  TypeInv'
<1>0. TypeOK /\ file \in Record /\ goalRun \in Record /\ HasGoal
  BY DEF TypeInv, TypeOK, Record
<1>1. LoadGoalRun(file) \in Record
  BY <1>0, LoadType
<1>2. writes' \in Seq(Record) /\ QueuedLast'
  <2>1. CASE LoadGoalRun(file) = file
    BY <2>1, EmptySeq DEF Relaunch, QueuedLast
  <2>2. CASE LoadGoalRun(file) # file
    BY <1>1, <2>2 DEF Relaunch, QueuedLast
  <2> QED BY <2>1, <2>2
<1>3. forgot' \subseteq Goals
  <2>1. \A l \in Loops : pc[l] # "off" => goal[l] \in Goals
    BY <1>0 DEF HasGoal
  <2>2. \A run \in {file, goalRun} \ {None} : run.goal \in Goals
    BY <1>0 DEF Record, GoalRun
  <2> QED BY <1>0, <2>1, <2>2 DEF Relaunch, TypeOK
<1>4. /\ carried' \in [Loops -> Turns] /\ used' \in [Loops -> Turns]
      /\ goal' \in [Loops -> Goals \union {None}]
      /\ \A l \in Loops : carried'[l] = 0 /\ used'[l] = 0 /\ pc'[l] = "off"
  BY DEF Relaunch, Turns
<1>5. TypeOK'
  BY <1>0, <1>1, <1>2, <1>3, <1>4 DEF Relaunch, TypeOK, Record
<1> QED BY <1>2, <1>4, <1>5 DEF TypeInv, HasGoal, WithinBudget

LEMMA TypeStep == TypeInv /\ [Next]_vars => TypeInv'
<1> SUFFICES ASSUME TypeInv, [Next]_vars PROVE TypeInv'
  OBVIOUS
<1>0. /\ TypeOK /\ QueuedLast /\ writes \in Seq(Record) /\ WithinBudget
      /\ \A l \in Loops : carried[l] + used[l] <= MaxTurns
  BY DEF TypeInv, TypeOK, Record, WithinBudget
<1>1. ASSUME NEW l \in Loops, LoopStep(l) PROVE TypeInv'
  BY <1>1, TypeLoop
<1>2. CASE TurnEnds
  <2>1. TypeOK'
    BY <1>0, <1>2 DEF TurnEnds, TypeOK, loopVars, diskVars, history
  <2> QED BY <1>0, <1>2, <2>1, MoveKeeps DEF TurnEnds, loopVars, diskVars, history
<1>3. CASE Render
  <2>1. TypeOK'
    BY <1>0, <1>3 DEF Render, TypeOK, diskVars, history
  <2> QED BY <1>0, <1>3, <2>1, MoveKeeps DEF Render, diskVars, history
<1>4. CASE WriteSettles \/ WriteFails
  <2>1. writes' \in Seq(Record) /\ Head(writes) \in Record /\ QueuedLast'
    BY <1>0, <1>4, HeadLeaves DEF WriteSettles, WriteFails
  <2>2. TypeOK'
    BY <1>0, <1>4, <2>1 DEF WriteSettles, WriteFails, TypeOK, Record, loopVars, agentVars
  <2>3. HasGoal' /\ WithinBudget'
    BY <1>4 DEF WriteSettles, WriteFails, loopVars, TypeInv, HasGoal, WithinBudget
  <2> QED BY <2>1, <2>2, <2>3 DEF TypeInv
<1>5. CASE Operator
  BY <1>5, TypeOperator
<1>6. CASE SendCustom
  <2>1. TypeOK'
    BY <1>0, <1>6 DEF SendCustom, OperatorSends, Send, TypeOK, loopVars, diskVars, Messages
  <2> QED BY <1>0, <1>6, <2>1, MoveKeeps DEF SendCustom, OperatorSends, loopVars, diskVars
<1>7. CASE ExpansionFails
  <2>1. TypeOK'
    BY <1>0, <1>7 DEF ExpansionFails, TypeOK, loopVars, agentVars, diskVars, history
  <2> QED BY <1>0, <1>7, <2>1, MoveKeeps DEF ExpansionFails, loopVars, diskVars, history
<1>8. CASE Relaunch
  BY <1>8, TypeRelaunch
<1>9. CASE UNCHANGED vars
  BY <1>9 DEF vars, code, loopVars, agentVars, diskVars, history, TypeInv, TypeOK,
              HasGoal, WithinBudget, QueuedLast
<1> QED BY <1>1, <1>2, <1>3, <1>4, <1>5, <1>6, <1>7, <1>8, <1>9 DEF Next

LEMMA TypeAlways == Spec => []TypeInv
BY TypeInit, TypeStep, PTL DEF Spec

(* The variables hold what they are meant to, and no run of a goal sends   *)
(* more turns than its budget has left.                                    *)
THEOREM TypeCorrect == Spec => []TypeOK
BY TypeAlways, PTL DEF TypeInv

(* The goal's record on disk is the one on the screen once the queue of    *)
(* writes is empty, unless the last write failed: no cleared goal returns. *)
THEOREM RecordKept == Spec => []RecordReachesDisk
<1>1. TypeInv => RecordReachesDisk
  BY DEF TypeInv, QueuedLast, RecordReachesDisk
<1> QED BY <1>1, TypeAlways, PTL
-----------------------------------------------------------------------------
(***************************************************************************)
(* The loop that drives.                                                   *)
(***************************************************************************)

ScreenInv == DriverIsOnScreen /\ OperatorsTurn

(* A step that starts and ends no loop, stops at most more of them, and    *)
(* leaves the ref and the record.                                          *)
LEMMA QuietKeeps ==
  ASSUME ScreenInv, UNCHANGED <<goal, goalAbort, goalRun, usurped>>,
         \A m \in Loops : (pc'[m] = "off" <=> pc[m] = "off") /\ (stop[m] => stop'[m]),
         goalAbort \in Loops \union {None},
         turnOf' = "send" =>
           status' = "streaming" /\ (turnOf = "send" \/ ~goalActive)
  PROVE  ScreenInv'
<1>1. \A m \in Loops : Driving(m)' => Driving(m)
  BY DEF Driving
<1>2. DriverIsOnScreen'
  BY <1>1 DEF ScreenInv, DriverIsOnScreen, goalActive
<1>3. OperatorsTurn'
  BY <1>1 DEF ScreenInv, DriverIsOnScreen, OperatorsTurn, GoalDrives
<1> QED BY <1>2, <1>3 DEF ScreenInv

(* A loop starts when no goal is active - so that none drives - and no     *)
(* turn streams.                                                           *)
LEMMA RunScreen ==
  ASSUME TypeInv, ScreenInv, ~goalActive, seen = status,
         NEW l \in Loops, NEW g \in Goals, NEW turns \in Turns,
         RunGoalLoop(l, g, turns), usurped' = usurped
  PROVE  ScreenInv'
<1>0. TypeOK
  BY DEF TypeInv
<1>1. /\ pc'[l] = "starting" /\ goal'[l] = g /\ stop'[l] = FALSE /\ goalAbort' = l
      /\ goalRun' = [goal |-> g, status |-> "active", turns |-> turns]
      /\ \A m \in Loops : m # l => pc'[m] = pc[m] /\ stop'[m] = stop[m]
  BY <1>0 DEF RunGoalLoop, SetGoalRun, TypeOK
<1>2. ~usurped => \A m \in Loops : m # l => ~Driving(m)'
  BY <1>1 DEF ScreenInv, DriverIsOnScreen, Driving
<1>3. goalRun' # None /\ goalRun'.status = "active" /\ goalRun'.goal = g
  <2>1. goalRun' \in GoalRun
    BY <1>1 DEF GoalRun, GoalStatus, Turns
  <2> QED BY <1>1, <2>1
<1>4. DriverIsOnScreen'
  BY <1>1, <1>2, <1>3 DEF DriverIsOnScreen, goalActive
<1>5. turnOf' # "send"
  BY DEF RunGoalLoop, agentVars, ScreenInv, OperatorsTurn
<1> QED BY <1>4, <1>5 DEF ScreenInv, OperatorsTurn

(* A loop that ends under its own goal, or under none, leaves no goal      *)
(* active; the others were told to stop before it.                         *)
LEMMA EndScreen ==
  ASSUME TypeInv, ScreenInv, NEW l \in Loops, NEW final \in {"paused", "ended"},
         NEW turns \in {0, used[l]}, EndLoop(l, final, turns)
  PROVE  ScreenInv'
<1>0. TypeOK /\ WithinBudget
  BY DEF TypeInv
<1>1. /\ pc'[l] = "off" /\ goalAbort' = None
      /\ \A m \in Loops : m # l =>
           pc'[m] = pc[m] /\ stop'[m] = stop[m] /\ goal'[m] = goal[m]
      /\ goalRun' = ShutdownRun(l, final, turns)
  BY <1>0 DEF EndLoop, SetGoalRun, TypeOK
<1>2. ~goalActive'
  <2>1. carried[l] + turns \in Turns
    BY <1>0 DEF TypeOK, WithinBudget, Turns
  <2> QED BY <1>0, <1>1, <2>1, ShutdownType DEF Record, TypeOK, GoalStatus, goalActive
<1>3. ~usurped' => \A m \in Loops : ~Driving(m)'
  <2>1. \A m \in Loops : m # l /\ Driving(m)' => Driving(m)
    BY <1>1 DEF Driving
  <2>2. ~usurped' => ~usurped /\ (goalAbort = l \/ goalAbort = None)
    BY DEF EndLoop, Usurps
  <2> QED BY <1>1, <2>1, <2>2 DEF ScreenInv, DriverIsOnScreen, Driving
<1>4. DriverIsOnScreen'
  BY <1>2, <1>3 DEF DriverIsOnScreen
<1>5. OperatorsTurn'
  BY <1>3 DEF ScreenInv, OperatorsTurn, EndLoop, agentVars, GoalDrives
<1> QED BY <1>4, <1>5 DEF ScreenInv

(* Clearing a goal, or the conversation, stops the loop the ref holds.     *)
LEMMA ClearScreen ==
  ASSUME TypeInv, ScreenInv, goalRun' = None, usurped' = usurped,
         UNCHANGED <<pc, goal>>,
         StopLoop \/ (~goalActive /\ stop' = stop),
         turnOf' = "send" => UNCHANGED <<turnOf, status>>
  PROVE  ScreenInv'
<1>1. \A m \in Loops : Driving(m)' => Driving(m) /\ (StopLoop => m # goalAbort)
  BY DEF Driving, StopLoop
<1>2. ~usurped => \A m \in Loops : ~Driving(m)'
  BY <1>1 DEF ScreenInv, DriverIsOnScreen
<1> QED BY <1>1, <1>2 DEF ScreenInv, DriverIsOnScreen, OperatorsTurn, GoalDrives, goalActive

LEMMA LoopScreen ==
  ASSUME TypeInv, ScreenInv, NEW l \in Loops, LoopStep(l)
  PROVE  ScreenInv'
<1>0. /\ TypeOK /\ pc \in [Loops -> {"off", "starting", "ready", "sent", "polling", "judging"}]
      /\ goalAbort \in Loops \union {None}
      /\ (turnOf = "send" => status = "streaming")
  BY DEF TypeInv, TypeOK, ScreenInv, OperatorsTurn
<1>1. CASE DriveGoal(l)
  <2>1. CASE EndLoop(l, "ended", 0)
    BY <2>1, EndScreen
  <2>2. CASE ~EndLoop(l, "ended", 0)
    BY <1>0, <1>1, <2>2, QuietKeeps DEF DriveGoal, agentVars, history
  <2> QED BY <2>1, <2>2
<1>2. CASE SendTurn(l)
  BY <1>0, <1>2, QuietKeeps DEF SendTurn, Send
<1>3. CASE RunnerStops(l)
  BY <1>3, EndScreen DEF RunnerStops
<1>4. CASE WaitBegins(l)
  BY <1>0, <1>4, QuietKeeps DEF WaitBegins, agentVars, history
<1>5. CASE Poll(l)
  <2>1. CASE seen = "error"
    BY <1>5, <2>1, EndScreen DEF Poll
  <2>2. CASE seen # "error"
    BY <1>0, <1>5, <2>2, QuietKeeps DEF Poll, agentVars, history
  <2> QED BY <2>1, <2>2
<1>6. CASE Judge(l)
  <2>1. CASE EndLoop(l, "ended", used[l])
    BY <2>1, EndScreen
  <2>2. CASE ~EndLoop(l, "ended", used[l])
    BY <1>0, <1>6, <2>2, QuietKeeps DEF Judge, agentVars, history
  <2> QED BY <2>1, <2>2
<1> QED BY <1>1, <1>2, <1>3, <1>4, <1>5, <1>6 DEF LoopStep

LEMMA ScreenStep == TypeInv /\ ScreenInv /\ [Next]_vars => ScreenInv'
<1> SUFFICES ASSUME TypeInv, ScreenInv, [Next]_vars PROVE ScreenInv'
  OBVIOUS
<1>0. /\ TypeOK /\ goalAbort \in Loops \union {None}
      /\ (turnOf = "send" => status = "streaming")
  BY DEF TypeInv, TypeOK, ScreenInv, OperatorsTurn
<1>1. ASSUME NEW l \in Loops, LoopStep(l) PROVE ScreenInv'
  BY <1>1, LoopScreen
<1>2. CASE TurnEnds
  BY <1>0, <1>2, QuietKeeps DEF TurnEnds, loopVars, history
<1>3. CASE Render
  BY <1>0, <1>3, QuietKeeps DEF Render, history
<1>4. CASE WriteSettles \/ WriteFails
  BY <1>0, <1>4, QuietKeeps DEF WriteSettles, WriteFails, loopVars, agentVars
<1>5. CASE SendCustom \/ ExpansionFails
  BY <1>0, <1>5, QuietKeeps
     DEF SendCustom, ExpansionFails, OperatorSends, Send, loopVars, agentVars, history
<1>6. CASE Relaunch
  <2>1. \A m \in Loops : ~Driving(m)'
    BY <1>6 DEF Relaunch, Driving
  <2>2. ~goalActive'
    BY <1>0, <1>6, LoadType DEF Relaunch, goalActive, TypeOK, Record
  <2> QED BY <1>6, <2>1, <2>2 DEF Relaunch, ScreenInv, DriverIsOnScreen, OperatorsTurn
<1>7. CASE Operator
  <2>0. seen = status
    BY <1>7 DEF Operator
  <2>1. ASSUME NEW l \in Loops, ResumeGoal(l) PROVE ScreenInv'
    <3>1. goalRun.goal \in Goals /\ goalRun.turns \in Turns
      BY <1>0, <2>1 DEF ResumeGoal, TypeOK, GoalRun, Turns
    <3> QED BY <2>0, <2>1, <3>1, RunScreen DEF ResumeGoal, history
  <2>2. ASSUME NEW l \in Loops, NEW g \in Goals, SetGoal(l, g) PROVE ScreenInv'
    <3>1. 0 \in Turns
      BY DEF Turns
    <3> QED BY <2>0, <2>2, <3>1, RunScreen DEF SetGoal
  <2>3. CASE PauseGoal
    <3>1. \A m \in Loops : stop[m] => stop'[m]
      BY <2>3 DEF PauseGoal, StopLoop
    <3> QED BY <1>0, <2>3, <3>1, QuietKeeps DEF PauseGoal, AbortTurn, history
  <2>4. CASE ClearGoal
    <3>1. /\ goalRun' = None /\ usurped' = usurped /\ UNCHANGED <<pc, goal>>
          /\ StopLoop \/ (~goalActive /\ stop' = stop)
          /\ turnOf' = "send" => UNCHANGED <<turnOf, status>>
      BY <2>4 DEF ClearGoal, SetGoalRun, AbortTurn, agentVars, history
    <3> QED BY <3>1, ClearScreen
  <2>5. CASE ResetConversation
    <3>1. /\ goalRun' = None /\ usurped' = usurped /\ UNCHANGED <<pc, goal>>
          /\ StopLoop /\ turnOf' # "send"
      BY <2>5 DEF ResetConversation, SetGoalRun, AbortTurn, history
    <3> QED BY <3>1, ClearScreen
  <2>6. CASE InterruptTurn
    BY <1>0, <2>6, QuietKeeps DEF InterruptTurn, AbortTurn, loopVars, history
  <2>7. CASE SendMessage \/ InitAgents
    BY <1>0, <2>7, QuietKeeps DEF SendMessage, InitAgents, OperatorSends, Send, loopVars
  <2>8. CASE SubmitCustom
    BY <1>0, <2>8, QuietKeeps DEF SubmitCustom, loopVars, agentVars, history
  <2> QED BY <1>7, <2>1, <2>2, <2>3, <2>4, <2>5, <2>6, <2>7, <2>8 DEF Operator
<1>8. CASE UNCHANGED vars
  BY <1>8, <1>0, QuietKeeps DEF vars, code, loopVars, agentVars, history
<1> QED BY <1>1, <1>2, <1>3, <1>4, <1>5, <1>6, <1>7, <1>8 DEF Next

LEMMA ScreenAlways == Spec => [](TypeInv /\ ScreenInv)
<1>1. Init => ScreenInv
  BY DEF Init, ScreenInv, DriverIsOnScreen, OperatorsTurn, Driving, goalActive
<1> QED BY <1>1, TypeInit, TypeStep, ScreenStep, PTL DEF Spec

(* As long as no loop ended in the name of another, at most one loop       *)
(* drives, it is the one that Esc and the /goal verbs reach, and the goal  *)
(* on the screen is its goal.                                              *)
THEOREM OneDriver == Spec => []DriverIsOnScreen
BY ScreenAlways, PTL DEF ScreenInv

(* And no message of the operator, and no /retry, reaches the agent while  *)
(* a goal drives it.                                                       *)
THEOREM OperatorWaits == Spec => MessagesRefused
<1>1. ScreenInv /\ [Next]_vars => [SendMessage => usurped \/ ~GoalDrives]_vars
  BY DEF ScreenInv, DriverIsOnScreen, SendMessage, GoalDrives
<1> QED BY <1>1, ScreenAlways, PTL DEF MessagesRefused, Spec

(* And no goal sends a turn over a turn of the operator's.                 *)
THEOREM GoalWaits == Spec => WaitsForTheOperator
<1>1. ScreenInv /\ [Next]_vars =>
        [\A l \in Loops : SendTurn(l) => usurped \/ turnOf # "send"]_vars
  <2> SUFFICES ASSUME ScreenInv, NEW l \in Loops, SendTurn(l), turnOf = "send"
               PROVE  usurped
    OBVIOUS
  <2> QED BY DEF ScreenInv, OperatorsTurn, SendTurn, GoalDrives, Driving
<1> QED BY <1>1, ScreenAlways, PTL DEF WaitsForTheOperator, Spec
-----------------------------------------------------------------------------
(***************************************************************************)
(* What a goal costs.                                                      *)
(***************************************************************************)

(* While a loop drives the goal on the screen, the record holds the turns  *)
(* the loop started from; once it is over, those it told.                  *)
Driver ==
  goalRun # None /\ goalAbort # None =>
    goalActive /\ goal[goalAbort] = goalRun.goal /\ goalRun.turns = carried[goalAbort]

Told == goalRun.turns + (IF goalAbort = None THEN 0 ELSE used[goalAbort])

CostsTold ==
  goalRun # None => goalRun.goal \in forgot \/ spent[goalRun.goal] <= Told

CostInv == (usurped \/ (Driver /\ CostsTold)) /\ GoalTurnsBounded

(* What sends no turn of a goal and leaves the record and its loop.        *)
LEMMA CostQuiet ==
  ASSUME CostInv, UNCHANGED <<goal, carried, used, goalAbort, goalRun, forgot, usurped, spent>>
  PROVE  CostInv'
BY DEF CostInv, Driver, Told, CostsTold, GoalTurnsBounded, goalActive

(* A loop that ends as the one of the record adds what it used to it, or   *)
(* its goal is one of those with turns on no record.                       *)
LEMMA CostEnd ==
  ASSUME TypeInv, CostInv, NEW l \in Loops, NEW final \in {"paused", "ended"},
         NEW turns \in {0, used[l]}, EndLoop(l, final, turns)
  PROVE  CostInv'
<1>1. TypeOK /\ carried[l] \in Nat /\ used[l] \in Nat
  BY DEF TypeInv, TypeOK, Turns
<1>2. /\ goalAbort' = None /\ spent' = spent /\ forgot \subseteq forgot'
      /\ usurped' = (usurped \/ Usurps(l)) /\ goalRun' = ShutdownRun(l, final, turns)
      /\ turns < used[l] => goal[l] \in forgot'
  BY DEF EndLoop, SetGoalRun
<1>3. GoalTurnsBounded'
  BY <1>2 DEF CostInv, GoalTurnsBounded
<1>4. ASSUME ~usurped', goalRun' # None
      PROVE  goalRun'.goal \in forgot' \/ spent'[goalRun'.goal] <= Told'
  <2>1. ~usurped /\ goalRun # None /\ goalAbort = l
    BY <1>2, <1>4 DEF Usurps, ShutdownRun
  <2>2. goalRun \in GoalRun
    BY <1>1, <2>1 DEF TypeOK
  <2>3. goalRun'.goal = goalRun.goal /\ goalRun'.turns = carried[l] + turns
    BY <1>2, <2>1, <2>2 DEF ShutdownRun, GoalRun
  <2>4. /\ goal[l] = goalRun.goal /\ goalRun.turns = carried[l]
        /\ goal[l] \in forgot \/ spent[goal[l]] <= carried[l] + used[l]
    <3>1. l # None
      OBVIOUS
    <3> QED BY <2>1, <3>1 DEF CostInv, Driver, CostsTold, Told
  <2>5. CASE turns < used[l]
    BY <1>2, <2>3, <2>4, <2>5
  <2>6. CASE turns = used[l]
    <3>1. Told' = carried[l] + used[l]
      BY <1>1, <1>2, <2>3, <2>6 DEF Told
    <3> QED BY <1>2, <2>3, <2>4, <3>1
  <2> QED BY <1>1, <2>5, <2>6
<1> QED BY <1>2, <1>3, <1>4 DEF CostInv, Driver, CostsTold

(* A loop starts from what its goal has cost: nothing, or what the record  *)
(* says.                                                                   *)
LEMMA CostRun ==
  ASSUME TypeInv, CostInv, NEW l \in Loops, NEW g \in Goals, NEW turns \in Turns,
         RunGoalLoop(l, g, turns), usurped' = usurped, GoalTurnsBounded',
         usurped \/ g \in forgot' \/ spent'[g] <= turns
  PROVE  CostInv'
<1>1. TypeOK
  BY DEF TypeInv
<1>2. /\ goal'[l] = g /\ carried'[l] = turns /\ used'[l] = 0 /\ goalAbort' = l
      /\ goalRun' = [goal |-> g, status |-> "active", turns |-> turns]
  BY <1>1 DEF RunGoalLoop, SetGoalRun, TypeOK
<1>3. goalRun' # None /\ goalActive' /\ goalAbort' # None
  <2>1. goalRun' \in GoalRun
    BY <1>2 DEF GoalRun, GoalStatus, Turns
  <2> QED BY <1>2, <2>1 DEF goalActive
<1>4. Driver' /\ Told' = turns
  BY <1>2, <1>3 DEF Driver, Told, Turns
<1> QED BY <1>2, <1>4 DEF CostInv, CostsTold

LEMMA CostClear ==
  ASSUME CostInv, goalRun' = None, UNCHANGED <<usurped, forgot, spent>>
  PROVE  CostInv'
BY DEF CostInv, Driver, CostsTold, GoalTurnsBounded

(* The loop that sends is the one on the screen, and its budget is left.   *)
LEMMA CostSend ==
  ASSUME TypeInv, ScreenInv, CostInv, NEW l \in Loops, SendTurn(l)
  PROVE  CostInv'
<1>1. /\ TypeOK /\ carried[l] \in Nat /\ used[l] \in Nat /\ used[l] # MaxTurns - carried[l]
      /\ carried[l] + used[l] <= MaxTurns /\ goal[l] \in Goals
  BY DEF TypeInv, TypeOK, Turns, WithinBudget, HasGoal, SendTurn, Exhausted
<1>2. /\ used' = [used EXCEPT ![l] = used[l] + 1] /\ forgot' = forgot /\ usurped' = usurped
      /\ UNCHANGED <<goal, carried, goalAbort, goalRun>>
      /\ spent' = [spent EXCEPT ![goal[l]] =
                      IF spent[goal[l]] > MaxTurns THEN spent[goal[l]] ELSE spent[goal[l]] + 1]
  BY DEF SendTurn
<1>3. \A g \in Goals : spent[g] \in Nat
  BY <1>1 DEF TypeOK
<1>4. CASE usurped
  BY <1>2, <1>4 DEF CostInv, GoalTurnsBounded
<1>5. CASE ~usurped
  <2>1. /\ goalAbort = l /\ goalRun # None /\ goalRun.goal = goal[l]
        /\ Driver /\ goalAbort # None
        /\ goal[l] \in forgot \/ spent[goal[l]] <= carried[l] + used[l]
    BY <1>5 DEF ScreenInv, DriverIsOnScreen, CostInv, CostsTold, Told, Driver, Driving,
                SendTurn, goalActive
  <2>2. goal[l] \in forgot \/ spent'[goal[l]] <= carried[l] + used[l] + 1
    BY <1>1, <1>2, <1>3, <2>1 DEF TypeOK
  <2>3. Driver' /\ Told' = carried[l] + used[l] + 1
    BY <1>1, <1>2, <2>1 DEF Driver, Told, TypeOK, goalActive
  <2>4. CostsTold'
    BY <1>2, <2>1, <2>2, <2>3 DEF CostsTold
  <2>5. GoalTurnsBounded'
    <3> SUFFICES ASSUME NEW g \in Goals, spent'[g] > MaxTurns PROVE g \in forgot
      BY <1>2 DEF GoalTurnsBounded
    <3>1. CASE g = goal[l]
      BY <1>1, <1>2, <1>3, <2>2, <3>1
    <3>2. CASE g # goal[l]
      BY <1>1, <1>2, <1>5, <3>2 DEF CostInv, GoalTurnsBounded, TypeOK
    <3> QED BY <3>1, <3>2
  <2> QED BY <2>3, <2>4, <2>5 DEF CostInv
<1> QED BY <1>4, <1>5

LEMMA CostLoop ==
  ASSUME TypeInv, ScreenInv, CostInv, NEW l \in Loops, LoopStep(l)
  PROVE  CostInv'
<1>1. CASE DriveGoal(l)
  BY <1>1, CostEnd, CostQuiet DEF DriveGoal, history
<1>2. CASE SendTurn(l)
  BY <1>2, CostSend
<1>3. CASE RunnerStops(l)
  BY <1>3, CostEnd DEF RunnerStops
<1>4. CASE WaitBegins(l)
  BY <1>4, CostQuiet DEF WaitBegins, history
<1>5. CASE Poll(l)
  BY <1>5, CostEnd, CostQuiet DEF Poll, history
<1>6. CASE Judge(l)
  BY <1>6, CostEnd, CostQuiet DEF Judge, history
<1> QED BY <1>1, <1>2, <1>3, <1>4, <1>5, <1>6 DEF LoopStep

(* What comes back is the record that was on the screen, and its loop sent *)
(* nothing; or its goal is one of those with turns on no record.           *)
LEMMA CostRelaunch ==
  ASSUME TypeInv, ScreenInv, CostInv, Relaunch
  PROVE  CostInv'
<1>1. TypeOK
  BY DEF TypeInv
<1>2. /\ goalAbort' = None /\ goalRun' = LoadGoalRun(file) /\ spent' = spent
      /\ ~usurped => forgot \subseteq forgot'
      /\ usurped => forgot' = Goals
  BY DEF Relaunch
<1>3. GoalTurnsBounded'
  BY <1>2 DEF CostInv, GoalTurnsBounded
<1>4. ASSUME goalRun' # None, goalRun'.goal \notin forgot'
      PROVE  spent'[goalRun'.goal] <= goalRun'.turns
  <2>1. /\ file \in GoalRun /\ file # None
        /\ goalRun'.goal = file.goal /\ goalRun'.turns = file.turns
    BY <1>1, <1>2, <1>4 DEF LoadGoalRun, TypeOK, GoalRun
  <2>2. file = goalRun /\ ~usurped /\ file.goal \notin forgot
    BY <1>4, <2>1 DEF Relaunch, GoalRun
  <2>3. \A l \in Loops : pc[l] # "off" /\ goal[l] = file.goal => ~(used[l] > 0)
    <3>1. {goal[l] : l \in {m \in Loops : pc[m] # "off" /\ used[m] > 0}} \subseteq forgot'
      BY <2>2 DEF Relaunch
    <3> QED BY <1>4, <2>1, <3>1
  <2>4. spent[goalRun.goal] <= Told
    BY <2>1, <2>2 DEF CostInv, CostsTold
  <2>5. goalRun.turns \in Nat
    BY <2>1, <2>2 DEF GoalRun
  <2>6. CASE goalAbort = None
    BY <1>2, <2>1, <2>2, <2>4, <2>5, <2>6 DEF Told
  <2>7. CASE goalAbort # None
    <3>1. goalAbort \in Loops /\ goalActive /\ goal[goalAbort] = file.goal
      BY <1>1, <2>1, <2>2, <2>7 DEF CostInv, Driver, TypeOK
    <3>2. pc[goalAbort] # "off"
      BY <2>2, <3>1 DEF ScreenInv, DriverIsOnScreen
    <3>3. used[goalAbort] = 0
      BY <1>1, <2>3, <3>1, <3>2 DEF TypeOK, Turns
    <3> QED BY <1>2, <2>1, <2>2, <2>4, <2>5, <2>7, <3>3 DEF Told
  <2> QED BY <2>6, <2>7
<1>5. CostsTold'
  <2>1. goalRun' # None => goalRun'.turns \in Nat
    BY <1>1, <1>2 DEF LoadGoalRun, TypeOK, GoalRun
  <2> QED BY <1>2, <1>4, <2>1 DEF CostsTold, Told
<1> QED BY <1>2, <1>3, <1>5 DEF CostInv, Driver

LEMMA CostStep == TypeInv /\ ScreenInv /\ CostInv /\ [Next]_vars => CostInv'
<1> SUFFICES ASSUME TypeInv, ScreenInv, CostInv, [Next]_vars PROVE CostInv'
  OBVIOUS
<1>0. TypeOK
  BY DEF TypeInv
<1>1. ASSUME NEW l \in Loops, LoopStep(l) PROVE CostInv'
  BY <1>1, CostLoop
<1>2. CASE TurnEnds \/ Render \/ WriteSettles \/ WriteFails \/ SendCustom \/ ExpansionFails
  BY <1>2, CostQuiet DEF TurnEnds, Render, WriteSettles, WriteFails, SendCustom,
     ExpansionFails, OperatorSends, loopVars, history
<1>3. CASE Relaunch
  BY <1>3, CostRelaunch
<1>4. CASE Operator
  <2>1. ASSUME NEW l \in Loops, ResumeGoal(l) PROVE CostInv'
    <3>1. /\ goalRun.goal \in Goals /\ goalRun.turns \in Turns /\ goalRun.turns \in Nat
          /\ GoalTurnsBounded'
      BY <1>0, <2>1 DEF ResumeGoal, TypeOK, GoalRun, Turns, CostInv, GoalTurnsBounded, history
    <3>2. usurped \/ goalRun.goal \in forgot' \/ spent'[goalRun.goal] <= goalRun.turns
      BY <2>1, <3>1 DEF ResumeGoal, CostInv, Driver, CostsTold, Told, history
    <3> QED BY <2>1, <3>1, <3>2, CostRun DEF ResumeGoal, history
  <2>2. ASSUME NEW l \in Loops, NEW g \in Goals, SetGoal(l, g) PROVE CostInv'
    <3>1. 0 \in Turns /\ spent'[g] = 0 /\ GoalTurnsBounded'
      BY <1>0, <2>2 DEF SetGoal, TypeOK, Turns, CostInv, GoalTurnsBounded
    <3> QED BY <2>2, <3>1, CostRun DEF SetGoal
  <2>3. CASE ClearGoal \/ ResetConversation
    BY <2>3, CostClear DEF ClearGoal, ResetConversation, SetGoalRun, history
  <2>4. CASE PauseGoal \/ InterruptTurn \/ SendMessage \/ InitAgents \/ SubmitCustom
    BY <2>4, CostQuiet DEF PauseGoal, InterruptTurn, SendMessage, InitAgents, SubmitCustom,
       OperatorSends, loopVars, history
  <2> QED BY <1>4, <2>1, <2>2, <2>3, <2>4 DEF Operator
<1>5. CASE UNCHANGED vars
  BY <1>5, CostQuiet DEF vars, code, loopVars, history
<1> QED BY <1>1, <1>2, <1>3, <1>4, <1>5 DEF Next

(* As long as no loop ended in the name of another, a goal sends MaxTurns  *)
(* turns at most between /goal and its end, through every pause and        *)
(* resumption, unless turns of it are on no record.                        *)
THEOREM CostBounded == Spec => []GoalTurnsBounded
<1>1. Init => CostInv
  BY DEF Init, CostInv, Driver, CostsTold, GoalTurnsBounded
<1>2. CostInv => GoalTurnsBounded
  BY DEF CostInv
<1> QED BY <1>1, <1>2, ScreenAlways, CostStep, PTL DEF Spec
=============================================================================
