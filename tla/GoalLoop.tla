------------------------------ MODULE GoalLoop ------------------------------
(***************************************************************************)
(* The goal of a TUI (/goal): loops that send turn after turn through the  *)
(* conversation's one agent, the record of the goal that the screen shows  *)
(* and the disk keeps, and the commands that start, pause, resume and      *)
(* clear it while loops that were told to stop are still winding down.     *)
(*                                                                         *)
(* A step is what runs between two awaits of the one JavaScript thread.    *)
(***************************************************************************)
EXTENDS Naturals, Sequences

CONSTANTS
  Goals,      \* objectives
  Loops,      \* the loops that can be alive at once
  MaxTurns,   \* GOAL_DEFAULTS.maxTurns
  MaxWrites,  \* bound of the model: writes waiting in the queue
  None        \* no loop, no goal, no turn

ASSUME MaxTurnsAssumption == MaxTurns \in Nat \ {0}
(* "ended" is completed, failed, budget_limited or blocked: what reads a    *)
(* goal's status asks whether it is active, and shows the word.            *)
GoalStatus == {"active", "paused", "ended"}
GoalRun == [goal : Goals, status : GoalStatus, turns : 0 .. MaxTurns]

ASSUME NoneAssumption == None \notin Loops \union Goals \union GoalRun

VARIABLES
  pc,         \* where each loop is
  goal,       \* the objective it was given
  carried,    \* the turns its goal had used before it
  used,       \* the turns it has sent
  stop,       \* its AbortController has fired
  fresh,      \* the screen was rendered since it last sent
  goalAbort,  \* the loop whose controller the ref holds
  goalRun,    \* the goal on the screen
  status,     \* the agent store's status
  seen,       \* the status at the last render, which agentRef holds
  turnOf,     \* who sent the turn that is streaming: a goal, or the operator, how
  expanding,  \* a custom command's template is being expanded
  file,       \* tui-goal.json
  writes      \* the writes queued behind it

loopVars == <<pc, goal, carried, used, stop, fresh>>
agentVars == <<status, seen, turnOf>>
diskVars == <<file, writes>>
code == <<loopVars, goalAbort, goalRun, agentVars, expanding, diskVars>>

(***************************************************************************)
(* History: the turns each goal has cost since it was set, the goals some  *)
(* of whose turns are on no record, whether a loop ever ended in the name  *)
(* of another, and whether the last write to settle was lost.              *)
(***************************************************************************)
VARIABLES spent, forgot, usurped, lostWrite

history == <<spent, forgot, usurped, lostWrite>>
vars == <<code, history>>

Turns == 0 .. MaxTurns
Messages == {"send", "init", "custom"}

TypeOK ==
  /\ pc \in [Loops -> {"off", "starting", "ready", "sent", "polling", "judging"}]
  /\ goal \in [Loops -> Goals \union {None}]
  /\ carried \in [Loops -> Turns]
  /\ used \in [Loops -> Turns]
  /\ stop \in [Loops -> BOOLEAN]
  /\ fresh \in [Loops -> BOOLEAN]
  /\ goalAbort \in Loops \union {None}
  /\ goalRun \in GoalRun \union {None}
  /\ status \in {"idle", "streaming", "error"}
  /\ seen \in {"idle", "streaming", "error"}
  /\ turnOf \in Messages \union {"goal", "none"}
  /\ expanding \in BOOLEAN
  /\ file \in GoalRun \union {None}
  /\ writes \in Seq(GoalRun \union {None})
  /\ spent \in [Goals -> 0 .. MaxTurns + 1]
  /\ forgot \subseteq Goals
  /\ usurped \in BOOLEAN
  /\ lostWrite \in BOOLEAN

(* An active goal comes back paused: the loop that drove it is gone.       *)
LoadGoalRun(stored) ==
  IF stored = None THEN None
  ELSE IF stored.status = "active" THEN [stored EXCEPT !.status = "paused"] ELSE stored

Init ==
  /\ pc = [l \in Loops |-> "off"]
  /\ goal = [l \in Loops |-> None]
  /\ carried = [l \in Loops |-> 0]
  /\ used = [l \in Loops |-> 0]
  /\ stop = [l \in Loops |-> FALSE]
  /\ fresh = [l \in Loops |-> FALSE]
  /\ goalAbort = None
  /\ goalRun = None
  /\ status = "idle" /\ seen = "idle" /\ turnOf = "none"
  /\ expanding = FALSE
  /\ file = None /\ writes = <<>>
  /\ spent = [g \in Goals |-> 0]
  /\ forgot = {}
  /\ usurped = FALSE
  /\ lostWrite = FALSE

goalActive == goalRun # None /\ goalRun.status = "active"

(* A loop that has not been told to stop.                                  *)
Driving(l) == pc[l] # "off" /\ ~stop[l]

(* Setting the record draws it and queues its write, in the order of the   *)
(* sets.  Setting what is already there renders nothing and writes nothing.*)
SetGoalRun(run) ==
  /\ run # goalRun => Len(writes) < MaxWrites
  /\ goalRun' = run
  /\ writes' = IF run = goalRun THEN writes ELSE Append(writes, run)
  /\ UNCHANGED file

-----------------------------------------------------------------------------
(***************************************************************************)
(* The agent store.                                                        *)
(***************************************************************************)

Send(sender) ==
  /\ status' = "streaming"
  /\ turnOf' = sender
  /\ UNCHANGED seen

(* An abort, or a reset of the conversation, leaves the store idle.        *)
AbortTurn ==
  /\ status' = IF status = "streaming" THEN "idle" ELSE status
  /\ turnOf' = "none"
  /\ UNCHANGED seen

TurnEnds ==
  /\ status = "streaming"
  /\ status' \in {"idle", "error"}
  /\ turnOf' = "none"
  /\ UNCHANGED <<loopVars, goalAbort, goalRun, seen, expanding, diskVars, history>>

(* A render stores the agent's snapshot in agentRef.                       *)
Render ==
  /\ seen # status \/ \E l \in Loops : pc[l] = "sent" /\ ~fresh[l]
  /\ seen' = status
  /\ fresh' = [l \in Loops |-> pc[l] = "sent"]
  /\ UNCHANGED <<pc, goal, carried, used, stop, goalAbort, goalRun, status,
                 turnOf, expanding, diskVars, history>>

-----------------------------------------------------------------------------
(***************************************************************************)
(* A loop.                                                                 *)
(***************************************************************************)

(* Defect: the run does not wait for a turn that is streaming.             *)
RunGoalLoop_Impatient(l, g, turns) ==
  /\ pc[l] = "off"
  /\ pc' = [pc EXCEPT ![l] = "starting"]
  /\ goal' = [goal EXCEPT ![l] = g]
  /\ carried' = [carried EXCEPT ![l] = turns]
  /\ used' = [used EXCEPT ![l] = 0]
  /\ stop' = [stop EXCEPT ![l] = FALSE]
  /\ goalAbort' = l
  /\ SetGoalRun([goal |-> g, status |-> "active", turns |-> turns])
  /\ UNCHANGED <<fresh, agentVars, expanding>>

RunGoalLoop(l, g, turns) ==
  /\ pc[l] = "off"
  /\ seen # "streaming"
  /\ pc' = [pc EXCEPT ![l] = "starting"]
  /\ goal' = [goal EXCEPT ![l] = g]
  /\ carried' = [carried EXCEPT ![l] = turns]
  /\ used' = [used EXCEPT ![l] = 0]
  /\ stop' = [stop EXCEPT ![l] = FALSE]
  /\ goalAbort' = l
  /\ SetGoalRun([goal |-> g, status |-> "active", turns |-> turns])
  /\ UNCHANGED <<fresh, agentVars, expanding>>

(* What a loop's end does to the record on the screen, whoever it is of.   *)
ShutdownRun(l, final, turns) ==
  IF goalRun = None THEN None
  ELSE [goalRun EXCEPT !.status = final, !.turns = carried[l] + turns]

Usurps(l) == (goalRun # None \/ goalAbort # None) /\ goalAbort # l

(* The `finally`: the ref is cleared and the record closed.                *)
EndLoop(l, final, turns) ==
  /\ pc' = [pc EXCEPT ![l] = "off"]
  /\ goal' = [goal EXCEPT ![l] = None]
  /\ carried' = [carried EXCEPT ![l] = 0]
  /\ used' = [used EXCEPT ![l] = 0]
  /\ stop' = [stop EXCEPT ![l] = FALSE]
  /\ fresh' = [fresh EXCEPT ![l] = FALSE]
  /\ goalAbort' = None
  /\ SetGoalRun(ShutdownRun(l, final, turns))
  /\ usurped' = (usurped \/ Usurps(l))
  /\ forgot' = IF turns < used[l] THEN forgot \union {goal[l]} ELSE forgot
  /\ UNCHANGED <<agentVars, expanding, spent, lostWrite>>

(* The modules are imported, the credential resolved: any of it may throw. *)
(* What is left of the goal's turns is its budget, and nothing may be.     *)
DriveGoal(l) ==
  /\ pc[l] = "starting"
  /\ \/ EndLoop(l, "ended", 0)
     \/ /\ carried[l] < MaxTurns
        /\ pc' = [pc EXCEPT ![l] = "ready"]
        /\ UNCHANGED <<goal, carried, used, stop, fresh, goalAbort, goalRun,
                       agentVars, expanding, diskVars, history>>

(* Defect: what the goal used before a pause is not counted.               *)
Exhausted_ThisRunOnly(l) == used[l] = MaxTurns

Exhausted(l) == used[l] = MaxTurns - carried[l]

SendTurn(l) ==
  /\ pc[l] = "ready" /\ ~stop[l] /\ ~Exhausted(l)
  /\ pc' = [pc EXCEPT ![l] = "sent"]
  /\ used' = [used EXCEPT ![l] = @ + 1]
  /\ fresh' = [fresh EXCEPT ![l] = FALSE]
  /\ Send("goal")
  /\ spent' = [spent EXCEPT ![goal[l]] = IF @ > MaxTurns THEN @ ELSE @ + 1]
  /\ UNCHANGED <<goal, carried, stop, goalAbort, goalRun, expanding, diskVars,
                 forgot, usurped, lostWrite>>

RunnerStops(l) ==
  /\ pc[l] = "ready"
  /\ \/ stop[l] /\ EndLoop(l, "paused", used[l])
     \/ ~stop[l] /\ Exhausted(l) /\ EndLoop(l, "ended", used[l])

(* The first wait: until the snapshot shows a turn, or its end, or a turn  *)
(* of somebody else - or an error, which may be that of the turn before.   *)
WaitBegins(l) ==
  /\ pc[l] = "sent"
  /\ fresh[l] \/ seen # "idle"
  /\ pc' = [pc EXCEPT ![l] = "polling"]
  /\ fresh' = [fresh EXCEPT ![l] = FALSE]
  /\ UNCHANGED <<goal, carried, used, stop, goalAbort, goalRun, agentVars,
                 expanding, diskVars, history>>

(* Defect: only an idle store ends the wait.                               *)
Poll_IgnoresError(l) ==
  /\ pc[l] = "polling" /\ seen = "idle"
  /\ pc' = [pc EXCEPT ![l] = "judging"]
  /\ UNCHANGED <<goal, carried, used, stop, fresh, goalAbort, goalRun, agentVars,
                 expanding, diskVars, history>>

(* The second wait: an error throws out of the run, with or without the    *)
(* runner telling what it had used; an idle store is the turn's answer.    *)
Poll(l) ==
  /\ pc[l] = "polling"
  /\ \/ /\ seen = "error"
        /\ \E turns \in {0, used[l]} : EndLoop(l, "ended", turns)
     \/ /\ seen = "idle"
        /\ pc' = [pc EXCEPT ![l] = "judging"]
        /\ UNCHANGED <<goal, carried, used, stop, fresh, goalAbort, goalRun,
                       agentVars, expanding, diskVars, history>>

Judge(l) ==
  /\ pc[l] = "judging"
  /\ \/ EndLoop(l, "ended", used[l])
     \/ /\ pc' = [pc EXCEPT ![l] = "ready"]
        /\ UNCHANGED <<goal, carried, used, stop, fresh, goalAbort, goalRun,
                       agentVars, expanding, diskVars, history>>

LoopStep(l) ==
  \/ DriveGoal(l) \/ SendTurn(l) \/ RunnerStops(l) \/ WaitBegins(l)
  \/ Poll(l) \/ Judge(l)

-----------------------------------------------------------------------------
(***************************************************************************)
(* The operator.                                                           *)
(***************************************************************************)

SetGoal(l, g) ==
  /\ ~goalActive
  /\ RunGoalLoop(l, g, 0)
  /\ spent' = [spent EXCEPT ![g] = 0]
  /\ forgot' = forgot \ {g}
  /\ UNCHANGED <<usurped, lostWrite>>

ResumeGoal(l) ==
  /\ goalRun # None /\ ~goalActive
  /\ RunGoalLoop(l, goalRun.goal, goalRun.turns)
  /\ UNCHANGED history

StopLoop == stop' = [l \in Loops |-> stop[l] \/ l = goalAbort]

(* /goal pause, and Esc: the loop ends by itself, later.                   *)
PauseGoal ==
  /\ goalActive
  /\ StopLoop
  /\ AbortTurn
  /\ UNCHANGED <<pc, goal, carried, used, fresh, goalAbort, goalRun, expanding,
                 diskVars, history>>

(* Defect: the loop of the goal that is cleared goes on.                   *)
ClearGoal_TurnOnly ==
  /\ goalRun # None
  /\ IF goalActive THEN AbortTurn ELSE UNCHANGED agentVars
  /\ SetGoalRun(None)
  /\ UNCHANGED <<loopVars, goalAbort, expanding, history>>

ClearGoal ==
  /\ goalRun # None
  /\ IF goalActive THEN StopLoop /\ AbortTurn ELSE UNCHANGED <<stop, agentVars>>
  /\ SetGoalRun(None)
  /\ UNCHANGED <<pc, goal, carried, used, fresh, goalAbort, expanding, history>>

(* /new and /clear.                                                        *)
ResetConversation ==
  /\ StopLoop
  /\ AbortTurn
  /\ goalAbort' = None
  /\ SetGoalRun(None)
  /\ UNCHANGED <<pc, goal, carried, used, fresh, expanding, history>>

(* Ctrl-C while a turn streams, a goal's turn too: the turn stops, not the *)
(* loop.                                                                   *)
InterruptTurn ==
  /\ status = "streaming"
  /\ AbortTurn
  /\ UNCHANGED <<loopVars, goalAbort, goalRun, expanding, diskVars, history>>

OperatorSends(how) ==
  /\ Send(how)
  /\ UNCHANGED <<loopVars, goalAbort, goalRun, diskVars, spent, forgot, usurped,
                 lostWrite>>

(* A message, or /retry: refused while the goal on the screen is active.   *)
SendMessage == ~goalActive /\ OperatorSends("send") /\ UNCHANGED expanding

(* /init, where no steering file exists, is not.                           *)
InitAgents == OperatorSends("init") /\ UNCHANGED expanding

(* A custom command is refused when it is submitted; its template's shell  *)
(* commands are awaited, and then it is sent.                              *)
SubmitCustom ==
  /\ ~goalActive /\ ~expanding
  /\ expanding' = TRUE
  /\ UNCHANGED <<loopVars, goalAbort, goalRun, agentVars, diskVars, history>>

SendCustom == expanding /\ expanding' = FALSE /\ OperatorSends("custom")

ExpansionFails ==
  /\ expanding
  /\ expanding' = FALSE
  /\ UNCHANGED <<loopVars, goalAbort, goalRun, agentVars, diskVars, history>>

-----------------------------------------------------------------------------
(***************************************************************************)
(* The disk, and the end of the process.                                   *)
(***************************************************************************)

(* Defect: the removal of the file does not wait for the writes before it. *)
WriteSettles_RemoveFirst ==
  /\ writes # <<>>
  /\ IF None \in {writes[i] : i \in DOMAIN writes}
     THEN file' = None /\ writes' = SelectSeq(writes, LAMBDA w : w # None)
     ELSE file' = Head(writes) /\ writes' = Tail(writes)
  /\ lostWrite' = FALSE
  /\ UNCHANGED <<loopVars, goalAbort, goalRun, agentVars, expanding, spent, forgot,
                 usurped>>

WriteSettles ==
  /\ writes # <<>>
  /\ file' = Head(writes)
  /\ writes' = Tail(writes)
  /\ lostWrite' = FALSE
  /\ UNCHANGED <<loopVars, goalAbort, goalRun, agentVars, expanding, spent, forgot,
                 usurped>>

(* A write that fails is reported, and the next one runs.                  *)
WriteFails ==
  /\ writes # <<>>
  /\ writes' = Tail(writes)
  /\ lostWrite' = TRUE
  /\ UNCHANGED <<loopVars, goalAbort, goalRun, agentVars, expanding, file, spent,
                 forgot, usurped>>

(* The process ends at any point, and the TUI is launched again.           *)
Relaunch ==
  /\ pc' = [l \in Loops |-> "off"]
  /\ goal' = [l \in Loops |-> None]
  /\ carried' = [l \in Loops |-> 0]
  /\ used' = [l \in Loops |-> 0]
  /\ stop' = [l \in Loops |-> FALSE]
  /\ fresh' = [l \in Loops |-> FALSE]
  /\ goalAbort' = None
  /\ goalRun' = LoadGoalRun(file)
  /\ status' = "idle" /\ seen' = "idle" /\ turnOf' = "none"
  /\ expanding' = FALSE
  /\ writes' = IF LoadGoalRun(file) = file THEN <<>> ELSE <<LoadGoalRun(file)>>
  /\ forgot' = IF usurped THEN Goals ELSE forgot
       \union {goal[l] : l \in {m \in Loops : pc[m] # "off" /\ used[m] > 0}}
       \union (IF file = goalRun THEN {}
               ELSE {run.goal : run \in {file, goalRun} \ {None}})
  /\ usurped' = FALSE
  /\ UNCHANGED <<file, spent, lostWrite>>

(* A key is handled after the render of what went before it.               *)
Operator ==
  /\ seen = status
  /\ \/ \E l \in Loops : ResumeGoal(l) \/ \E g \in Goals : SetGoal(l, g)
     \/ PauseGoal \/ ClearGoal \/ ResetConversation \/ InterruptTurn
     \/ SendMessage \/ InitAgents \/ SubmitCustom

Next ==
  \/ \E l \in Loops : LoopStep(l)
  \/ TurnEnds \/ Render \/ WriteSettles \/ WriteFails
  \/ Operator \/ SendCustom \/ ExpansionFails
  \/ Relaunch

Spec == Init /\ [][Next]_vars

(* A turn ends, a render follows a change, a write settles, and a loop's   *)
(* awaits return.  Strongly for a loop: its 120 ms poll finds the store    *)
(* idle if it is idle again and again, for the pauses between two turns    *)
(* are a judge's call, or a human; and the real queue of writes has no     *)
(* bound to wait at.                                                       *)
FairSpec ==
  /\ Spec
  /\ WF_vars(TurnEnds) /\ SF_vars(Render) /\ WF_vars(WriteSettles)
  /\ \A l \in Loops : SF_vars(LoopStep(l))

-----------------------------------------------------------------------------
(***************************************************************************)
(* What holds as long as no loop ended in the name of another.             *)
(***************************************************************************)

GoalDrives == \E l \in Loops : Driving(l)

(* The loop that drives is the one that pause, Esc and /goal clear stop,   *)
(* its goal is the one on the screen, and a goal shown as active has a     *)
(* loop.  (goalAbort and goalRun are set by four handlers and a `finally`  *)
(* that runs when it runs.)                                                *)
DriverIsOnScreen ==
  ~usurped =>
    /\ \A l \in Loops : Driving(l) =>
         goalAbort = l /\ goalActive /\ goalRun.goal = goal[l]
    /\ goalActive => goalAbort # None /\ pc[goalAbort] # "off"

(* No plain message, and no /retry, reaches the agent while a goal drives. *)
MessagesRefused == [][SendMessage => usurped \/ ~GoalDrives]_vars

(* A goal costs MaxTurns at most, over all its pauses and resumptions,     *)
(* unless turns of it went unrecorded: its run threw, or the process ended *)
(* with turns, or writes, under way.                                       *)
GoalTurnsBounded ==
  \A g \in Goals : spent[g] > MaxTurns => g \in forgot \/ usurped

(* A goal sends no turn over one of the operator's.                        *)
WaitsForTheOperator ==
  [][\A l \in Loops : SendTurn(l) => usurped \/ turnOf # "send"]_vars

(* What is on disk, once what is queued is written, is what is on the      *)
(* screen: no goal that was cleared comes back.                            *)
RecordReachesDisk ==
  ~lostWrite => goalRun = IF writes = <<>> THEN file ELSE writes[Len(writes)]

(* A loop that was told to stop ends, whatever turn it waits for.          *)
StopReachesLoop == \A l \in Loops : stop[l] ~> pc[l] = "off"

-----------------------------------------------------------------------------
(***************************************************************************)
(* What a test of the code says of it and it does not do.                  *)
(***************************************************************************)

(* "A running goal owns the agent": no message is sent while one drives.   *)
GoalOwnsAgent == [][SendMessage => ~GoalDrives]_vars

=============================================================================
