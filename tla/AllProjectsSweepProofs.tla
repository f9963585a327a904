----------------------- MODULE AllProjectsSweepProofs -----------------------
(***************************************************************************)
(* What holds of the all-projects sweep for any number of sweeps, projects *)
(* and sessions: its types, and the safety of what it plans and removes.   *)
(* One of them, RetentionFloor, holds of one sweeper at a time.            *)
(***************************************************************************)
EXTENDS AllProjectsSweep, FiniteSetTheorems, TLAPS

USE HomeAssumption, VerdictAssumption, RankAssumption, NoneAssumption

(* A session's operations keep the store's types.                           *)
LEMMA StoreStep ==
  ASSUME StoreTypeOK, NEW s \in Sessions,
         Writes(s) \/ Repoints(s) \/ DeleteSession(s)
  PROVE  StoreTypeOK'
<1> HashName(s) \in Name /\ Fresh \in Rank /\ Home[s] \in Projects
  BY DEF HashName, Name, Rank
<1> USE DEF StoreTypeOK
<1>1. CASE StartTurn(s)
  BY <1>1 DEF StartTurn
<1>2. CASE EndTurn(s)
  BY <1>2 DEF EndTurn
<1>3. CASE CrashTurn(s)
  BY <1>3 DEF CrashTurn
<1>4. CASE NewSession(s)
  BY <1>4 DEF NewSession
<1>5. CASE ResumeSession(s)
  BY <1>5 DEF ResumeSession
<1>6. CASE ForkSession(s)
  BY <1>6 DEF ForkSession
<1>7. CASE ArchiveSession(s)
  BY <1>7 DEF ArchiveSession
<1>8. CASE DeleteSession(s)
  BY <1>8 DEF DeleteSession
<1> QED BY <1>1, <1>2, <1>3, <1>4, <1>5, <1>6, <1>7, <1>8 DEF Writes, Repoints

(* A listing dates each file of its project or says it has no date.        *)
LEMMA ListingType ==
  ASSUME StoreTypeOK, NEW p \in Projects, NEW bad
  PROVE  ListingOf(p, bad) \in [Artifact -> Rank \union {Absent, Undatable}]
BY DEF ListingOf, StoreTypeOK

(* What PlanProject adds are candidates.                                   *)
LEMMA PlannedType ==
  ASSUME TypeOK, NEW w \in Sweepers, NEW p \in Projects
  PROVE  /\ PlannedTranscripts(w, p) \subseteq Candidate
         /\ PlannedLeftovers(w) \subseteq Candidate
         /\ PlannedEntries(w, p) \subseteq Candidate
<1> USE DEF Candidate, ArtifactKind, Collectable
<1>1. PlannedTranscripts(w, p) \subseteq Candidate
  BY DEF PlannedTranscripts, Name
<1>2. PlannedLeftovers(w) \subseteq Candidate
  BY DEF PlannedLeftovers
<1>3. PlannedEntries(w, p) \subseteq Candidate
  BY DEF PlannedEntries, Listed, RawName, Name
<1> QED BY <1>1, <1>2, <1>3

(* Reading a project, a sweep knows which one; removing, its target is one *)
(* of the plan's candidates and has not been reported yet.                 *)
AtWork ==
  \A w \in Sweepers :
    /\ pc[w] \in {"pointer", "decide"} => cur[w] \in Projects
    /\ pc[w] = "remove" => target[w] \in Queue(w)

TypeInv == TypeOK /\ AtWork

LEMMA TypeInit == Init => TypeInv
BY DEF Init, StoreInit, TypeOK, StoreTypeOK, SweepTypeOK, HistoryTypeOK, AtWork,
       TypeInv, Nothing, NoCandidate, Phases, Name

(* A plan step changes nothing that other programs see.                    *)
LEMMA TypePlanStep ==
  ASSUME TypeInv, NEW w \in Sweepers, PlanStep(w) PROVE TypeInv'
<1>1. StoreTypeOK' /\ HistoryTypeOK'
  BY DEF PlanStep, SkipUndetermined, ListFails, ListProject, ReadPointer,
         GuardReadFails, PlanProject, storeVars, history, TypeInv, TypeOK,
         StoreTypeOK, HistoryTypeOK
<1> USE DEF TypeInv, TypeOK, SweepTypeOK, AtWork, Queue
<1>2. CASE \E p \in Projects : SkipUndetermined(w, p)
  BY <1>1, <1>2 DEF SkipUndetermined
<1>3. CASE \E p \in Projects : ListFails(w, p)
  BY <1>1, <1>3 DEF ListFails
<1>4. ASSUME NEW p \in Projects, ListProject(w, p) PROVE TypeInv'
  <2>1. seen' \in [Sweepers -> [Artifact -> Rank \union {Absent, Undatable}]]
    BY <1>4, ListingType DEF ListProject
  <2>2. guarded' \in [Sweepers -> SUBSET Name]
    BY <1>4 DEF ListProject
  <2> QED BY <1>1, <1>4, <2>1, <2>2 DEF ListProject, Phases
<1>5. CASE ReadPointer(w)
  <2>1. pointer[cur[w]] # None => HashName(pointer[cur[w]]) \in Name
    BY <1>5 DEF ReadPointer, StoreTypeOK, HashName, Name
  <2> QED BY <1>1, <1>5, <2>1 DEF ReadPointer, Phases
<1>6. CASE GuardReadFails(w)
  <2>1. cur[w] \in Projects
    BY <1>6 DEF GuardReadFails
  <2> QED BY <1>1, <1>6, <2>1 DEF GuardReadFails, LeaveProject, Nothing, Phases
<1>7. CASE PlanProject(w)
  <2>1. planned' \in [Sweepers -> SUBSET Candidate]
    BY <1>7, PlannedType DEF PlanProject
  <2> QED BY <1>1, <1>7, <2>1 DEF PlanProject, LeaveProject, Nothing, Phases
<1> QED BY <1>2, <1>3, <1>4, <1>5, <1>6, <1>7 DEF PlanStep

LEMMA TypeForget ==
  ASSUME TypeInv, NEW w \in Sweepers, Forget(w) PROVE TypeInv'
<1>1. StoreTypeOK' /\ HistoryTypeOK'
  BY DEF Forget, storeVars, TypeInv, TypeOK, StoreTypeOK, HistoryTypeOK
<1> QED BY <1>1 DEF Forget, TypeInv, TypeOK, SweepTypeOK, AtWork, Queue, Nothing,
                    Phases

LEMMA TypeApplyStep ==
  ASSUME TypeInv, NEW w \in Sweepers, ApplyStep(w) PROVE TypeInv'
<1> USE DEF TypeInv, TypeOK, SweepTypeOK, AtWork, Queue
<1>1. CASE StartApply(w)
  <2>1. LivePointerNames(w) \subseteq Name
    BY DEF LivePointerNames, NamesOf, HashName, RawName, Name, StoreTypeOK
  <2>2. StoreTypeOK' /\ HistoryTypeOK'
    BY <1>1 DEF StartApply, storeVars, StoreTypeOK, HistoryTypeOK
  <2> QED BY <1>1, <2>1, <2>2 DEF StartApply, Phases
<1>2. ASSUME NEW c \in planned[w], Refuse(w, c) PROVE TypeInv'
  <2>1. StoreTypeOK' /\ HistoryTypeOK'
    BY <1>2 DEF Refuse, storeVars, history, StoreTypeOK, HistoryTypeOK
  <2> QED BY <1>2, <2>1 DEF Refuse
<1>3. ASSUME NEW c \in planned[w], PassBackstop(w, c) PROVE TypeInv'
  <2>1. StoreTypeOK' /\ HistoryTypeOK'
    BY <1>3 DEF PassBackstop, storeVars, StoreTypeOK, HistoryTypeOK
  <2> QED BY <1>3, <2>1 DEF PassBackstop, Phases
<1>4. CASE RemoveCandidate(w)
  <2>1. target[w] \in Candidate
    BY <1>4 DEF RemoveCandidate
  <2>2. StoreTypeOK'
    BY <1>4, <2>1 DEF RemoveCandidate, Candidate, StoreTypeOK
  <2>3. HistoryTypeOK'
    BY <1>4, <2>1 DEF RemoveCandidate, Candidate, HistoryTypeOK
  <2> QED BY <1>4, <2>1, <2>2, <2>3 DEF RemoveCandidate, Phases
<1>5. CASE RemovalFails(w)
  <2>1. target[w] \in Candidate
    BY <1>5 DEF RemovalFails
  <2>2. StoreTypeOK' /\ HistoryTypeOK'
    BY <1>5 DEF RemovalFails, storeVars, StoreTypeOK, HistoryTypeOK
  <2> QED BY <1>5, <2>1, <2>2 DEF RemovalFails, Phases
<1>6. CASE CandidatesDone(w)
  <2>1. StoreTypeOK' /\ HistoryTypeOK'
    BY <1>6 DEF CandidatesDone, storeVars, StoreTypeOK, HistoryTypeOK
  <2>2. TouchedProjects(w) \subseteq Projects
    BY DEF TouchedProjects, Candidate, Project, Name
  <2> QED BY <1>6, <2>1, <2>2 DEF CandidatesDone, Phases
<1>7. ASSUME NEW p \in Projects, RemoveEmptyProject(w, p) PROVE TypeInv'
  <2>1. StoreTypeOK' /\ HistoryTypeOK'
    BY <1>7 DEF RemoveEmptyProject, history, StoreTypeOK, HistoryTypeOK
  <2> QED BY <1>7, <2>1 DEF RemoveEmptyProject
<1>8. CASE ReportDryRun(w) \/ EndSweep(w)
  BY <1>8, TypeForget DEF ReportDryRun, EndSweep
<1> QED BY <1>1, <1>2, <1>3, <1>4, <1>5, <1>6, <1>7, <1>8 DEF ApplyStep

LEMMA TypeStep == TypeInv /\ [Next]_vars => TypeInv'
<1> SUFFICES ASSUME TypeInv, [Next]_vars PROVE TypeInv'
  OBVIOUS
<1>1. ASSUME NEW w \in Sweepers, BeginSweep(w) PROVE TypeInv'
  <2>1. StoreTypeOK' /\ HistoryTypeOK'
    BY <1>1 DEF BeginSweep, storeVars, TypeInv, TypeOK, StoreTypeOK, HistoryTypeOK
  <2> QED BY <1>1, <2>1 DEF BeginSweep, TypeInv, TypeOK, StoreTypeOK, SweepTypeOK,
                            AtWork, Queue, Phases
<1>2. ASSUME NEW s \in Sessions, SessionActs(s) PROVE TypeInv'
  <2>1. StoreTypeOK'
    BY <1>2, StoreStep DEF SessionActs, TypeInv, TypeOK
  <2>2. HistoryTypeOK'
    BY <1>2 DEF SessionActs, Noted, NotedIn, TypeInv, TypeOK, HistoryTypeOK, HashName,
                Name
  <2> QED BY <1>2, <2>1, <2>2 DEF SessionActs, sweepVars, TypeInv, TypeOK,
                                  SweepTypeOK, AtWork, Queue
<1>3. CASE UNCHANGED vars
  BY <1>3 DEF vars, storeVars, sweepVars, history, TypeInv, TypeOK, StoreTypeOK,
              SweepTypeOK, HistoryTypeOK, AtWork, Queue
<1> QED BY <1>1, <1>2, <1>3, TypePlanStep, TypeApplyStep, TypeForget
        DEF Next, CrashSweep

LEMMA TypeInvariant == Spec => []TypeInv
BY TypeInit, TypeStep, PTL DEF Spec

(* Every variable keeps its type, for any number of sweeps at once.        *)
THEOREM TypeCorrect == Spec => []TypeOK
BY TypeInvariant, PTL DEF TypeInv

-----------------------------------------------------------------------------
(***************************************************************************)
(* The store.                                                              *)
(***************************************************************************)

(* A sweep's plan step, and its end, leave the store as it is.             *)
LEMMA PlanFrame ==
  ASSUME NEW w \in Sweepers, BeginSweep(w) \/ PlanStep(w) \/ Forget(w)
  PROVE  UNCHANGED <<storeVars, swept, userDeleted>>
BY DEF BeginSweep, PlanStep, SkipUndetermined, ListFails, ListProject, ReadPointer,
       GuardReadFails, PlanProject, Forget, history

(* So do the steps of the apply phase but two: a removal takes one file or *)
(* clears one registry entry, and an empty directory goes.                 *)
LEMMA ApplyFrame ==
  ASSUME NEW w \in Sweepers, ApplyStep(w)
  PROVE  \/ UNCHANGED storeVars
         \/ RemoveCandidate(w)
         \/ \E p \in Projects : RemoveEmptyProject(w, p)
BY DEF ApplyStep, StartApply, ReportDryRun, Refuse, PassBackstop, RemovalFails,
       CandidatesDone, EndSweep, Forget

-----------------------------------------------------------------------------
(***************************************************************************)
(* The report and the writers, which only the apply phase is about.        *)
(***************************************************************************)

Reported ==
  \A w \in Sweepers :
    /\ removed[w] \union refused[w] \subseteq planned[w]
    /\ removed[w] \intersect refused[w] = {}
    /\ pc[w] = "empty" => Queue(w) = {}

LEMMA ReportedStep == TypeInv /\ Reported /\ [Next]_vars => Reported'
<1> SUFFICES ASSUME TypeInv, Reported, [Next]_vars PROVE Reported'
  OBVIOUS
<1> USE DEF Reported, Queue, TypeInv, AtWork, TypeOK, SweepTypeOK
<1>1. ASSUME NEW w \in Sweepers, BeginSweep(w) PROVE Reported'
  BY <1>1 DEF BeginSweep
<1>2. ASSUME NEW w \in Sweepers, Forget(w) PROVE Reported'
  BY <1>2 DEF Forget
<1>3. ASSUME NEW w \in Sweepers, PlanStep(w) PROVE Reported'
  BY <1>3 DEF PlanStep, SkipUndetermined, ListFails, ListProject, ReadPointer,
              GuardReadFails, PlanProject, LeaveProject
<1>4. ASSUME NEW w \in Sweepers, ApplyStep(w) PROVE Reported'
  <2>1. CASE StartApply(w) \/ CandidatesDone(w)
    BY <2>1 DEF StartApply, CandidatesDone
  <2>2. ASSUME NEW c \in planned[w], Refuse(w, c) \/ PassBackstop(w, c) PROVE Reported'
    <3>1. CASE Refuse(w, c)
      BY <3>1 DEF Refuse
    <3>2. CASE PassBackstop(w, c)
      BY <3>2 DEF PassBackstop
    <3> QED BY <2>2, <3>1, <3>2
  <2>3. CASE RemoveCandidate(w)
    BY <2>3 DEF RemoveCandidate
  <2>4. CASE RemovalFails(w)
    BY <2>4 DEF RemovalFails
  <2>5. CASE \E p \in Projects : RemoveEmptyProject(w, p)
    BY <2>5 DEF RemoveEmptyProject
  <2> QED BY <1>2, <1>4, <2>1, <2>2, <2>3, <2>4, <2>5
          DEF ApplyStep, ReportDryRun, EndSweep
<1>5. ASSUME NEW s \in Sessions, SessionActs(s) PROVE Reported'
  BY <1>5 DEF SessionActs, sweepVars
<1>6. CASE UNCHANGED vars
  BY <1>6 DEF vars, sweepVars
<1> QED BY <1>1, <1>2, <1>3, <1>4, <1>5, <1>6 DEF Next, CrashSweep

(* Every candidate ends up reported exactly once.                          *)
THEOREM CandidatesReported == Spec => []EveryCandidateReported
<1>1. Init => Reported
  BY DEF Init, Reported
<1>2. Reported => EveryCandidateReported
  BY DEF Reported, EveryCandidateReported, Queue
<1> QED BY <1>1, <1>2, TypeInvariant, ReportedStep, PTL DEF Spec

LEMMA LeaseStep == TypeInv /\ LeaseWindow /\ [Next]_vars => LeaseWindow'
<1> SUFFICES ASSUME TypeInv, LeaseWindow, [Next]_vars PROVE LeaseWindow'
  OBVIOUS
<1> USE DEF LeaseWindow, TypeInv, AtWork, TypeOK, SweepTypeOK, HistoryTypeOK
<1>1. ASSUME NEW w \in Sweepers, BeginSweep(w) PROVE LeaseWindow'
  BY <1>1 DEF BeginSweep, storeVars
<1>2. ASSUME NEW w \in Sweepers, Forget(w) PROVE LeaseWindow'
  BY <1>2 DEF Forget, storeVars
<1>3. ASSUME NEW w \in Sweepers, PlanStep(w) PROVE LeaseWindow'
  BY <1>3 DEF PlanStep, SkipUndetermined, ListFails, ListProject, ReadPointer,
              GuardReadFails, PlanProject, LeaveProject, storeVars, history
<1>4. ASSUME NEW w \in Sweepers, ApplyStep(w) PROVE LeaseWindow'
  <2>1. CASE StartApply(w) \/ CandidatesDone(w)
    BY <2>1 DEF StartApply, CandidatesDone, storeVars
  <2>2. ASSUME NEW c \in planned[w], Refuse(w, c) PROVE LeaseWindow'
    BY <2>2 DEF Refuse, storeVars, history
  <2>3. ASSUME NEW c \in planned[w], PassBackstop(w, c) PROVE LeaseWindow'
    BY <2>3 DEF PassBackstop, BackstopRefuses, storeVars
  <2>4. CASE RemoveCandidate(w)
    BY <2>4 DEF RemoveCandidate
  <2>5. CASE RemovalFails(w)
    BY <2>5 DEF RemovalFails, storeVars
  <2>6. CASE \E p \in Projects : RemoveEmptyProject(w, p)
    BY <2>6 DEF RemoveEmptyProject, history
  <2> QED BY <1>2, <1>4, <2>1, <2>2, <2>3, <2>4, <2>5, <2>6
          DEF ApplyStep, ReportDryRun, EndSweep
<1>5. ASSUME NEW s \in Sessions, SessionActs(s) PROVE LeaseWindow'
  <2>1. lease' \subseteq lease \union {HashName(s)} /\ HashName(s)[1] = s
    BY <1>5 DEF SessionActs, Writes, Repoints, StartTurn, EndTurn, ForkSession,
                CrashTurn, NewSession, ResumeSession, ArchiveSession, DeleteSession,
                HashName
  <2>2. \A w \in Sweepers : window[w] \subseteq window'[w]
                           /\ (pc[w] = "remove" => s \in window'[w])
    BY <1>5 DEF SessionActs, Noted, NotedIn
  <2> QED BY <1>5, <2>1, <2>2 DEF SessionActs, sweepVars
<1>6. CASE UNCHANGED vars
  BY <1>6 DEF vars, sweepVars, storeVars, history
<1> QED BY <1>1, <1>2, <1>3, <1>4, <1>5, <1>6 DEF Next, CrashSweep

(* A removal can miss only a writer that came after its backstop.          *)
THEOREM WritersKept == Spec => []LeaseWindow
<1>1. Init => LeaseWindow
  BY DEF Init, LeaseWindow
<1> QED BY <1>1, TypeInvariant, LeaseStep, PTL DEF Spec

-----------------------------------------------------------------------------
(***************************************************************************)
(* The plan.  A project leaves todo before anything of it is planned, and  *)
(* for good: so nothing planned is ever of a project that can still fail.  *)
(***************************************************************************)

(* The listing a sweep holds is the current project's.                     *)
SeenOfCurrent ==
  \A w \in Sweepers : \A a \in Artifact :
    seen[w][a] # Absent => pc[w] \in {"pointer", "decide"} /\ Project(a[2]) = cur[w]

PlannedOf(w) == {Project(c.name) : c \in planned[w]}

Untouched ==
  \A w \in Sweepers :
    /\ PlannedOf(w) \intersect planErrors[w] = {}
    /\ pc[w] \in {"plan", "pointer", "decide"} =>
         todo[w] \intersect (PlannedOf(w) \union planErrors[w]) = {}
    /\ pc[w] \in {"pointer", "decide"} =>
         cur[w] \notin todo[w] \union PlannedOf(w) \union planErrors[w]
    /\ pc[w] = "idle" => planned[w] = {} /\ planErrors[w] = {}

PlanInv == TypeInv /\ SeenOfCurrent /\ Untouched

(* Everything planned in a step is of the current project.                 *)
LEMMA PlannedOfCurrent ==
  ASSUME PlanInv, NEW w \in Sweepers, pc[w] = "decide",
         NEW c \in PlannedTranscripts(w, cur[w]) \union PlannedLeftovers(w)
                    \union PlannedEntries(w, cur[w])
  PROVE  Project(c.name) = cur[w]
<1>1. ASSUME NEW k \in ArtifactKind, NEW n \in Name, Collectable(seen[w][<<k, n>>])
      PROVE  Project(n) = cur[w]
  <2>1. <<k, n>> \in Artifact /\ <<k, n>>[2] = n
    BY DEF Artifact
  <2>2. seen[w][<<k, n>>] # Absent
    BY <1>1 DEF Collectable, Rank
  <2> QED BY <2>1, <2>2 DEF PlanInv, SeenOfCurrent
<1>2. CASE c \in PlannedTranscripts(w, cur[w])
  <2>1. PICK n \in Name : c.name = n /\ Collectable(seen[w][Transcript(n)])
    BY <1>2 DEF PlannedTranscripts
  <2> QED BY <1>1, <2>1 DEF Transcript, ArtifactKind
<1>3. CASE c \in PlannedLeftovers(w)
  <2>1. PICK n \in Name : /\ c.name = n
                          /\ \/ Collectable(seen[w][Lock(n)])
                             \/ Collectable(seen[w][Tmp(n)])
    BY <1>3 DEF PlannedLeftovers
  <2> QED BY <1>1, <2>1 DEF Lock, Tmp, ArtifactKind
<1>4. CASE c \in PlannedEntries(w, cur[w])
  BY <1>4 DEF PlannedEntries, Listed, RawName, Project
<1> QED BY <1>2, <1>3, <1>4

(* The apply phase changes nothing of the plan it carries out.             *)
LEMMA ApplyPlanFrame ==
  ASSUME TypeInv, NEW w \in Sweepers, ApplyStep(w)
  PROVE  \/ Forget(w)
         \/ /\ UNCHANGED <<cur, seen, planned, planErrors>>
            /\ pc[w] \in {"plan", "apply", "remove", "empty"}
            /\ pc'[w] \in {"apply", "remove", "empty"}
            /\ \A v \in Sweepers \ {w} : pc'[v] = pc[v] /\ todo'[v] = todo[v]
<1> USE DEF TypeInv, TypeOK, SweepTypeOK
<1>1. CASE StartApply(w)
  BY <1>1 DEF StartApply, Planned
<1>2. CASE CandidatesDone(w)
  BY <1>2 DEF CandidatesDone
<1>3. ASSUME NEW c \in planned[w], Refuse(w, c)
      PROVE  /\ UNCHANGED <<cur, seen, planned, planErrors, pc, todo>>
             /\ pc[w] = "apply"
  BY <1>3 DEF Refuse
<1>4. ASSUME NEW c \in planned[w], PassBackstop(w, c)
      PROVE  /\ UNCHANGED <<cur, seen, planned, planErrors, todo>>
             /\ pc[w] = "apply" /\ pc' = [pc EXCEPT ![w] = "remove"]
  BY <1>4 DEF PassBackstop
<1>5. CASE RemoveCandidate(w)
  BY <1>5 DEF RemoveCandidate
<1>6. CASE RemovalFails(w)
  BY <1>6 DEF RemovalFails
<1>7. CASE \E p \in Projects : RemoveEmptyProject(w, p)
  BY <1>7 DEF RemoveEmptyProject
<1> QED BY <1>1, <1>2, <1>3, <1>4, <1>5, <1>6, <1>7 DEF ApplyStep, ReportDryRun, EndSweep

LEMMA PlanInvStep == PlanInv /\ [Next]_vars => PlanInv'
<1> SUFFICES ASSUME PlanInv, [Next]_vars PROVE SeenOfCurrent' /\ Untouched'
  BY TypeStep DEF PlanInv
<1> USE DEF PlanInv, SeenOfCurrent, Untouched, PlannedOf, Project, TypeInv, AtWork,
            TypeOK, SweepTypeOK
<1>1. ASSUME NEW w \in Sweepers, BeginSweep(w) PROVE SeenOfCurrent' /\ Untouched'
  BY <1>1 DEF BeginSweep
<1>2. ASSUME NEW w \in Sweepers, Forget(w) PROVE SeenOfCurrent' /\ Untouched'
  BY <1>2 DEF Forget, Nothing
<1>3. ASSUME NEW w \in Sweepers, PlanStep(w) PROVE SeenOfCurrent' /\ Untouched'
  <2>1. ASSUME NEW p \in Projects, SkipUndetermined(w, p)
        PROVE  SeenOfCurrent' /\ Untouched'
    BY <2>1 DEF SkipUndetermined
  <2>2. ASSUME NEW p \in Projects, ListFails(w, p)
        PROVE  SeenOfCurrent' /\ Untouched'
    BY <2>2 DEF ListFails
  <2>3. ASSUME NEW p \in Projects, ListProject(w, p)
        PROVE  SeenOfCurrent' /\ Untouched'
    <3>1. SeenOfCurrent'
      BY <2>3 DEF ListProject, ListingOf
    <3>2. Untouched'
      BY <2>3 DEF ListProject
    <3> QED BY <3>1, <3>2
  <2>4. CASE ReadPointer(w)
    BY <2>4 DEF ReadPointer
  <2>5. CASE GuardReadFails(w)
    BY <2>5 DEF GuardReadFails, LeaveProject, Nothing
  <2>6. CASE PlanProject(w)
    <3>1. SeenOfCurrent'
      BY <2>6 DEF PlanProject, LeaveProject, Nothing
    <3>2. \A v \in Sweepers :
            PlannedOf(v)' \subseteq IF v = w THEN PlannedOf(w) \union {cur[w]}
                                    ELSE PlannedOf(v)
      BY <2>6, PlannedOfCurrent DEF PlanProject
    <3>3. /\ pc[w] = "decide" /\ pc'[w] = "plan"
          /\ \A v \in Sweepers \ {w} : pc'[v] = pc[v] /\ planned'[v] = planned[v]
          /\ \A v \in Sweepers \ {w} : cur'[v] = cur[v]
          /\ UNCHANGED <<todo, planErrors>>
      BY <2>6 DEF PlanProject, LeaveProject
    <3>4. ASSUME NEW v \in Sweepers
          PROVE  /\ PlannedOf(v)' \intersect planErrors'[v] = {}
                 /\ pc'[v] \in {"plan", "pointer", "decide"} =>
                      todo'[v] \intersect (PlannedOf(v)' \union planErrors'[v]) = {}
                 /\ pc'[v] \in {"pointer", "decide"} =>
                      cur'[v] \notin todo'[v] \union PlannedOf(v)' \union planErrors'[v]
                 /\ pc'[v] = "idle" => planned'[v] = {} /\ planErrors'[v] = {}
      <4> HIDE DEF PlannedOf, Project
      <4>1. CASE v = w
        BY <3>2, <3>3, <4>1
      <4>2. CASE v # w
        BY <3>2, <3>3, <4>2
      <4> QED BY <4>1, <4>2
    <3>5. Untouched'
      BY <3>4
    <3> QED BY <3>1, <3>5
  <2> QED BY <1>3, <2>1, <2>2, <2>3, <2>4, <2>5, <2>6 DEF PlanStep
<1>4. ASSUME NEW w \in Sweepers, ApplyStep(w) PROVE SeenOfCurrent' /\ Untouched'
  <2>1. CASE Forget(w)
    BY <1>2, <2>1
  <2>2. CASE /\ UNCHANGED <<cur, seen, planned, planErrors>>
             /\ pc[w] \in {"plan", "apply", "remove", "empty"}
             /\ pc'[w] \in {"apply", "remove", "empty"}
             /\ \A v \in Sweepers \ {w} : pc'[v] = pc[v] /\ todo'[v] = todo[v]
    <3>1. SeenOfCurrent'
      BY <2>2
    <3>2. \A v \in Sweepers : PlannedOf(v)' = PlannedOf(v)
      BY <2>2
    <3>3. Untouched'
      <4> HIDE DEF PlannedOf, Project
      <4> QED BY <2>2, <3>2
    <3> QED BY <3>1, <3>3
  <2> QED BY <1>4, <2>1, <2>2, ApplyPlanFrame
<1>5. ASSUME NEW s \in Sessions, SessionActs(s) PROVE SeenOfCurrent' /\ Untouched'
  BY <1>5 DEF SessionActs, sweepVars
<1>6. CASE UNCHANGED vars
  BY <1>6 DEF vars, sweepVars
<1> QED BY <1>1, <1>2, <1>3, <1>4, <1>5, <1>6 DEF Next, CrashSweep

LEMMA PlanInvariant == Spec => []PlanInv
<1>1. Init => PlanInv
  BY TypeInit DEF Init, PlanInv, SeenOfCurrent, Untouched, PlannedOf, Nothing
<1> QED BY <1>1, PlanInvStep, PTL DEF Spec

(* A project that could not be read loses nothing.                         *)
THEOREM UnreadUntouched == Spec => []UnreadProjectUntouched
<1>1. PlanInv => UnreadProjectUntouched
  BY DEF PlanInv, Untouched, PlannedOf, UnreadProjectUntouched
<1> QED BY <1>1, PlanInvariant, PTL

-----------------------------------------------------------------------------
(***************************************************************************)
(* The pointers the apply phase holds are as old as its start, and a       *)
(* target got past them: so a target its directory points at is named by a *)
(* pointer that moved since.                                               *)
(***************************************************************************)
PointersHeld ==
  \A w \in Sweepers, p \in Projects :
    /\ pc[w] \in {"apply", "remove"}
    /\ p \notin planErrors[w] /\ Verdict[p] = "ALIVE" /\ pointer[p] # None
    => NamesOf(pointer[p]) \subseteq pointers[w] \/ pointer[p] \in since[w]

TargetPassed ==
  \A w \in Sweepers :
    pc[w] = "remove" /\ target[w].kind \in {"transcript", "registry"} =>
      target[w].name \notin pointers[w]

PointerInv == PlanInv /\ PointersHeld /\ TargetPassed

(* A session's operation leaves the pointers alone or moves its own        *)
(* directory's to it.                                                      *)
LEMMA PointerMoves ==
  ASSUME TypeInv, NEW s \in Sessions, SessionActs(s), NEW p \in Projects
  PROVE  pointer'[p] = pointer[p] \/ pointer'[p] = s
BY DEF TypeInv, TypeOK, StoreTypeOK, SessionActs, Writes, Repoints, StartTurn, EndTurn,
       ForkSession, CrashTurn, NewSession, ResumeSession, ArchiveSession, DeleteSession

(* A plan step is in the plan, for its own sweep only.                      *)
LEMMA PlanPhaseFrame ==
  ASSUME TypeInv, NEW w \in Sweepers, PlanStep(w)
  PROVE  /\ pc'[w] \in {"plan", "pointer", "decide"}
         /\ \A v \in Sweepers \ {w} : pc'[v] = pc[v] /\ planErrors'[v] = planErrors[v]
         /\ UNCHANGED <<storeVars, history, pointers, target>>
<1> USE DEF TypeInv, TypeOK, SweepTypeOK
<1>1. CASE \E p \in Projects : SkipUndetermined(w, p) \/ ListFails(w, p)
  BY <1>1 DEF SkipUndetermined, ListFails
<1>2. CASE \E p \in Projects : ListProject(w, p)
  BY <1>2 DEF ListProject
<1>3. CASE ReadPointer(w)
  BY <1>3 DEF ReadPointer
<1>4. CASE GuardReadFails(w)
  BY <1>4 DEF GuardReadFails, LeaveProject
<1>5. CASE PlanProject(w)
  BY <1>5 DEF PlanProject, LeaveProject
<1> QED BY <1>1, <1>2, <1>3, <1>4, <1>5 DEF PlanStep

LEMMA PointerStep == PointerInv /\ [Next]_vars => PointerInv'
<1> SUFFICES ASSUME PointerInv, [Next]_vars PROVE PointersHeld' /\ TargetPassed'
  BY PlanInvStep DEF PointerInv
<1> TypeInv
  BY DEF PointerInv, PlanInv
<1> USE DEF PointerInv, PointersHeld, TargetPassed, TypeInv, AtWork, TypeOK,
            SweepTypeOK, HistoryTypeOK
<1>1. ASSUME NEW w \in Sweepers, BeginSweep(w) PROVE PointersHeld' /\ TargetPassed'
  BY <1>1 DEF BeginSweep, storeVars
<1>2. ASSUME NEW w \in Sweepers, Forget(w) PROVE PointersHeld' /\ TargetPassed'
  BY <1>2 DEF Forget, storeVars
<1>3. ASSUME NEW w \in Sweepers, PlanStep(w) PROVE PointersHeld' /\ TargetPassed'
  BY <1>3, PlanPhaseFrame DEF storeVars, history
<1>4. ASSUME NEW w \in Sweepers, ApplyStep(w) PROVE PointersHeld' /\ TargetPassed'
  <2>1. CASE StartApply(w)
    <3>1. TargetPassed'
      BY <2>1 DEF StartApply, Planned
    <3>2. PointersHeld'
      BY <2>1 DEF StartApply, storeVars, LivePointerNames
    <3> QED BY <3>1, <3>2
  <2>2. ASSUME NEW c \in planned[w], Refuse(w, c)
        PROVE  PointersHeld' /\ TargetPassed'
    BY <2>2 DEF Refuse, storeVars, history
  <2>3. ASSUME NEW c \in planned[w], PassBackstop(w, c)
        PROVE  PointersHeld' /\ TargetPassed'
    BY <2>3 DEF PassBackstop, BackstopRefuses, storeVars
  <2>4. CASE RemoveCandidate(w)
    BY <2>4 DEF RemoveCandidate
  <2>5. CASE RemovalFails(w)
    BY <2>5 DEF RemovalFails, storeVars
  <2>6. CASE CandidatesDone(w)
    BY <2>6 DEF CandidatesDone, storeVars
  <2>7. CASE \E p \in Projects : RemoveEmptyProject(w, p)
    BY <2>7 DEF RemoveEmptyProject, history
  <2> QED BY <1>2, <1>4, <2>1, <2>2, <2>3, <2>4, <2>5, <2>6, <2>7
          DEF ApplyStep, ReportDryRun, EndSweep
<1>5. ASSUME NEW s \in Sessions, SessionActs(s) PROVE PointersHeld' /\ TargetPassed'
  <2>1. \A w \in Sweepers :
          /\ since[w] \subseteq since'[w]
          /\ pc[w] \in {"apply", "remove"} => s \in since'[w]
    BY <1>5 DEF SessionActs, Noted, NotedIn
  <2>2. UNCHANGED sweepVars
    BY <1>5 DEF SessionActs
  <2>3. ASSUME NEW w \in Sweepers, NEW p \in Projects,
               pc[w] \in {"apply", "remove"},
               p \notin planErrors[w], Verdict[p] = "ALIVE", pointer'[p] # None
        PROVE  NamesOf(pointer'[p]) \subseteq pointers[w] \/ pointer'[p] \in since'[w]
    <3>1. CASE pointer'[p] = s
      BY <2>1, <2>3, <3>1
    <3>2. CASE pointer'[p] = pointer[p]
      BY <2>1, <2>3, <3>2
    <3> QED BY <1>5, <3>1, <3>2, PointerMoves
  <2>4. TargetPassed'
    BY <2>2 DEF sweepVars
  <2> QED BY <2>2, <2>3, <2>4 DEF sweepVars
<1>6. CASE UNCHANGED vars
  BY <1>6 DEF vars, sweepVars, storeVars, history
<1> QED BY <1>1, <1>2, <1>3, <1>4, <1>5, <1>6 DEF Next, CrashSweep

(* A removal never takes the transcript, or the registry entry, of the     *)
(* session its directory points at, unless the pointer moved there after   *)
(* the apply phase began.                                                  *)
THEOREM PointedKept == Spec => []PointerWindow
<1>1. Init => PointerInv
  BY TypeInit DEF Init, PointerInv, PlanInv, SeenOfCurrent, Untouched,
     PlannedOf, Nothing, PointersHeld, TargetPassed
<1>2. PointerInv => PointerWindow
  <2> SUFFICES ASSUME PointerInv, NEW w \in Sweepers,
                      pc[w] = "remove", target[w].kind \in {"transcript", "registry"},
                      Verdict[Home[target[w].name[1]]] = "ALIVE",
                      PointedBy(target[w].name[1])
               PROVE  target[w].name[1] \in since[w]
    BY DEF PointerWindow
  <2> DEFINE c == target[w]
             s == c.name[1]
  <2>1. c \in planned[w] /\ c \in Candidate
    BY DEF PointerInv, PlanInv, TypeInv, AtWork, Queue, TypeOK, SweepTypeOK
  <2>2. s \in Sessions /\ c.name \in NamesOf(s) /\ Project(c.name) = Home[s]
    BY <2>1 DEF Candidate, Name, NamesOf, HashName, RawName, Project
  <2>3. Home[s] \in Projects /\ Home[s] \notin planErrors[w]
    BY <2>1, <2>2 DEF PointerInv, PlanInv, Untouched, PlannedOf
  <2>4. pointer[Home[s]] = s /\ s # None
    BY <2>2 DEF PointedBy
  <2>5. c.name \notin pointers[w]
    BY DEF PointerInv, TargetPassed
  <2> QED BY <2>2, <2>3, <2>4, <2>5 DEF PointerInv, PointersHeld
<1> QED BY <1>1, <1>2, PointerStep, PTL DEF Spec

-----------------------------------------------------------------------------
(***************************************************************************)
(* What may be planned.  Between the pointer read and the planning of a    *)
(* project its pointer can only be moved by a session that is then noted.  *)
(***************************************************************************)
GuardsHeld ==
  \A w \in Sweepers :
    /\ pc[w] = "decide" /\ Verdict[cur[w]] = "ALIVE"
    /\ pointer[cur[w]] # None /\ pointer[cur[w]] \notin acted[w]
    => HashName(pointer[cur[w]]) \in guarded[w]

(* Nothing is planned before the sweep begins noting who acts.             *)
GuardInv == PlanInv /\ GuardsHeld /\ OnlyUnprotectedPlanned

Protected(n) ==
  LET s == n[1]
  IN  \/ n \in lease
      \/ /\ Verdict[Home[s]] = "ALIVE"
         /\ registry[s] = "active" \/ (PointedBy(s) /\ n = HashName(s))

(* A session's operation protects no transcript but its own.               *)
LEMMA ProtectsOwn ==
  ASSUME TypeInv, NEW s \in Sessions, SessionActs(s), NEW n \in Name, n[1] # s,
         Protected(n)'
  PROVE  Protected(n)
<1> n[1] \in Sessions /\ HashName(s)[1] = s /\ Home[n[1]] \in Projects
  BY DEF Name, HashName
<1> USE DEF TypeInv, TypeOK, StoreTypeOK
<1>1. lease' \subseteq lease \union {HashName(s)}
  BY DEF SessionActs, Writes, Repoints, StartTurn, EndTurn, ForkSession, CrashTurn,
         NewSession, ResumeSession, ArchiveSession, DeleteSession
<1>2. registry'[n[1]] = registry[n[1]]
  BY DEF SessionActs, Writes, Repoints, StartTurn, EndTurn, ForkSession, CrashTurn,
         NewSession, ResumeSession, ArchiveSession, DeleteSession
<1>3. PointedBy(n[1])' => PointedBy(n[1])
  BY PointerMoves DEF PointedBy
<1> QED BY <1>1, <1>2, <1>3 DEF Protected

LEMMA PlannedUnprotected ==
  ASSUME GuardInv, NEW w \in Sweepers, pc[w] = "decide",
         NEW c \in PlannedTranscripts(w, cur[w]), c.name[1] \notin acted[w]
  PROVE  ~Protected(c.name)
<1> USE DEF GuardInv, PlanInv, TypeInv
<1>1. PICK n \in Name : /\ c.name = n
                        /\ n \notin guarded[w] \union RegistryProtects(cur[w])
                        /\ n \notin lease
  BY DEF PlannedTranscripts
<1>2. Home[n[1]] = cur[w]
  BY <1>1, PlannedOfCurrent DEF Project
<1>3. n[1] \in Sessions /\ n \in NamesOf(n[1])
  BY DEF Name, NamesOf, HashName, RawName
<1>4. Verdict[cur[w]] = "ALIVE" => registry[n[1]] # "active"
  BY <1>1, <1>2, <1>3 DEF RegistryProtects, Listed
<1>5. Verdict[cur[w]] = "ALIVE" /\ PointedBy(n[1]) => n # HashName(n[1])
  BY <1>1, <1>2, <1>3 DEF PointedBy, GuardsHeld
<1> QED BY <1>1, <1>2, <1>4, <1>5 DEF Protected

LEMMA UnprotectedIs ==
  OnlyUnprotectedPlanned <=>
    \A w \in Sweepers : \A c \in planned[w] :
      c.kind = "transcript" /\ c.name[1] \notin acted[w] => ~Protected(c.name)
BY DEF OnlyUnprotectedPlanned, Protected

(* No step of a sweep protects a transcript.                               *)
LEMMA SweepProtectsNone ==
  ASSUME TypeInv, NEW w \in Sweepers,
         BeginSweep(w) \/ PlanStep(w) \/ ApplyStep(w) \/ Forget(w),
         NEW n \in Name, Protected(n)'
  PROVE  Protected(n)
<1> USE DEF Protected, PointedBy
<1>1. CASE UNCHANGED storeVars
  BY <1>1 DEF storeVars
<1>2. CASE RemoveCandidate(w)
  BY <1>2 DEF RemoveCandidate, Name, TypeInv, TypeOK, StoreTypeOK
<1>3. CASE \E p \in Projects : RemoveEmptyProject(w, p)
  BY <1>3 DEF RemoveEmptyProject
<1> QED BY <1>1, <1>2, <1>3, PlanFrame, ApplyFrame

(* What is in a plan after a sweep's step was there before, or is being    *)
(* planned now.                                                            *)
LEMMA PlannedBefore ==
  ASSUME PlanInv, NEW w \in Sweepers,
         BeginSweep(w) \/ PlanStep(w) \/ ApplyStep(w) \/ Forget(w),
         NEW v \in Sweepers, NEW c \in planned'[v]
  PROVE  /\ acted'[v] = acted[v]
         /\ \/ c \in planned[v]
            \/ /\ v = w /\ pc[w] = "decide"
               /\ c \in PlannedTranscripts(w, cur[w]) \union PlannedLeftovers(w)
                        \union PlannedEntries(w, cur[w])
<1> USE DEF PlanInv, Untouched, TypeInv, TypeOK, SweepTypeOK, HistoryTypeOK
<1>1. CASE BeginSweep(w)
  BY <1>1 DEF BeginSweep
<1>2. CASE Forget(w)
  BY <1>2 DEF Forget
<1>3. CASE PlanStep(w)
  <2>1. UNCHANGED acted
    BY <1>3, PlanPhaseFrame DEF history
  <2>2. CASE PlanProject(w)
    BY <2>1, <2>2 DEF PlanProject
  <2>3. CASE ~PlanProject(w)
    BY <1>3, <2>1, <2>3 DEF PlanStep, SkipUndetermined, ListFails, ListProject,
                            ReadPointer, GuardReadFails
  <2> QED BY <2>2, <2>3
<1>4. CASE ApplyStep(w) /\ ~Forget(w)
  <2>1. planned' = planned
    BY <1>4, ApplyPlanFrame
  <2>2. acted' = acted
    BY <1>4 DEF ApplyStep, StartApply, ReportDryRun, Refuse, PassBackstop,
                RemoveCandidate, RemovalFails, CandidatesDone, RemoveEmptyProject,
                EndSweep, history
  <2> QED BY <2>1, <2>2
<1> QED BY <1>1, <1>2, <1>3, <1>4

LEMMA SweepGuardsHeld ==
  ASSUME GuardInv, NEW w \in Sweepers,
         BeginSweep(w) \/ PlanStep(w) \/ ApplyStep(w) \/ Forget(w)
  PROVE  GuardsHeld'
<1> USE DEF GuardInv, PlanInv, GuardsHeld, TypeInv, TypeOK, SweepTypeOK, HistoryTypeOK
<1>1. CASE BeginSweep(w)
  BY <1>1 DEF BeginSweep, storeVars
<1>2. CASE Forget(w)
  BY <1>2 DEF Forget, storeVars
<1>3. CASE \E p \in Projects : SkipUndetermined(w, p) \/ ListFails(w, p)
  BY <1>3 DEF SkipUndetermined, ListFails, storeVars, history
<1>4. CASE \E p \in Projects : ListProject(w, p)
  BY <1>4 DEF ListProject, storeVars, history
<1>5. CASE ReadPointer(w)
  BY <1>5 DEF ReadPointer, storeVars, history
<1>6. CASE GuardReadFails(w) \/ PlanProject(w)
  BY <1>6 DEF GuardReadFails, PlanProject, LeaveProject, storeVars, history
<1>7. CASE StartApply(w) \/ CandidatesDone(w) \/ RemovalFails(w)
  BY <1>7 DEF StartApply, CandidatesDone, RemovalFails, storeVars
<1>8. ASSUME NEW c \in planned[w], Refuse(w, c) \/ PassBackstop(w, c) PROVE GuardsHeld'
  BY <1>8 DEF Refuse, PassBackstop, storeVars, history
<1>9. CASE RemoveCandidate(w) \/ \E p \in Projects : RemoveEmptyProject(w, p)
  BY <1>9 DEF RemoveCandidate, RemoveEmptyProject, history
<1> QED BY <1>1, <1>2, <1>3, <1>4, <1>5, <1>6, <1>7, <1>8, <1>9
        DEF PlanStep, ApplyStep, ReportDryRun, EndSweep

LEMMA GuardStep == GuardInv /\ [Next]_vars => GuardInv'
<1> SUFFICES ASSUME GuardInv, [Next]_vars
             PROVE  GuardsHeld' /\ OnlyUnprotectedPlanned'
  BY PlanInvStep DEF GuardInv
<1> PlanInv /\ TypeInv /\ TypeInv'
  BY TypeStep DEF GuardInv, PlanInv
<1>1. \A v \in Sweepers : planned'[v] \subseteq Candidate
  BY DEF TypeInv, TypeOK, SweepTypeOK
<1>2. ASSUME NEW w \in Sweepers,
             BeginSweep(w) \/ PlanStep(w) \/ ApplyStep(w) \/ Forget(w)
      PROVE  GuardsHeld' /\ OnlyUnprotectedPlanned'
  <2>1. GuardsHeld'
    BY <1>2, SweepGuardsHeld
  <2>2. SUFFICES ASSUME NEW v \in Sweepers, NEW c \in planned'[v],
                        c.kind = "transcript", c.name[1] \notin acted'[v]
                 PROVE  ~Protected(c.name)'
    BY <2>1 DEF OnlyUnprotectedPlanned, Protected, PointedBy
  <2>3. acted'[v] = acted[v]
    BY <1>2, PlannedBefore
  <2>4. ~Protected(c.name)
    <3>1. CASE c \in planned[v]
      BY <2>2, <2>3, <3>1, UnprotectedIs DEF GuardInv
    <3>2. CASE v = w /\ pc[w] = "decide" /\ c \in PlannedTranscripts(w, cur[w])
      BY <2>2, <2>3, <3>2, PlannedUnprotected
    <3>3. c \notin PlannedLeftovers(w) /\ c \notin PlannedEntries(w, cur[w])
      BY <2>2 DEF PlannedLeftovers, PlannedEntries
    <3> QED BY <1>2, <3>1, <3>2, <3>3, PlannedBefore
  <2>5. c.name \in Name
    BY <1>1 DEF Candidate
  <2> QED BY <1>2, <2>4, <2>5, SweepProtectsNone
<1>3. ASSUME NEW s \in Sessions, SessionActs(s)
      PROVE  GuardsHeld' /\ OnlyUnprotectedPlanned'
  <2>1. UNCHANGED sweepVars
    BY <1>3 DEF SessionActs
  <2>2. ASSUME NEW v \in Sweepers, NEW t, t \notin acted'[v], pc[v] # "idle"
        PROVE  t \notin acted[v] /\ t # s
    BY <1>3, <2>2 DEF SessionActs, Noted, NotedIn, TypeInv, TypeOK, SweepTypeOK, Phases
  <2>3. GuardsHeld'
    <3> SUFFICES ASSUME NEW v \in Sweepers, pc[v] = "decide",
                        Verdict[cur[v]] = "ALIVE",
                        pointer'[cur[v]] # None, pointer'[cur[v]] \notin acted'[v]
                 PROVE  HashName(pointer'[cur[v]]) \in guarded[v]
      BY <2>1 DEF GuardsHeld, sweepVars, HashName
    <3>1. cur[v] \in Projects
      BY DEF TypeInv, AtWork
    <3>2. pointer'[cur[v]] \notin acted[v] /\ pointer'[cur[v]] # s
      BY <2>2
    <3>3. pointer'[cur[v]] = pointer[cur[v]]
      BY <1>3, <3>1, <3>2, PointerMoves
    <3> QED BY <3>2, <3>3 DEF GuardInv, GuardsHeld
  <2>4. SUFFICES ASSUME NEW v \in Sweepers, NEW c \in planned[v],
                        c.kind = "transcript", c.name[1] \notin acted'[v]
                 PROVE  ~Protected(c.name)'
    BY <2>1, <2>3 DEF OnlyUnprotectedPlanned, Protected, PointedBy, sweepVars
  <2>5. c.name \in Name
    BY DEF TypeInv, TypeOK, SweepTypeOK, Candidate
  <2>6. pc[v] # "idle"
    BY <2>4 DEF PlanInv, Untouched
  <2>7. c.name[1] \notin acted[v] /\ c.name[1] # s
    BY <2>2, <2>4, <2>6
  <2>8. ~Protected(c.name)
    BY <2>4, <2>7, UnprotectedIs DEF GuardInv
  <2> QED BY <1>3, <2>5, <2>7, <2>8, ProtectsOwn
<1>4. CASE UNCHANGED vars
  BY <1>4 DEF vars, sweepVars, storeVars, history, GuardInv, GuardsHeld,
              OnlyUnprotectedPlanned, PointedBy, HashName
<1> QED BY <1>2, <1>3, <1>4 DEF Next, CrashSweep

(* No plan holds a transcript that a live writer, its session's registry   *)
(* entry or its directory's pointer protects, unless that session acted    *)
(* after the sweep began.                                                  *)
THEOREM ProtectedNotPlanned == Spec => []OnlyUnprotectedPlanned
<1>1. Init => GuardInv
  BY TypeInit DEF Init, GuardInv, PlanInv, SeenOfCurrent, Untouched, PlannedOf, Nothing,
                  GuardsHeld, OnlyUnprotectedPlanned
<1>2. GuardInv => OnlyUnprotectedPlanned
  BY DEF GuardInv
<1> QED BY <1>1, <1>2, GuardStep, PTL DEF Spec

-----------------------------------------------------------------------------
(***************************************************************************)
(* The sweep is a Collector, if it keeps at least one transcript of every  *)
(* project: of a dead one it may be told to keep none.                     *)
(***************************************************************************)

(* The quota of the project at hand is among what it guards.               *)
QuotaGuarded ==
  \A w \in Sweepers : pc[w] \in {"pointer", "decide"} =>
    \E keep \in SUBSET guarded[w] : IsNewest(keep, QuotaOf(cur[w]), seen[w])

(* A transcript is planned once.                                           *)
PlannedOnce ==
  \A w \in Sweepers : \A c, d \in planned[w] :
    c.kind = "transcript" /\ d.kind = "transcript" /\ c.name = d.name => c = d

CollectorInv == PlanInv /\ QuotaGuarded /\ PlannedOnce

(* What a sweep does to them outside of the plan's steps.                  *)
LEMMA CollectorFrame ==
  ASSUME QuotaGuarded, PlannedOnce,
         \A v \in Sweepers :
           \/ pc'[v] \notin {"pointer", "decide"} /\ planned'[v] \in {planned[v], {}}
           \/ /\ pc'[v] = pc[v] /\ guarded'[v] = guarded[v] /\ cur'[v] = cur[v]
              /\ seen'[v] = seen[v] /\ planned'[v] = planned[v]
  PROVE  QuotaGuarded' /\ PlannedOnce'
BY DEF QuotaGuarded, PlannedOnce

LEMMA CollectorStep == CollectorInv /\ [Next]_vars => CollectorInv'
<1> SUFFICES ASSUME CollectorInv, [Next]_vars PROVE QuotaGuarded' /\ PlannedOnce'
  BY PlanInvStep DEF CollectorInv
<1> USE DEF CollectorInv, PlanInv, TypeInv, TypeOK, SweepTypeOK
<1>1. ASSUME NEW w \in Sweepers, BeginSweep(w) \/ CrashSweep(w)
      PROVE  QuotaGuarded' /\ PlannedOnce'
  BY <1>1, CollectorFrame DEF BeginSweep, CrashSweep, Forget
<1>2. ASSUME NEW w \in Sweepers, ApplyStep(w) PROVE QuotaGuarded' /\ PlannedOnce'
  BY <1>2, CollectorFrame
  DEF ApplyStep, StartApply, Planned, ReportDryRun, Refuse, PassBackstop, RemoveCandidate,
      RemovalFails, CandidatesDone, RemoveEmptyProject, EndSweep, Forget
<1>3. ASSUME NEW w \in Sweepers, NEW p \in Projects, SkipUndetermined(w, p) \/ ListFails(w, p)
      PROVE  QuotaGuarded' /\ PlannedOnce'
  BY <1>3, CollectorFrame DEF SkipUndetermined, ListFails
<1>4. ASSUME NEW w \in Sweepers, GuardReadFails(w) PROVE QuotaGuarded' /\ PlannedOnce'
  BY <1>4, CollectorFrame DEF GuardReadFails, LeaveProject
<1>5. ASSUME NEW w \in Sweepers, NEW p \in Projects, ListProject(w, p)
      PROVE  QuotaGuarded' /\ PlannedOnce'
  <2>1. /\ cur' = [cur EXCEPT ![w] = p] /\ planned' = planned
        /\ \A v \in Sweepers \ {w} : /\ pc'[v] = pc[v] /\ guarded'[v] = guarded[v]
                                     /\ seen'[v] = seen[v] /\ cur'[v] = cur[v]
    BY <1>5 DEF ListProject
  <2>2. \E keep \in SUBSET guarded'[w] : IsNewest(keep, QuotaOf(cur'[w]), seen'[w])
    BY <1>5, <2>1 DEF ListProject
  <2>3. QuotaGuarded'
    BY <2>1, <2>2 DEF QuotaGuarded
  <2> QED  BY <2>1, <2>3 DEF PlannedOnce
<1>6. ASSUME NEW w \in Sweepers, ReadPointer(w) PROVE QuotaGuarded' /\ PlannedOnce'
  <2>1. /\ UNCHANGED <<cur, seen, planned>> /\ \A v \in Sweepers : guarded[v] \subseteq guarded'[v]
        /\ \A v \in Sweepers : pc'[v] \in {"pointer", "decide"} => pc[v] \in {"pointer", "decide"}
    BY <1>6 DEF ReadPointer
  <2> QED  BY <2>1 DEF QuotaGuarded, PlannedOnce
<1>7. ASSUME NEW w \in Sweepers, PlanProject(w) PROVE QuotaGuarded' /\ PlannedOnce'
  <2>1. /\ pc'[w] = "plan"
        /\ \A v \in Sweepers \ {w} :
             /\ pc'[v] = pc[v] /\ guarded'[v] = guarded[v] /\ cur'[v] = cur[v]
             /\ seen'[v] = seen[v] /\ planned'[v] = planned[v]
    BY <1>7 DEF PlanProject, LeaveProject
  <2>2. QuotaGuarded'
    BY <2>1 DEF QuotaGuarded
  <2>3. ASSUME NEW c \in planned'[w], NEW d \in planned'[w],
               c.kind = "transcript", d.kind = "transcript", c.name = d.name
        PROVE  c = d
    <3> DEFINE new == PlannedTranscripts(w, cur[w])
    <3>1. \A e \in planned'[w] : e.kind = "transcript" => e \in planned[w] \/ e \in new
      BY <1>7 DEF PlanProject, PlannedLeftovers, PlannedEntries
    <3>2. \A e \in new : Project(e.name) = cur[w]
      BY <1>7, PlannedOfCurrent DEF PlanProject
    <3>3. \A e \in planned[w] : Project(e.name) # cur[w]
      BY <1>7 DEF PlanProject, Untouched, PlannedOf
    <3>4. \A e, f \in new : e.name = f.name => e = f
      BY DEF PlannedTranscripts
    <3> HIDE DEF new
    <3> QED  BY <2>3, <3>1, <3>2, <3>3, <3>4 DEF PlannedOnce
  <2> QED  BY <2>1, <2>2, <2>3 DEF PlannedOnce
<1>8. CASE (\E s \in Sessions : SessionActs(s)) \/ UNCHANGED vars
  BY <1>8, CollectorFrame DEF SessionActs, sweepVars, vars
<1> QED
  BY <1>1, <1>2, <1>3, <1>4, <1>5, <1>6, <1>7, <1>8 DEF Next, PlanStep

LEMMA CollectorInvariant == Spec => []CollectorInv
<1>1. Init => QuotaGuarded /\ PlannedOnce
  BY DEF Init, QuotaGuarded, PlannedOnce
<1>2. CollectorInv <=> PlanInv /\ QuotaGuarded /\ PlannedOnce
  BY DEF CollectorInv
<1>3. CollectorInv /\ [Next]_vars => CollectorInv'
  BY CollectorStep
<1> QED  BY <1>1, <1>2, <1>3, PlanInvariant, PTL DEF Spec

LEMMA NameFinite == IsFiniteSet(Name)
<1>1. IsFiniteSet({} \union {"hash"})
  BY FS_EmptySet, FS_AddElement
<1>2. IsFiniteSet(({} \union {"hash"}) \union {"raw"})
  BY <1>1, FS_AddElement
<1>3. ({} \union {"hash"}) \union {"raw"} = {"hash", "raw"}
  OBVIOUS
<1> QED BY <1>2, <1>3, SessionsAssumption, FS_Product DEF Name

(* A quota that is not empty holds one at least as new as what it leaves.  *)
LEMMA QuotaHasNewer ==
  ASSUME NEW listing \in [Artifact -> Rank \union {Absent, Undatable}],
         NEW count \in Nat \ {0}, NEW keep, IsNewest(keep, count, listing),
         NEW n \in Name \ keep, Collectable(listing[Transcript(n)])
  PROVE  \E m \in Name \ {n} : /\ listing[Transcript(m)] \in Nat
                               /\ listing[Transcript(m)] >= listing[Transcript(n)]
<1> DEFINE all == QuotaCandidates(listing)
<1>1. IsFiniteSet(Name)
  BY NameFinite
<1>2. all \subseteq Name /\ n \in all
  BY DEF QuotaCandidates, Collectable
<1>3. Cardinality(all) \in Nat \ {0}
  BY <1>1, <1>2, FS_Subset, FS_CardinalityType, FS_EmptySet
<1>4. keep \subseteq all /\ keep # {}
  BY <1>3, FS_EmptySet DEF IsNewest
<1>5. PICK m \in keep : DateOf(listing, n) <= DateOf(listing, m)
  BY <1>2, <1>4 DEF IsNewest
<1>6. listing[Transcript(m)] \in Rank /\ listing[Transcript(n)] \in Rank /\ m \in Name /\ m # n
  BY <1>2, <1>4, <1>5 DEF QuotaCandidates
<1> QED  BY <1>5, <1>6 DEF DateOf, Rank

(* The variables of the abstract specification.                            *)
Doomed(w) ==
  {c.name : c \in {d \in Queue(w) : d.kind = "transcript" /\ ~ViaRegistry(d)}}

Age == [n \in Name |-> disk[Transcript(n)]]
Look == [w \in Sweepers |-> [n \in Name |-> seen[w][Transcript(n)]]]
Kept == [w \in Sweepers |-> Doomed(w)]
Taken == {r[1] : r \in swept}

LEMMA AbstractSteps ==
  /\ Taken' \subseteq Taken /\ UNCHANGED <<Look, Kept>> => Coll!Next
  /\ \A w \in Sweepers :
       /\ \A v \in Sweepers \ {w} : Look'[v] = Look[v]
       /\ \A n \in Name : Look'[w][n] \notin Nat \/ Look'[w][n] = Age[n]
       /\ UNCHANGED <<Age, Kept, Taken>>
       => Coll!Next
  /\ \A w \in Sweepers :
       /\ \A v \in Sweepers \ {w} : Look'[v] = Look[v] /\ Kept'[v] = Kept[v]
       /\ Kept'[w] \subseteq Kept[w]
       /\ Taken' \subseteq Taken /\ Age' = Age
       => Coll!Next
  /\ \A w \in Sweepers :
       /\ \A v \in Sweepers \ {w} : Look'[v] = Look[v] /\ Kept'[v] = Kept[v]
       /\ Kept[w] \subseteq Kept'[w]
       /\ Kept'[w] \subseteq Kept[w] \union Coll!Doomable(Look[w])
       /\ UNCHANGED <<Age, Taken>>
       => Coll!Next
  /\ \A w \in Sweepers, n \in Name :
       /\ n \in Kept[w] /\ Age[n] # Absent
       /\ Age' = [Age EXCEPT ![n] = Absent]
       /\ Kept' = [Kept EXCEPT ![w] = @ \ {n}]
       /\ Taken' = Taken \union {n} /\ Look' = Look
       => Coll!Next
BY DEF Coll!Next, Coll!Use, Coll!Look, Coll!Doom, Coll!Spare, Coll!Take, Age, Look, Kept,
       Doomed, Taken

(* What becomes of each of them.                                           *)
LEMMA Mapped ==
  /\ UNCHANGED disk => Age' = Age
  /\ UNCHANGED swept => Taken' = Taken
  /\ UNCHANGED seen => Look' = Look
  /\ UNCHANGED <<planned, removed, refused>> => Kept' = Kept
  /\ \A w \in Sweepers : seen'[w] = seen[w] => Look'[w] = Look[w]
  /\ \A w \in Sweepers :
       planned'[w] = planned[w] /\ removed'[w] = removed[w] /\ refused'[w] = refused[w]
         => Kept'[w] = Kept[w]
  /\ \A w \in Sweepers :
       planned'[w] = planned[w] /\ removed[w] \subseteq removed'[w]
           /\ refused[w] \subseteq refused'[w]
         => Kept'[w] \subseteq Kept[w]
  /\ \A w \in Sweepers : planned'[w] = {} => Kept'[w] = {}
BY DEF Age, Taken, Look, Kept, Doomed, Queue

(* Nothing is said of the sweeps that do not take the step.                *)
LEMMA OthersStay ==
  ASSUME TypeInv, NEW w \in Sweepers, BeginSweep(w) \/ PlanStep(w) \/ ApplyStep(w) \/ CrashSweep(w)
  PROVE  \A v \in Sweepers \ {w} : Look'[v] = Look[v] /\ Kept'[v] = Kept[v]
<1> USE DEF TypeInv, TypeOK, SweepTypeOK
<1> SUFFICES \A v \in Sweepers \ {w} :
               /\ seen'[v] = seen[v] /\ planned'[v] = planned[v]
               /\ removed'[v] = removed[v] /\ refused'[v] = refused[v]
  BY Mapped
<1>1. CASE BeginSweep(w) \/ CrashSweep(w)
  BY <1>1 DEF BeginSweep, CrashSweep, Forget
<1>2. CASE PlanStep(w)
  BY <1>2 DEF PlanStep, SkipUndetermined, ListFails, ListProject, ReadPointer, GuardReadFails,
              PlanProject, LeaveProject
<1>3. CASE ApplyStep(w)
  BY <1>3 DEF ApplyStep, StartApply, ReportDryRun, Refuse, PassBackstop, RemoveCandidate,
              RemovalFails, CandidatesDone, RemoveEmptyProject, EndSweep, Forget
<1> QED  BY <1>1, <1>2, <1>3

(* A plan dooms what was beyond the window and not the newest of a project.*)
LEMMA PlanDooms ==
  ASSUME CollectorInv, NEW w \in Sweepers, PlanProject(w), \A p \in Projects : QuotaOf(p) > 0
  PROVE  /\ Kept[w] \subseteq Kept'[w]
         /\ Kept'[w] \subseteq Kept[w] \union Coll!Doomable(Look[w])
<1> USE DEF CollectorInv, PlanInv, TypeInv, TypeOK, SweepTypeOK
<1>1. /\ planned[w] \subseteq planned'[w] /\ UNCHANGED <<removed, refused>>
      /\ \A c \in planned'[w] : c.kind = "transcript" =>
           c \in planned[w] \/ c \in PlannedTranscripts(w, cur[w])
  BY DEF PlanProject, PlannedLeftovers, PlannedEntries
<1>2. Kept[w] \subseteq Kept'[w]
  BY <1>1 DEF Kept, Doomed, Queue
<1>3. ASSUME NEW n \in Kept'[w], n \notin Kept[w] PROVE n \in Coll!Doomable(Look[w])
  <2>1. n \in Name \ guarded[w] /\ Collectable(seen[w][Transcript(n)])
    BY <1>1, <1>3 DEF Kept, Doomed, Queue, PlannedTranscripts
  <2>2. pc[w] = "decide" /\ cur[w] \in Projects
    BY DEF PlanProject, AtWork
  <2>3. PICK keep \in SUBSET guarded[w] : IsNewest(keep, QuotaOf(cur[w]), seen[w])
    BY <2>2 DEF QuotaGuarded
  <2>4. QuotaOf(cur[w]) \in Nat \ {0}
    BY <2>2, KeepLastAssumption DEF QuotaOf
  <2>5. \E m \in Name \ {n} : /\ seen[w][Transcript(m)] \in Nat
                              /\ seen[w][Transcript(m)] >= seen[w][Transcript(n)]
    BY <2>1, <2>3, <2>4, QuotaHasNewer
  <2> QED  BY <2>1, <2>5 DEF Coll!Doomable, Look, Collectable, Rank
<1> QED  BY <1>2, <1>3

LEMMA NamesOfOneMore ==
  ASSUME NEW S, NEW a, NEW b
  PROVE  {r[1] : r \in S \union {<<a, b>>}} = {r[1] : r \in S} \union {a}
<1>1. <<a, b>>[1] = a
  OBVIOUS
<1>2. \A x : x \in {r[1] : r \in S \union {<<a, b>>}} <=> \E r \in S \union {<<a, b>>} : x = r[1]
  OBVIOUS
<1>3. \A x : x \in {r[1] : r \in S} <=> \E r \in S : x = r[1]
  OBVIOUS
<1>4. \A x : (\E r \in S \union {<<a, b>>} : x = r[1]) <=> (\E r \in S : x = r[1]) \/ x = a
  <2> SUFFICES ASSUME NEW x
               PROVE  (\E r \in S \union {<<a, b>>} : x = r[1]) <=> (\E r \in S : x = r[1]) \/ x = a
    OBVIOUS
  <2>1. (\E r \in S \union {<<a, b>>} : x = r[1]) => (\E r \in S : x = r[1]) \/ x = a
    BY <1>1
  <2>2. (\E r \in S : x = r[1]) => \E r \in S \union {<<a, b>>} : x = r[1]
    OBVIOUS
  <2>3. x = a => \E r \in S \union {<<a, b>>} : x = r[1]
    BY <1>1
  <2> QED  BY <2>1, <2>2, <2>3
<1> QED  BY <1>2, <1>3, <1>4

LEMMA RemovalTakes ==
  ASSUME CollectorInv, NEW w \in Sweepers, RemoveCandidate(w)
  PROVE  Coll!Next
<1> USE DEF CollectorInv, PlanInv, TypeInv, TypeOK, SweepTypeOK, StoreTypeOK
<1> DEFINE c == target[w]
<1>1. /\ c \in Queue(w) /\ c \in Candidate /\ UNCHANGED <<seen, planned, refused>>
      /\ removed' = [removed EXCEPT ![w] = @ \union {c}]
  BY DEF RemoveCandidate, AtWork, Queue
<1>2. \A v \in Sweepers \ {w} : Look'[v] = Look[v] /\ Kept'[v] = Kept[v]
  BY OthersStay DEF ApplyStep
<1>3. CASE c.kind = "transcript" /\ ~ViaRegistry(c) /\ Present(c.name)
  <2>1. c.name \in Name /\ Transcript(c.name) = <<c.kind, c.name>> /\ swept' = swept \union {<<c.name, c.age>>}
    BY <1>1, <1>3 DEF RemoveCandidate, Candidate, Transcript
  <2>2. c.name \in Kept[w] /\ Age[c.name] # Absent
    BY <1>1, <1>3, <2>1 DEF Kept, Doomed, Age, Present
  <2>3. Age' = [Age EXCEPT ![c.name] = Absent]
    <3>1. disk' = [disk EXCEPT ![Transcript(c.name)] = Absent]
      BY <1>3, <2>1 DEF RemoveCandidate
    <3>2. \A n \in Name : Transcript(n) \in Artifact /\ (Transcript(n) = Transcript(c.name) <=> n = c.name)
      BY DEF Transcript, Artifact, ArtifactKind
    <3> QED  BY <3>1, <3>2, <2>1 DEF Age
  <2>4. Kept'[w] = Kept[w] \ {c.name}
    <3>1. \A d \in Queue(w) : d.kind = "transcript" /\ d.name = c.name => d = c
      BY <1>1, <1>3 DEF PlannedOnce, Queue
    <3>2. Queue(w)' = Queue(w) \ {c}
      BY <1>1 DEF Queue
    <3> QED  BY <1>1, <1>3, <3>1, <3>2 DEF Kept, Doomed
  <2>5. Kept' = [Kept EXCEPT ![w] = @ \ {c.name}]
    BY <1>2, <2>4 DEF Kept
  <2>6. Taken' = Taken \union {c.name}
    <3>1. {r[1] : r \in swept \union {<<c.name, c.age>>}} = {r[1] : r \in swept} \union {c.name}
      BY NamesOfOneMore
    <3> HIDE DEF c
    <3> QED  BY <2>1, <3>1 DEF Taken
  <2> QED  BY <1>1, <2>1, <2>2, <2>3, <2>5, <2>6, AbstractSteps, Mapped
<1>4. CASE ~(c.kind = "transcript" /\ ~ViaRegistry(c) /\ Present(c.name))
  <2>1. swept' = swept
    BY <1>4 DEF RemoveCandidate
  <2>2. Age' = Age
    <3>1. CASE ViaRegistry(c)
      BY <3>1, Mapped DEF RemoveCandidate
    <3>2. CASE ~ViaRegistry(c)
      <4>1. disk' = [disk EXCEPT ![<<c.kind, c.name>>] = Absent]
        BY <3>2 DEF RemoveCandidate
      <4>2. \A n \in Name : /\ Transcript(n) \in Artifact
                            /\ Transcript(n) = <<c.kind, c.name>> => c.kind = "transcript" /\ n = c.name
        BY DEF Transcript, Artifact, ArtifactKind
      <4>3. \A n \in Name : disk'[Transcript(n)] = disk[Transcript(n)]
        BY <1>4, <3>2, <4>1, <4>2 DEF Present
      <4> QED  BY <4>3 DEF Age
    <3> QED  BY <3>1, <3>2
  <2>3. Kept'[w] \subseteq Kept[w]
    BY <1>1, Mapped
  <2> QED  BY <1>2, <2>1, <2>2, <2>3, AbstractSteps, Mapped
<1> QED  BY <1>3, <1>4

LEMMA SweepImplements ==
  ASSUME CollectorInv, NEW w \in Sweepers, \A p \in Projects : QuotaOf(p) > 0,
         BeginSweep(w) \/ PlanStep(w) \/ ApplyStep(w) \/ CrashSweep(w)
  PROVE  Coll!Next
<1> USE DEF CollectorInv, PlanInv, TypeInv, TypeOK, SweepTypeOK
<1>a. \A v \in Sweepers \ {w} : Look'[v] = Look[v] /\ Kept'[v] = Kept[v]
  BY OthersStay
<1>1. CASE BeginSweep(w)
  BY <1>1, AbstractSteps, Mapped DEF BeginSweep
<1>2. CASE Forget(w)
  <2>1. UNCHANGED <<disk, swept>> /\ planned'[w] = {}
    BY <1>2 DEF Forget, storeVars
  <2> QED  BY <1>a, <2>1, AbstractSteps, Mapped
<1>3. ASSUME NEW p \in Projects, SkipUndetermined(w, p) \/ ListFails(w, p) PROVE Coll!Next
  BY <1>3, AbstractSteps, Mapped DEF SkipUndetermined, ListFails, history
<1>4. ASSUME NEW p \in Projects, ListProject(w, p) PROVE Coll!Next
  <2>1. UNCHANGED <<disk, swept, planned, removed, refused>>
    BY <1>4 DEF ListProject, storeVars, history
  <2>2. PICK bad \in SUBSET Unstatable : seen' = [seen EXCEPT ![w] = ListingOf(p, bad)]
    BY <1>4 DEF ListProject
  <2>3. \A n \in Name : Look'[w][n] \notin Nat \/ Look'[w][n] = Age[n]
    BY <2>2 DEF Look, Age, ListingOf, Transcript, Artifact, ArtifactKind
  <2> QED  BY <1>a, <2>1, <2>3, AbstractSteps, Mapped
<1>5. CASE ReadPointer(w)
  BY <1>5, AbstractSteps, Mapped DEF ReadPointer, history
<1>6. CASE GuardReadFails(w)
  <2>1. UNCHANGED <<disk, swept, planned, removed, refused>>
    BY <1>6 DEF GuardReadFails, storeVars, history
  <2> QED  BY <1>a, <2>1, AbstractSteps, Mapped
<1>7. CASE PlanProject(w)
  <2>1. UNCHANGED <<disk, swept>>
    BY <1>7 DEF PlanProject, storeVars, history
  <2> QED  BY <1>7, <1>a, <2>1, PlanDooms, AbstractSteps, Mapped
<1>8. CASE StartApply(w) \/ CandidatesDone(w) \/ \E p \in Projects : RemoveEmptyProject(w, p)
  BY <1>8, AbstractSteps, Mapped DEF StartApply, CandidatesDone, RemoveEmptyProject, history
<1>9. ASSUME NEW c \in planned[w], PassBackstop(w, c) PROVE Coll!Next
  BY <1>9, AbstractSteps, Mapped DEF PassBackstop
<1>10. ASSUME \/ \E c \in planned[w] : Refuse(w, c)
              \/ RemovalFails(w)
       PROVE Coll!Next
  <2>1. UNCHANGED <<disk, swept, planned, removed>> /\ refused[w] \subseteq refused'[w]
    BY <1>10 DEF Refuse, RemovalFails, storeVars, history
  <2> QED  BY <1>a, <2>1, AbstractSteps, Mapped
<1>11. CASE RemoveCandidate(w)
  BY <1>11, RemovalTakes
<1> QED
  BY <1>1, <1>2, <1>3, <1>4, <1>5, <1>6, <1>7, <1>8, <1>9, <1>10, <1>11
  DEF PlanStep, ApplyStep, CrashSweep, ReportDryRun, EndSweep

(* The all-projects sweep implements Collector, whatever sessions do and   *)
(* however many sweeps run, with every quota that leaves a transcript.     *)
THEOREM IsCollector ==
  ASSUME \A p \in Projects : QuotaOf(p) > 0
  PROVE  Spec => Collects
<1>1. Init => Coll!Init
  BY DEF Coll!Init, Init, Queue
<1>2. CollectorInv /\ [Next]_vars => [Coll!Next]_(Coll!vars)
  <2> SUFFICES ASSUME CollectorInv, [Next]_vars PROVE Coll!Next
    OBVIOUS
  <2>1. ASSUME NEW s \in Sessions, SessionActs(s) PROVE Coll!Next
    <3>1. swept' \subseteq swept /\ UNCHANGED <<seen, planned, removed, refused>>
      BY <2>1 DEF SessionActs, sweepVars
    <3>2. Taken' \subseteq Taken
      BY <3>1 DEF Taken
    <3> QED  BY <3>1, <3>2, AbstractSteps, Mapped
  <2>2. CASE UNCHANGED vars
    BY <2>2, AbstractSteps, Mapped DEF vars, sweepVars, history
  <2> QED  BY <2>1, <2>2, SweepImplements DEF Next
<1> QED  BY <1>1, <1>2, CollectorInvariant, PTL DEF Spec, Collects, Coll!Spec

-----------------------------------------------------------------------------
(***************************************************************************)
(* The quota stays on disk, as long as one sweeper runs at a time.         *)
(***************************************************************************)
OneSweeper == \A v, w \in Sweepers : v = w

(* What a sweep may still unlink, and the age it takes it for: what waits  *)
(* in its queue, and what it found beyond the window and does not guard.   *)
Queued(w, n, a) ==
  \E c \in Queue(w) : c.kind = "transcript" /\ ~ViaRegistry(c) /\ c.name = n /\ c.age = a

Unguarded(w, n, a) ==
  n \notin guarded[w] /\ a = seen[w][Transcript(n)] /\ Collectable(a)

MayTake(w, n, a) == Queued(w, n, a) \/ Unguarded(w, n, a)

(* A quota of project p, each member on disk and no older than age, unless *)
(* its user deleted it.                                                    *)
Quota(keep, p, age) ==
  /\ Cardinality(keep) >= KeepLast
  /\ \A n \in keep :
       /\ Project(n) = p
       /\ n \in userDeleted \/ (disk[Transcript(n)] \in Rank /\ disk[Transcript(n)] >= age)

(* What was unlinked leaves a quota of which a sweep takes only what is as *)
(* new; what a sweep may unlink leaves one of which it takes nothing.      *)
SweptLeave ==
  \A r \in swept : \E keep \in SUBSET Name :
    /\ Quota(keep, Project(r[1]), r[2])
    /\ \A w \in Sweepers, n \in keep, a \in Rank : MayTake(w, n, a) => a >= r[2]

TakenLeave ==
  \A w \in Sweepers, n \in Name, a \in Rank : MayTake(w, n, a) =>
    \E keep \in SUBSET Name :
      /\ Quota(keep, Project(n), a)
      /\ \A m \in keep, b \in Rank : ~MayTake(w, m, b)

DeletedGone == \A n \in userDeleted : ~Present(n)

FloorInv == SweptLeave /\ TakenLeave /\ DeletedGone

LEMMA TranscriptFacts ==
  /\ Absent \notin Rank /\ Undatable \notin Rank
  /\ \A n \in Name : Transcript(n) \in Artifact /\ Transcript(n)[2] = n
  /\ \A m, n \in Name : Transcript(m) = Transcript(n) <=> m = n
BY DEF Rank, Transcript, Artifact, ArtifactKind

(* A date a listing gives is the one on disk.                              *)
LEMMA ListingDates ==
  ASSUME NEW p, NEW bad, NEW n \in Name, ListingOf(p, bad)[Transcript(n)] \in Rank
  PROVE  Project(n) = p /\ disk[Transcript(n)] = ListingOf(p, bad)[Transcript(n)]
BY TranscriptFacts DEF ListingOf

(* What has no date in a listing is not taken for it.                      *)
LEMMA UnguardedSeen ==
  ASSUME TypeInv, SeenOfCurrent, NEW w \in Sweepers, NEW n \in Name, NEW a, Unguarded(w, n, a)
  PROVE  pc[w] \in {"pointer", "decide"} /\ seen[w][Transcript(n)] \in Rank
BY TranscriptFacts DEF SeenOfCurrent, Unguarded, Collectable

(* A step that takes nothing new, and leaves each file at least as new or  *)
(* deleted by its user, keeps the quotas.                                  *)
LEMMA FloorFrame ==
  ASSUME TypeInv, FloorInv,
         swept' \subseteq swept, DeletedGone',
         \A w \in Sweepers, n \in Name, a \in Rank : MayTake(w, n, a)' => MayTake(w, n, a),
         \A n \in Name, a \in Rank :
           n \in userDeleted \/ (disk[Transcript(n)] \in Rank /\ disk[Transcript(n)] >= a)
           => n \in userDeleted' \/ (disk'[Transcript(n)] \in Rank /\ disk'[Transcript(n)] >= a)
  PROVE  FloorInv'
<1>1. ASSUME NEW keep \in SUBSET Name, NEW p, NEW a \in Rank, Quota(keep, p, a)
      PROVE  Quota(keep, p, a)'
  BY <1>1 DEF Quota
<1>2. SweptLeave'
  <2> SUFFICES ASSUME NEW r \in swept
               PROVE  \E keep \in SUBSET Name :
                        /\ Quota(keep, Project(r[1]), r[2])'
                        /\ \A w \in Sweepers, n \in keep, a \in Rank :
                             MayTake(w, n, a)' => a >= r[2]
    BY DEF SweptLeave
  <2>1. r[2] \in Rank
    BY DEF TypeInv, TypeOK, HistoryTypeOK
  <2>2. PICK keep \in SUBSET Name :
          /\ Quota(keep, Project(r[1]), r[2])
          /\ \A w \in Sweepers, n \in keep, a \in Rank : MayTake(w, n, a) => a >= r[2]
    BY DEF FloorInv, SweptLeave
  <2>3. Quota(keep, Project(r[1]), r[2])'
    BY <1>1, <2>1, <2>2
  <2>4. \A w \in Sweepers, n \in keep, a \in Rank : MayTake(w, n, a)' => a >= r[2]
    BY <2>2
  <2> QED BY <2>3, <2>4
<1>3. TakenLeave'
  <2> SUFFICES ASSUME NEW w \in Sweepers, NEW n \in Name, NEW a \in Rank, MayTake(w, n, a)'
               PROVE  \E keep \in SUBSET Name :
                        /\ Quota(keep, Project(n), a)'
                        /\ \A m \in keep, b \in Rank : ~MayTake(w, m, b)'
    BY DEF TakenLeave
  <2>1. PICK keep \in SUBSET Name : /\ Quota(keep, Project(n), a)
                                    /\ \A m \in keep, b \in Rank : ~MayTake(w, m, b)
    BY DEF FloorInv, TakenLeave
  <2>2. Quota(keep, Project(n), a)'
    BY <1>1, <2>1
  <2> QED BY <2>1, <2>2
<1> QED BY <1>2, <1>3 DEF FloorInv

(* A session's operation writes its transcript anew, or deletes it for its *)
(* user.                                                                   *)
LEMMA FloorSession ==
  ASSUME TypeInv, FloorInv, NEW s \in Sessions, SessionActs(s)
  PROVE  FloorInv'
<1> DEFINE h == HashName(s)
<1>0. /\ h \in Name /\ Fresh \in Rank /\ disk \in [Artifact -> Rank \union {Absent}]
      /\ \A n \in Name : /\ Transcript(n) \in Artifact /\ Transcript(n) # Lock(h)
                         /\ (Transcript(n) = Transcript(h) <=> n = h)
      /\ userDeleted \subseteq Name
  BY DEF HashName, Name, Rank, TypeInv, TypeOK, StoreTypeOK, HistoryTypeOK, Transcript, Lock,
         Artifact, ArtifactKind
<1>1. \A w \in Sweepers, n \in Name, a \in Rank : MayTake(w, n, a)' <=> MayTake(w, n, a)
  BY DEF SessionActs, sweepVars, MayTake, Queued, Unguarded, Queue
<1> HIDE DEF h
<1>2. CASE Writes(s) /\ swept' = {r \in swept : r[1] # h} /\ userDeleted' = userDeleted \ {h}
  <2>1. /\ disk'[Transcript(h)] = Fresh
        /\ \A n \in Name : n # h => disk'[Transcript(n)] = disk[Transcript(n)]
    BY <1>0, <1>2 DEF Writes, StartTurn, EndTurn, ForkSession, h
  <2>2. DeletedGone'
    BY <1>0, <1>2, <2>1 DEF FloorInv, DeletedGone, Present
  <2>3. \A a \in Rank : Fresh >= a
    BY DEF Rank
  <2> QED BY <1>0, <1>1, <1>2, <2>1, <2>2, <2>3, FloorFrame
<1>3. CASE Repoints(s) /\ UNCHANGED <<swept, userDeleted>>
  <2>1. disk' = disk
    BY <1>3 DEF Repoints, CrashTurn, NewSession, ResumeSession, ArchiveSession
  <2> QED BY <1>1, <1>3, <2>1, FloorFrame DEF FloorInv, DeletedGone, Present
<1>4. CASE /\ DeleteSession(s) /\ swept' = swept
           /\ userDeleted' = IF Present(h) THEN userDeleted \union {h} ELSE userDeleted
  <2>1. disk' = [disk EXCEPT ![Transcript(h)] = Absent]
    BY <1>4 DEF DeleteSession, h
  <2>2. DeletedGone'
    BY <1>0, <1>4, <2>1 DEF FloorInv, DeletedGone, Present
  <2> QED BY <1>0, <1>1, <1>4, <2>1, <2>2, FloorFrame DEF Present
<1> QED BY <1>2, <1>3, <1>4 DEF SessionActs, h

(* A listing dates a file by what is on disk, and a file somebody deleted  *)
(* has no date; what it does not guard of the quota's candidates is no     *)
(* newer than the quota.                                                   *)
LEMMA FloorList ==
  ASSUME CollectorInv, FloorInv, OneSweeper, NEW w \in Sweepers, NEW p \in Projects,
         ListProject(w, p)
  PROVE  FloorInv'
<1> USE DEF CollectorInv, PlanInv, TypeInv, TypeOK, SweepTypeOK
<1>0. /\ UNCHANGED <<disk, swept, userDeleted, planned, removed, refused>>
      /\ pc[w] = "plan" /\ p \in todo[w]
      /\ \A v \in Sweepers : v = w
      /\ \A v \in Sweepers : \A n, a : Queued(v, n, a)' <=> Queued(v, n, a)
  BY DEF ListProject, storeVars, history, Queued, Queue, OneSweeper
<1>1. PICK bad \in SUBSET Unstatable : seen' = [seen EXCEPT ![w] = ListingOf(p, bad)]
  BY DEF ListProject
<1>2. PICK keep \in SUBSET Name : /\ IsNewest(keep, QuotaOf(p), seen'[w])
                                  /\ guarded'[w] = keep
  BY <1>1 DEF ListProject
<1>3. \A n \in Name, a \in Rank : Unguarded(w, n, a)' =>
        Project(n) = p /\ n \notin keep /\ disk[Transcript(n)] = a
          /\ seen'[w][Transcript(n)] = a /\ n \in QuotaCandidates(seen'[w])
  <2> SUFFICES ASSUME NEW n \in Name, NEW a \in Rank, Unguarded(w, n, a)'
               PROVE  Project(n) = p /\ n \notin keep /\ disk[Transcript(n)] = a
                        /\ seen'[w][Transcript(n)] = a /\ n \in QuotaCandidates(seen'[w])
    OBVIOUS
  <2>1. seen'[w] = ListingOf(p, bad) /\ seen'[w][Transcript(n)] = a /\ n \notin guarded'[w]
    BY <1>1 DEF Unguarded
  <2>2. Project(n) = p /\ disk[Transcript(n)] = a
    BY <2>1, ListingDates
  <2> QED BY <1>2, <2>1, <2>2 DEF QuotaCandidates
<1>4. \A n \in Name, a \in Rank : Queued(w, n, a) => Project(n) # p
  BY <1>0 DEF Queued, Queue, Untouched, PlannedOf
<1>5. \A n \in Name, a \in Rank : ~Unguarded(w, n, a)
  BY <1>0, UnguardedSeen
<1>6. SweptLeave'
  <2> SUFFICES ASSUME NEW r \in swept
               PROVE  \E K \in SUBSET Name :
                        /\ Quota(K, Project(r[1]), r[2])'
                        /\ \A v \in Sweepers, n \in K, a \in Rank :
                             MayTake(v, n, a)' => a >= r[2]
    BY <1>0 DEF SweptLeave
  <2>1. PICK K \in SUBSET Name :
          /\ Quota(K, Project(r[1]), r[2])
          /\ \A v \in Sweepers, n \in K, a \in Rank : MayTake(v, n, a) => a >= r[2]
    BY DEF FloorInv, SweptLeave
  <2>2. Quota(K, Project(r[1]), r[2])'
    BY <1>0, <2>1 DEF Quota
  <2>3. ASSUME NEW n \in K, NEW a \in Rank, Unguarded(w, n, a)' PROVE a >= r[2]
    <3>1. disk[Transcript(n)] = a /\ n \notin userDeleted
      BY <1>3, <2>3, TranscriptFacts DEF FloorInv, DeletedGone, Present
    <3> QED BY <2>1, <3>1 DEF Quota
  <2>4. \A v \in Sweepers, n \in K, a \in Rank : MayTake(v, n, a)' => a >= r[2]
    BY <1>0, <2>1, <2>3 DEF MayTake
  <2> QED BY <2>2, <2>4
<1>7. TakenLeave'
  <2> SUFFICES ASSUME NEW n \in Name, NEW a \in Rank, MayTake(w, n, a)'
               PROVE  \E K \in SUBSET Name :
                        /\ Quota(K, Project(n), a)'
                        /\ \A m \in K, b \in Rank : ~MayTake(w, m, b)'
    BY <1>0 DEF TakenLeave
  <2>1. CASE Queued(w, n, a)
    <3>1. PICK K \in SUBSET Name : /\ Quota(K, Project(n), a)
                                   /\ \A m \in K, b \in Rank : ~MayTake(w, m, b)
      BY <2>1 DEF FloorInv, TakenLeave, MayTake
    <3>2. \A m \in K : Project(m) # p
      BY <1>4, <2>1, <3>1 DEF Quota
    <3>3. \A m \in K, b \in Rank : ~MayTake(w, m, b)'
      BY <1>0, <1>3, <3>1, <3>2 DEF MayTake
    <3>4. Quota(K, Project(n), a)'
      BY <1>0, <3>1 DEF Quota
    <3> QED BY <3>3, <3>4
  <2>2. CASE Unguarded(w, n, a)'
    <3> DEFINE all == QuotaCandidates(seen'[w])
    <3>1. /\ n \in all \ keep /\ Project(n) = p /\ all \subseteq Name /\ keep \subseteq all
          /\ seen'[w][Transcript(n)] = a
      BY <1>2, <1>3, <2>2 DEF QuotaCandidates, IsNewest
    <3>2. /\ IsFiniteSet(all) /\ Cardinality(all) \in Nat /\ QuotaOf(p) \in Nat
          /\ QuotaOf(p) >= KeepLast
      BY <3>1, NameFinite, FS_Subset, FS_CardinalityType, KeepLastAssumption DEF QuotaOf
    <3>3. Cardinality(keep) >= KeepLast
      <4>1. CASE QuotaOf(p) < Cardinality(all)
        BY <1>2, <3>2, <4>1, KeepLastAssumption DEF IsNewest
      <4>2. CASE ~(QuotaOf(p) < Cardinality(all))
        <5>1. Cardinality(keep) = Cardinality(all)
          BY <1>2, <4>2 DEF IsNewest
        <5>2. keep = all
          BY <3>1, <3>2, <5>1, FS_Subset
        <5> QED BY <3>1, <5>2
      <4> QED BY <4>1, <4>2
    <3>4. ASSUME NEW m \in keep
          PROVE  Project(m) = p /\ disk[Transcript(m)] \in Rank /\ disk[Transcript(m)] >= a
      <4>1. DateOf(seen'[w], n) <= DateOf(seen'[w], m) /\ seen'[w][Transcript(m)] \in Rank
        BY <1>2, <3>1 DEF IsNewest, QuotaCandidates
      <4>2. a <= seen'[w][Transcript(m)]
        BY <3>1, <4>1 DEF DateOf
      <4>3. Project(m) = p /\ seen'[w][Transcript(m)] = disk[Transcript(m)]
        BY <1>1, <4>1, ListingDates
      <4> QED BY <4>1, <4>2, <4>3 DEF Rank
    <3>5. Quota(keep, Project(n), a)'
      BY <1>0, <3>1, <3>3, <3>4 DEF Quota
    <3>6. \A m \in keep, b \in Rank : ~MayTake(w, m, b)'
      BY <1>0, <1>3, <1>4, <3>4 DEF MayTake
    <3> QED BY <3>5, <3>6
  <2> QED BY <1>0, <2>1, <2>2 DEF MayTake
<1> QED BY <1>0, <1>6, <1>7 DEF FloorInv, DeletedGone, Present

(* A transcript that is unlinked was taken for its age, and leaves the     *)
(* quota it was planned with; so do those unlinked before it that counted  *)
(* it.                                                                     *)
LEMMA FloorRemove ==
  ASSUME CollectorInv, FloorInv, OneSweeper, NEW w \in Sweepers, RemoveCandidate(w)
  PROVE  FloorInv'
<1> USE DEF CollectorInv, PlanInv, TypeInv, TypeOK, SweepTypeOK, StoreTypeOK
<1> DEFINE c == target[w]
<1>0. /\ c \in Queue(w) /\ c \in Candidate /\ UNCHANGED <<seen, guarded, planned, refused, userDeleted>>
      /\ removed' = [removed EXCEPT ![w] = @ \union {c}]
      /\ \A v \in Sweepers : v = w
  BY DEF RemoveCandidate, AtWork, Queue, OneSweeper
<1>1. \A v \in Sweepers, n \in Name, a \in Rank : MayTake(v, n, a)' => MayTake(v, n, a)
  BY <1>0 DEF MayTake, Queued, Unguarded, Queue
<1>2. CASE c.kind = "transcript" /\ ~ViaRegistry(c) /\ Present(c.name)
  <2>0. PICK x \in Name, age \in Rank : x = c.name /\ age = c.age
    BY <1>0 DEF Candidate
  <2>1. MayTake(w, x, age)
    BY <1>0, <1>2, <2>0 DEF MayTake, Queued
  <2>2. /\ swept' = swept \union {<<x, age>>}
        /\ \A n \in Name : n # x => disk'[Transcript(n)] = disk[Transcript(n)]
        /\ disk'[Transcript(x)] = Absent
    <3>1. disk' = [disk EXCEPT ![Transcript(x)] = Absent]
      BY <1>2, <2>0 DEF RemoveCandidate, Transcript
    <3> QED BY <1>2, <2>0, <3>1, TranscriptFacts DEF RemoveCandidate
  <2>3. PICK K \in SUBSET Name : /\ Quota(K, Project(x), age)
                                 /\ \A m \in K, b \in Rank : ~MayTake(w, m, b)
    BY <2>1 DEF FloorInv, TakenLeave
  <2> HIDE DEF c
  <2>4. \A J \in SUBSET Name : \A p, a : Quota(J, p, a) /\ x \notin J => Quota(J, p, a)'
    BY <1>0, <2>2 DEF Quota
  <2>5. x \notin K
    BY <2>1, <2>3
  <2>6. Quota(K, Project(x), age)' /\ \A v \in Sweepers, m \in K, b \in Rank : ~MayTake(v, m, b)'
    BY <1>0, <1>1, <2>3, <2>4, <2>5
  <2>7. SweptLeave'
    <3> SUFFICES ASSUME NEW r \in swept'
                 PROVE  \E J \in SUBSET Name :
                          /\ Quota(J, Project(r[1]), r[2])'
                          /\ \A v \in Sweepers, n \in J, a \in Rank :
                               MayTake(v, n, a)' => a >= r[2]
      BY DEF SweptLeave
    <3>1. CASE r = <<x, age>>
      BY <2>6, <3>1
    <3>2. CASE r \in swept
      <4>0. r[2] \in Rank
        BY <3>2 DEF HistoryTypeOK
      <4>1. PICK J \in SUBSET Name :
              /\ Quota(J, Project(r[1]), r[2])
              /\ \A v \in Sweepers, n \in J, a \in Rank : MayTake(v, n, a) => a >= r[2]
        BY <3>2 DEF FloorInv, SweptLeave
      <4>2. CASE x \notin J
        <5>1. Quota(J, Project(r[1]), r[2])'
          BY <2>4, <4>1, <4>2
        <5>2. \A v \in Sweepers, n \in J, a \in Rank : MayTake(v, n, a)' => a >= r[2]
          BY <1>1, <4>1
        <5> QED BY <5>1, <5>2
      <4>3. CASE x \in J
        <5>1. Project(x) = Project(r[1]) /\ age >= r[2]
          BY <2>1, <4>1, <4>3 DEF Quota
        <5>2. \A n \in K : disk'[Transcript(n)] \in Rank /\ disk'[Transcript(n)] >= age
                              => disk'[Transcript(n)] >= r[2]
          BY <2>1, <4>0, <5>1 DEF Rank
        <5>3. Quota(K, Project(r[1]), r[2])'
          BY <2>6, <5>1, <5>2 DEF Quota
        <5> QED BY <2>6, <5>3
      <4> QED BY <4>2, <4>3
    <3> QED BY <2>2, <3>1, <3>2
  <2>8. TakenLeave'
    <3> SUFFICES ASSUME NEW n \in Name, NEW a \in Rank, MayTake(w, n, a)'
                 PROVE  \E J \in SUBSET Name :
                          /\ Quota(J, Project(n), a)'
                          /\ \A m \in J, b \in Rank : ~MayTake(w, m, b)'
      BY <1>0 DEF TakenLeave
    <3>1. PICK J \in SUBSET Name : /\ Quota(J, Project(n), a)
                                   /\ \A m \in J, b \in Rank : ~MayTake(w, m, b)
      BY <1>1 DEF FloorInv, TakenLeave
    <3>2. x \notin J
      BY <2>1, <3>1
    <3>3. Quota(J, Project(n), a)'
      BY <2>4, <3>1, <3>2
    <3>4. \A m \in J, b \in Rank : ~MayTake(w, m, b)'
      BY <1>1, <3>1
    <3> QED BY <3>3, <3>4
  <2>9. DeletedGone'
    BY <1>0, <2>2 DEF FloorInv, DeletedGone, Present, HistoryTypeOK
  <2> QED BY <2>7, <2>8, <2>9 DEF FloorInv
<1>3. CASE ~(c.kind = "transcript" /\ ~ViaRegistry(c) /\ Present(c.name))
  <2>1. swept' = swept
    BY <1>3 DEF RemoveCandidate
  <2>2. \A n \in Name : disk'[Transcript(n)] = disk[Transcript(n)]
    <3>1. CASE ViaRegistry(c)
      BY <3>1 DEF RemoveCandidate
    <3>2. CASE ~ViaRegistry(c)
      <4>1. disk' = [disk EXCEPT ![<<c.kind, c.name>>] = Absent]
        BY <3>2 DEF RemoveCandidate
      <4>2. \A n \in Name : /\ Transcript(n) \in Artifact
                            /\ Transcript(n) = <<c.kind, c.name>> => c.kind = "transcript" /\ n = c.name
        BY DEF Transcript, Artifact, ArtifactKind
      <4> QED BY <1>3, <3>2, <4>1, <4>2 DEF Present
    <3> QED BY <3>1, <3>2
  <2>3. DeletedGone'
    BY <1>0, <2>2 DEF FloorInv, DeletedGone, Present, HistoryTypeOK
  <2> QED BY <1>0, <1>1, <2>1, <2>2, <2>3, FloorFrame
<1> QED BY <1>2, <1>3

LEMMA FloorStep ==
  ASSUME OneSweeper, CollectorInv, FloorInv, [Next]_vars
  PROVE  FloorInv'
<1> USE DEF CollectorInv, PlanInv, TypeInv, TypeOK, SweepTypeOK
<1> DEFINE Same == UNCHANGED <<disk, swept, userDeleted>>
           Fewer == \A v \in Sweepers, n \in Name, a \in Rank : MayTake(v, n, a)' => MayTake(v, n, a)
<1>0. Same /\ Fewer => FloorInv'
  BY FloorFrame DEF FloorInv, DeletedGone, Present
<1>1. ASSUME NEW s \in Sessions, SessionActs(s) PROVE FloorInv'
  BY <1>1, FloorSession
<1>2. ASSUME NEW w \in Sweepers, NEW p \in Projects, ListProject(w, p) PROVE FloorInv'
  BY <1>2, FloorList
<1>3. ASSUME NEW w \in Sweepers, RemoveCandidate(w) PROVE FloorInv'
  BY <1>3, FloorRemove
<1>4. ASSUME NEW w \in Sweepers, Forget(w) PROVE FloorInv'
  <2>1. Fewer
    BY <1>4, TranscriptFacts DEF Forget, Nothing, MayTake, Queued, Unguarded, Queue, Collectable
  <2> QED BY <1>0, <1>4, <2>1 DEF Forget, storeVars
<1>5. ASSUME NEW w \in Sweepers, GuardReadFails(w) PROVE FloorInv'
  <2>1. Fewer
    BY <1>5, TranscriptFacts
    DEF GuardReadFails, LeaveProject, Nothing, MayTake, Queued, Unguarded, Queue, Collectable
  <2> QED BY <1>0, <1>5, <2>1 DEF GuardReadFails, storeVars, history
<1>6. ASSUME NEW w \in Sweepers, ReadPointer(w) PROVE FloorInv'
  <2>1. Fewer
    BY <1>6 DEF ReadPointer, MayTake, Queued, Unguarded, Queue
  <2> QED BY <1>0, <1>6, <2>1 DEF ReadPointer, storeVars, history
<1>7. ASSUME NEW w \in Sweepers, PlanProject(w) PROVE FloorInv'
  <2>1. /\ UNCHANGED <<removed, refused>>
        /\ \A c \in planned'[w] : c.kind = "transcript" =>
             c \in planned[w] \/ c \in PlannedTranscripts(w, cur[w])
        /\ \A v \in Sweepers \ {w} : planned'[v] = planned[v]
    BY <1>7 DEF PlanProject, PlannedLeftovers, PlannedEntries
  <2>2. \A c \in PlannedTranscripts(w, cur[w]) : Unguarded(w, c.name, c.age)
    BY DEF PlannedTranscripts, Unguarded
  <2>3. \A v \in Sweepers, n \in Name, a \in Rank : Queued(v, n, a)' => MayTake(v, n, a)
    BY <2>1, <2>2 DEF MayTake, Queued, Queue
  <2>4. \A v \in Sweepers, n \in Name, a \in Rank : Unguarded(v, n, a)' => Unguarded(v, n, a)
    BY <1>7, TranscriptFacts DEF PlanProject, LeaveProject, Nothing, Unguarded, Collectable
  <2>5. Fewer
    BY <2>3, <2>4 DEF MayTake
  <2> QED BY <1>0, <1>7, <2>5 DEF PlanProject, storeVars, history
<1>8. ASSUME NEW w \in Sweepers,
             \/ BeginSweep(w) \/ StartApply(w) \/ CandidatesDone(w) \/ RemovalFails(w)
             \/ \E p \in Projects : \/ SkipUndetermined(w, p) \/ ListFails(w, p)
                                    \/ RemoveEmptyProject(w, p)
             \/ \E c \in planned[w] : Refuse(w, c) \/ PassBackstop(w, c)
      PROVE  FloorInv'
  <2>1. /\ Same /\ UNCHANGED <<seen, guarded, planned, removed>>
        /\ \A v \in Sweepers : refused[v] \subseteq refused'[v]
    BY <1>8 DEF BeginSweep, StartApply, CandidatesDone, RemovalFails, SkipUndetermined,
       ListFails, RemoveEmptyProject, Refuse, PassBackstop, storeVars, history
  <2>2. Fewer
    BY <2>1 DEF MayTake, Queued, Unguarded, Queue
  <2> QED BY <1>0, <2>1, <2>2
<1>9. CASE UNCHANGED vars
  <2>1. Fewer
    BY <1>9 DEF vars, sweepVars, MayTake, Queued, Unguarded, Queue
  <2> QED BY <1>0, <1>9, <2>1 DEF vars, storeVars, history
<1> QED
  BY <1>1, <1>2, <1>3, <1>4, <1>5, <1>6, <1>7, <1>8, <1>9
  DEF Next, PlanStep, ApplyStep, CrashSweep, ReportDryRun, EndSweep

LEMMA FloorHolds == TypeInv /\ FloorInv => RetentionFloor
<1> SUFFICES ASSUME TypeInv, FloorInv, NEW r \in swept
             PROVE  LET p == Project(r[1])
                    IN  Cardinality({n \in TranscriptsIn(p) : disk[Transcript(n)] >= r[2]} \union
                                    {n \in userDeleted : Project(n) = p}) >= KeepLast
  BY DEF RetentionFloor
<1> DEFINE p == Project(r[1])
           left == {n \in TranscriptsIn(p) : disk[Transcript(n)] >= r[2]} \union
                   {n \in userDeleted : Project(n) = p}
<1>1. PICK keep \in SUBSET Name : Quota(keep, p, r[2])
  BY DEF FloorInv, SweptLeave
<1>2. left \subseteq Name
  BY DEF TypeInv, TypeOK, HistoryTypeOK, TranscriptsIn
<1>3. keep \subseteq left
  BY <1>1 DEF Quota, TranscriptsIn, Present, Rank
<1>4. Cardinality(keep) <= Cardinality(left) /\ Cardinality(keep) \in Nat /\ Cardinality(left) \in Nat
  BY <1>2, <1>3, NameFinite, FS_Subset, FS_CardinalityType
<1>5. Cardinality(left) >= KeepLast
  BY <1>1, <1>4, KeepLastAssumption DEF Quota
<1> QED BY <1>5

(* With one sweeper at a time, KeepLast transcripts at least as new as any *)
(* it unlinked stay in the project, not counting those their users deleted,*)
(* across crashes, failed reads and turns on what it had planned.          *)
THEOREM QuotaStays ==
  ASSUME OneSweeper
  PROVE  Spec => []RetentionFloor
<1>1. Init => FloorInv
  BY TranscriptFacts DEF Init, FloorInv, SweptLeave, TakenLeave, DeletedGone, MayTake, Queued,
                         Unguarded, Queue, Nothing, Collectable
<1>2. CollectorInv => TypeInv
  BY DEF CollectorInv, PlanInv
<1>3. CollectorInv /\ FloorInv /\ [Next]_vars => FloorInv'
  BY FloorStep
<1> QED BY <1>1, <1>2, <1>3, FloorHolds, CollectorInvariant, PTL DEF Spec
=============================================================================
