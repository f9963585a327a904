------------------------- MODULE ProjectSweepProofs -------------------------
(***************************************************************************)
(* What holds of the per-session sweep and of deletions, for any number of *)
(* sweeps, projects and sessions and any quota and window: their types,    *)
(* what a sweep may take, what a deletion says, that the sweep is a        *)
(* Collector - and, with one sweep at a time, that the newest stays.       *)
(***************************************************************************)
EXTENDS ProjectSweep, FiniteSetTheorems, TLAPS

USE HomeAssumption, RankAssumption, NoneAssumption, CwdAssumption

-----------------------------------------------------------------------------
(* Types.                                                                  *)

SessionStep(s) ==
  \/ StartTurn(s) \/ EndTurn(s) \/ CrashTurn(s) \/ NewSession(s)
  \/ ResumeSession(s) \/ ForkSession(s) \/ ArchiveSession(s)

(* What a session does keeps the store's types, and touches its own names. *)
LEMMA SessionEffect ==
  ASSUME StoreTypeOK, NEW s \in Sessions, SessionStep(s)
  PROVE  /\ StoreTypeOK'
         /\ \A t \in Sessions \ {s} : registry'[t] = registry[t]
         /\ \A n \in Name \ {HashName(s)} : disk'[Transcript(n)] = disk[Transcript(n)]
         /\ lease \ {HashName(s)} = lease' \ {HashName(s)}
         /\ \A t \in Sessions \ {s} : PointedBy(t)' => PointedBy(t)
         /\ disk'[Transcript(HashName(s))] \in {disk[Transcript(HashName(s))], Fresh}
         /\ HashName(s) \in lease' \ lease => disk'[Transcript(HashName(s))] = Fresh
<1> HashName(s) \in Name /\ Fresh \in Rank /\ Home[s] \in Projects
  BY DEF HashName, Name, Rank
<1> /\ Transcript(HashName(s)) \in Artifact /\ Lock(HashName(s)) \in Artifact
    /\ Transcript(HashName(s)) # Lock(HashName(s))
    /\ \A n \in Name : Transcript(n) \in Artifact /\ Transcript(n) # Lock(HashName(s))
    /\ \A n \in Name \ {HashName(s)} : Transcript(n) # Transcript(HashName(s))
  BY DEF Transcript, Lock, Artifact, ArtifactKind
<1> HIDE DEF HashName, Transcript, Lock
<1>1. CASE StartTurn(s)
  BY <1>1 DEF StartTurn, StoreTypeOK, PointedBy
<1>2. CASE EndTurn(s)
  BY <1>2 DEF EndTurn, StoreTypeOK, PointedBy
<1>3. CASE CrashTurn(s)
  BY <1>3 DEF CrashTurn, StoreTypeOK, PointedBy
<1>4. CASE NewSession(s) \/ ResumeSession(s)
  BY <1>4 DEF NewSession, ResumeSession, StoreTypeOK, PointedBy
<1>5. CASE ForkSession(s)
  BY <1>5 DEF ForkSession, StoreTypeOK, PointedBy
<1>6. CASE ArchiveSession(s)
  BY <1>6 DEF ArchiveSession, StoreTypeOK, PointedBy
<1> QED  BY <1>1, <1>2, <1>3, <1>4, <1>5, <1>6 DEF SessionStep

(* A sweep has nothing planned before it has decided.                      *)
Unplanned ==
  \A w \in Sweepers : pc[w] \in {"idle", "registry", "decide"} =>
    plan[w] = {} /\ reported[w] = {}

TypeInv == TypeOK /\ Unplanned

LEMMA InitTypes == Init => TypeInv
<1> SUFFICES ASSUME Init PROVE TypeInv
  OBVIOUS
<1>1. StoreTypeOK
  BY DEF Init, StoreInit, StoreTypeOK
<1>2. /\ seen \in [Sweepers -> [Name -> Rank \union {Absent}]]
      /\ report \in [Sessions -> Report]
  BY DEF Init, Nothing, Report, NoReport
<1> QED  BY <1>1, <1>2 DEF Init, TypeInv, TypeOK, Unplanned

(* The candidates of a decision.                                           *)
Chosen(w, recent, keep) ==
  {[name |-> n, age |-> seen[w][n], agent |-> OwnerIn(found[w], n)] :
     n \in {m \in Name \ Protected(w, recent, keep) :
              seen[w][m] # Absent /\ seen[w][m] < Cutoff}}

LEMMA ChosenType ==
  ASSUME TypeOK, NEW w \in Sweepers, NEW recent, NEW keep
  PROVE  Chosen(w, recent, keep) \subseteq Candidate
BY DEF Chosen, Candidate, OwnerIn, TypeOK, Name

LEMMA AgentDeleteType ==
  ASSUME StoreTypeOK, NEW s \in Sessions, AgentDelete(s)
  PROVE  /\ registry' \in [Sessions -> {"none", "active", "archived"}]
         /\ \A t \in Sessions : registry'[t] \in {registry[t], "none"}
BY DEF AgentDelete, StoreTypeOK

(* A removal's file, if it has one.                                        *)
LEMMA TakesType ==
  ASSUME NEW c \in Candidate
  PROVE  /\ c.name \in Name /\ c.agent \in Sessions \union {None}
         /\ Takes(c) = {} \/ \E n \in Name : Takes(c) = {n}
         /\ c.agent # None => Takes(c) = {}
<1>1. c.name \in Name /\ c.agent \in Sessions \union {None} /\ c.name[1] \in Sessions
  BY DEF Candidate, Name
<1>2. HashName(c.name[1]) \in Name
  BY <1>1 DEF HashName, Name
<1>3. Unlinked(c.name) = {} \/ \E n \in Name : Unlinked(c.name) = {n}
  BY <1>1, <1>2 DEF Unlinked
<1> QED  BY <1>1, <1>3 DEF Takes

LEMMA ReportUpdates ==
  ASSUME NEW r \in Report, NEW entry \in {"still-present", "removed", "unverified"},
         NEW exit \in {"failed", "ok"}
  PROVE  /\ [r EXCEPT !.transcript = TRUE] \in Report
         /\ [r EXCEPT !.entry = entry, !.exit = exit] \in Report
<1>1. [r EXCEPT !.transcript = TRUE] \in Report
  BY DEF Report
<1>2. \A e \in {"still-present", "removed", "unverified"} : [r EXCEPT !.entry = e] \in Report
  BY DEF Report
<1>3. \A q \in Report : [q EXCEPT !.exit = exit] \in Report
  BY DEF Report
<1>4. [r EXCEPT !.entry = entry, !.exit = exit] = [[r EXCEPT !.entry = entry] EXCEPT !.exit = exit]
  BY DEF Report
<1> QED  BY <1>1, <1>2, <1>3, <1>4

LEMMA NextTypes == TypeInv /\ [Next]_vars => TypeInv'
<1> SUFFICES ASSUME TypeInv, [Next]_vars PROVE TypeInv'
  OBVIOUS
<1> USE DEF TypeInv, TypeOK, Unplanned
<1> /\ Nothing \in [Name -> Rank \union {Absent}]
    /\ [n \in Name |-> Date(n)] \in [Name -> Rank \union {Absent}]
  BY DEF Nothing, Date, StoreTypeOK, Transcript, Artifact, ArtifactKind
<1>1. ASSUME NEW w \in Sweepers, ReadTranscriptDir(w) PROVE TypeInv'
  BY <1>1 DEF ReadTranscriptDir, storeVars, rmVars, StoreTypeOK
<1>2. ASSUME NEW w \in Sweepers, ListRegistry(w) PROVE TypeInv'
  <2>1. \A l \in Listing : l \subseteq Sessions /\ RegistryProtects(l) \subseteq Name
    BY DEF Listing, RegistryProtects, NamesOf, HashName, RawName, Name
  <2> QED  BY <1>2, <2>1 DEF ListRegistry, storeVars, rmVars, history, StoreTypeOK
<1>3. ASSUME NEW w \in Sweepers, Decide(w) PROVE TypeInv'
  <2>1. UNCHANGED <<storeVars, rmVars, history, reported>>
    BY <1>3 DEF Decide
  <2>2. pc' = [pc EXCEPT ![w] = "planned"] /\ found' = [found EXCEPT ![w] = {}]
          /\ seen' = [seen EXCEPT ![w] = Nothing]
    BY <1>3 DEF Decide
  <2>3. PICK recent \in SUBSET Name, keep \in SUBSET Name :
          /\ plan' = [plan EXCEPT ![w] = Chosen(w, recent, keep)]
          /\ guards' = [guards EXCEPT ![w] = recent \union {RawName(s) : s \in Pointed}]
    BY <1>3 DEF Decide, Chosen
  <2>4. {RawName(s) : s \in Pointed} \subseteq Name
    BY DEF Pointed, RawName, Name, StoreTypeOK
  <2>5. Chosen(w, recent, keep) \subseteq Candidate
    BY ChosenType
  <2> QED  BY <2>1, <2>2, <2>3, <2>4, <2>5 DEF storeVars, rmVars, history, StoreTypeOK
<1>4. ASSUME NEW w \in Sweepers, ResolveApply(w) PROVE TypeInv'
  <2>1. {RawName(s) : s \in Pointed} \subseteq Name
    BY DEF Pointed, RawName, Name, StoreTypeOK
  <2> QED  BY <1>4, <2>1 DEF ResolveApply, storeVars, rmVars, StoreTypeOK
<1>5. ASSUME NEW w \in Sweepers, NEW c \in plan[w], NotRemoved(w, c) PROVE TypeInv'
  BY <1>5 DEF NotRemoved, Turn, Candidate, storeVars, rmVars, history, StoreTypeOK
<1>6. ASSUME NEW w \in Sweepers, NEW c \in plan[w], Remove(w, c) PROVE TypeInv'
  <2>1. c \in Candidate /\ pc[w] = "apply"
    BY <1>6 DEF Remove, Turn
  <2>2. registry' \in [Sessions -> {"none", "active", "archived"}]
    BY <1>6, <2>1, TakesType, AgentDeleteType DEF Remove, StoreTypeOK
  <2>3. disk' \in [Artifact -> Rank \union {Absent}]
    BY <1>6, <2>1, TakesType DEF Remove, StoreTypeOK
  <2>4. taken' \subseteq Name
    BY <1>6, <2>1, TakesType DEF Remove
  <2>5. crossed' \in BOOLEAN
    BY <1>6 DEF Remove
  <2>6. reported' \in [Sweepers -> SUBSET Name] /\ Unplanned'
    BY <1>6, <2>1 DEF Remove, Candidate
  <2> QED  BY <1>6, <2>2, <2>3, <2>4, <2>5, <2>6 DEF Remove, rmVars, StoreTypeOK
<1>7. ASSUME NEW w \in Sweepers, EndSweep(w) PROVE TypeInv'
  BY <1>7 DEF EndSweep, storeVars, rmVars, StoreTypeOK
<1>8. ASSUME NEW s \in Sessions, CheckDelete(s) PROVE TypeInv'
  BY <1>8 DEF CheckDelete, storeVars, sweepVars, StoreTypeOK
<1>9. ASSUME NEW s \in Sessions, Unregister(s) PROVE TypeInv'
  BY <1>9, AgentDeleteType DEF Unregister, sweepVars, history, StoreTypeOK
<1>10. ASSUME NEW s \in Sessions, UnlinkSession(s) PROVE TypeInv'
  <2>1. disk' \in [Artifact -> Rank \union {Absent}]
    BY <1>10 DEF UnlinkSession, StoreTypeOK
  <2>2. report' \in [Sessions -> Report]
    <3>1. [report[s] EXCEPT !.transcript = TRUE] \in Report
      BY ReportUpdates
    <3>2. report' \in {report, [report EXCEPT ![s] = [report[s] EXCEPT !.transcript = TRUE]]}
      BY <1>10 DEF UnlinkSession
    <3> QED  BY <3>1, <3>2
  <2>3. rm' \in [Sessions -> {"idle", "listed", "unregistered", "unlinked", "done"}]
          /\ UNCHANGED <<registry, dirs, modified, pointer, lease, sweepVars, before, history>>
    BY <1>10 DEF UnlinkSession
  <2> QED  BY <2>1, <2>2, <2>3 DEF sweepVars, history, StoreTypeOK
<1>11. ASSUME NEW s \in Sessions, Verify(s) PROVE TypeInv'
  <2>1. report' \in [Sessions -> Report]
    <3>1. PICK entry \in {"still-present", "removed", "unverified"}, exit \in {"failed", "ok"} :
            report' = [report EXCEPT ![s].entry = entry, ![s].exit = exit]
      BY <1>11 DEF Verify
    <3>2. report' = [report EXCEPT ![s] = [report[s] EXCEPT !.entry = entry, !.exit = exit]]
      BY <3>1
    <3>3. [report[s] EXCEPT !.entry = entry, !.exit = exit] \in Report
      BY <3>1, ReportUpdates
    <3> QED  BY <3>2, <3>3
  <2> QED  BY <1>11, <2>1 DEF Verify, storeVars, sweepVars, history, StoreTypeOK
<1>12. ASSUME NEW s \in Sessions, EndDelete(s) PROVE TypeInv'
  <2>1. NoReport \in Report
    BY DEF NoReport, Report
  <2> QED  BY <1>12, <2>1 DEF EndDelete, storeVars, sweepVars, StoreTypeOK
<1>13. ASSUME NEW s \in Sessions, SessionActs(s) PROVE TypeInv'
  <2>1. StoreTypeOK'
    BY <1>13, SessionEffect DEF SessionActs, SessionStep
  <2>2. acted' \in [Sweepers -> SUBSET Sessions] /\ since' \in [Sweepers -> SUBSET Sessions]
    BY <1>13 DEF SessionActs, Noted
  <2>3. rmActed' \subseteq Sessions /\ raced' \in BOOLEAN
    BY <1>13 DEF SessionActs
  <2>4. UNCHANGED <<sweepVars, rmVars, taken, crossed>>
    BY <1>13 DEF SessionActs
  <2> QED  BY <2>1, <2>2, <2>3, <2>4 DEF sweepVars, rmVars
<1>14. CASE UNCHANGED vars
  BY <1>14 DEF vars, storeVars, sweepVars, rmVars, history, StoreTypeOK
<1> QED
  BY <1>1, <1>2, <1>3, <1>4, <1>5, <1>6, <1>7, <1>8, <1>9, <1>10, <1>11, <1>12, <1>13, <1>14
  DEF Next, SweepStep, DeleteStep

(* The variables of the sweeps, the deletions and the sessions hold what   *)
(* they are meant to, and no sweep has candidates before it decided.       *)
THEOREM TypeCorrect == Spec => []TypeOK
BY InitTypes, NextTypes, PTL DEF Spec, TypeInv

-----------------------------------------------------------------------------
(* What sweeps and deletions do to the store: entries and files go.        *)

Lessens ==
  /\ \A s \in Sessions : registry'[s] \in {registry[s], "none"}
  /\ \A n \in Name : disk'[Transcript(n)] \in {disk[Transcript(n)], Absent}
  /\ pointer' = pointer /\ lease' = lease

LEMMA UnlinkedIsAbsent ==
  ASSUME StoreTypeOK, NEW m \in Name, disk' = [disk EXCEPT ![Transcript(m)] = Absent]
  PROVE  /\ \A n \in Name : disk'[Transcript(n)] = IF n = m THEN Absent ELSE disk[Transcript(n)]
         /\ \A n \in Name : disk'[Transcript(n)] \in {disk[Transcript(n)], Absent}
<1>1. \A n \in Name : /\ Transcript(n) \in Artifact
                      /\ Transcript(n) = Transcript(m) <=> n = m
  BY DEF Transcript, Artifact, ArtifactKind
<1> QED  BY <1>1 DEF StoreTypeOK

LEMMA RemoveEffect ==
  ASSUME TypeInv, NEW w \in Sweepers, NEW c \in plan[w], Remove(w, c)
  PROVE  /\ pc[w] = "apply" /\ c \in Queue(w) /\ c.name \in Name \ guards[w]
         /\ \A n \in Name : disk'[Transcript(n)] = IF n \in Takes(c) THEN Absent
                                                   ELSE disk[Transcript(n)]
         /\ taken' = taken \union {n \in Takes(c) : Present(n)}
         /\ crossed' \/ \A n \in Takes(c) : Present(n) => n = c.name
         /\ crossed => crossed'
<1> USE DEF TypeInv, TypeOK
<1>1. c \in Candidate
  OBVIOUS
<1>2. \A n \in Name : disk'[Transcript(n)] = IF n \in Takes(c) THEN Absent
                                              ELSE disk[Transcript(n)]
  <2>1. CASE Takes(c) = {}
    BY <2>1 DEF Remove
  <2>2. ASSUME NEW n \in Name, Takes(c) = {n}
        PROVE  \A m \in Name : disk'[Transcript(m)] = IF m \in Takes(c) THEN Absent
                                                      ELSE disk[Transcript(m)]
    <3>1. disk' = [disk EXCEPT ![Transcript(n)] = Absent]
      BY <2>2 DEF Remove
    <3> QED  BY <2>2, <3>1, UnlinkedIsAbsent
  <2> QED  BY <1>1, <2>1, <2>2, TakesType
<1>3. /\ pc[w] = "apply" /\ c \in Queue(w) /\ c.name \in Name \ guards[w]
      /\ taken' = taken \union {n \in Takes(c) : Present(n)}
      /\ crossed' = (crossed \/ Crosses(c))
  BY <1>1, TakesType DEF Remove, Turn
<1> QED  BY <1>2, <1>3 DEF Crosses

LEMMA StepsLessen ==
  ASSUME TypeInv,
         \/ \E w \in Sweepers : SweepStep(w)
         \/ \E s \in Sessions : DeleteStep(s)
         \/ UNCHANGED vars
  PROVE  Lessens
<1> USE DEF TypeInv, TypeOK, storeVars, StoreTypeOK
<1>1. CASE UNCHANGED storeVars
  BY <1>1 DEF Lessens
<1>2. ASSUME NEW w \in Sweepers, NEW c \in plan[w], Remove(w, c) PROVE Lessens
  <2>1. c.agent \in Sessions \union {None}
    BY <1>2, TakesType
  <2>2. \A s \in Sessions : registry'[s] \in {registry[s], "none"}
    BY <1>2, <2>1, AgentDeleteType DEF Remove
  <2>3. \A n \in Name : disk'[Transcript(n)] \in {disk[Transcript(n)], Absent}
    BY <1>2, RemoveEffect
  <2> QED  BY <1>2, <2>2, <2>3 DEF Remove, Lessens
<1>3. ASSUME NEW s \in Sessions, Unregister(s) PROVE Lessens
  BY <1>3, AgentDeleteType DEF Unregister, Lessens
<1>4. ASSUME NEW s \in Sessions, UnlinkSession(s) PROVE Lessens
  <2>1. HashName(s) \in Name
    BY DEF HashName, Name
  <2>2. \A n \in Name : disk'[Transcript(n)] \in {disk[Transcript(n)], Absent}
    BY <1>4, <2>1, UnlinkedIsAbsent DEF UnlinkSession
  <2> QED  BY <1>4, <2>2 DEF UnlinkSession, Lessens
<1>5. ASSUME NEW w \in Sweepers, SweepStep(w), ~UNCHANGED storeVars
      PROVE  \E c \in plan[w] : Remove(w, c)
  BY <1>5 DEF SweepStep, ReadTranscriptDir, ListRegistry, Decide, ResolveApply, NotRemoved, EndSweep
<1>6. ASSUME NEW s \in Sessions, DeleteStep(s), ~UNCHANGED storeVars
      PROVE  Unregister(s) \/ UnlinkSession(s)
  BY <1>6 DEF DeleteStep, CheckDelete, Verify, EndDelete
<1> QED  BY <1>1, <1>2, <1>3, <1>4, <1>5, <1>6 DEF vars

-----------------------------------------------------------------------------
(* Deletions.                                                              *)

(* A deletion is of this directory's sessions, and reports nothing before  *)
(* it has done it.                                                         *)
DeletionInv(s) ==
  /\ rm[s] # "idle" => Home[s] = Cwd
  /\ rm[s] \in {"idle", "listed", "unregistered"} => report[s] = NoReport
  /\ rm[s] = "unlinked" => report[s].exit = "none"
  /\ s \notin rmActed =>
       /\ report[s].exit = "ok" => registry[s] # "active"
       /\ report[s].transcript => ~Present(HashName(s))
       /\ rm[s] \in {"listed", "unregistered"} => ~PointedBy(s) /\ HashName(s) \notin lease

(* A step that lessens the store and is none of this deletion.             *)
LEMMA DeletionFrame ==
  ASSUME TypeInv, Lessens, NEW s \in Sessions, DeletionInv(s),
         rm'[s] = rm[s], report'[s] = report[s], s \in rmActed <=> s \in rmActed'
  PROVE  DeletionInv(s)'
<1> HashName(s) \in Name
  BY DEF HashName, Name
<1> QED
  BY DEF Lessens, DeletionInv, Present, PointedBy, TypeInv, TypeOK, StoreTypeOK

(* The deletion's own steps.                                               *)
LEMMA DeletionOwn ==
  ASSUME TypeInv, Lessens, NEW s \in Sessions, DeletionInv(s), DeleteStep(s)
  PROVE  DeletionInv(s)'
<1> HashName(s) \in Name /\ Transcript(HashName(s)) \in Artifact
  BY DEF HashName, Name, Transcript, Artifact, ArtifactKind
<1> USE DEF TypeInv, TypeOK, StoreTypeOK
<1>1. CASE CheckDelete(s)
  BY <1>1 DEF CheckDelete, DeletionInv, ProtectedFromDelete, PointedBy, storeVars, NoReport
<1>2. CASE Unregister(s)
  BY <1>2 DEF Unregister, DeletionInv, PointedBy, NoReport, history
<1>3. CASE UnlinkSession(s)
  <2>1. report[s] = NoReport /\ Home[s] = Cwd
    BY <1>3 DEF UnlinkSession, DeletionInv
  <2>2. report'[s].exit = "none" /\ rm'[s] = "unlinked"
    BY <1>3, <2>1 DEF UnlinkSession, NoReport
  <2>3. report'[s].transcript => ~Present(HashName(s))'
    BY <1>3, <2>1 DEF UnlinkSession, NoReport, Present
  <2> QED  BY <2>1, <2>2, <2>3 DEF DeletionInv
<1>4. CASE Verify(s)
  <2>1. /\ rm'[s] = "done" /\ Home[s] = Cwd /\ rmActed' = rmActed
        /\ UNCHANGED <<storeVars, history>>
    BY <1>4 DEF Verify, DeletionInv, history
  <2>2. PICK l \in Listing :
          report' = [report EXCEPT
            ![s].entry = IF s \in l THEN "still-present"
                         ELSE IF before[s] THEN "removed" ELSE "unverified",
            ![s].exit = IF s \in l THEN "failed" ELSE "ok"]
    BY <1>4 DEF Verify
  <2>3. report'[s].exit = "ok" => s \notin l
    BY <2>2 DEF Report
  <2>4. s \notin l => registry[s] # "active"
    BY <2>1, <2>2 DEF Listing
  <2>5. report'[s].transcript = report[s].transcript
    BY <2>2 DEF Report
  <2> QED  BY <2>1, <2>3, <2>4, <2>5 DEF DeletionInv, storeVars, Present
<1>5. CASE EndDelete(s)
  BY <1>5 DEF EndDelete, DeletionInv, NoReport
<1> QED  BY <1>1, <1>2, <1>3, <1>4, <1>5 DEF DeleteStep

LEMMA DeletionActs ==
  ASSUME TypeInv, NEW s \in Sessions, NEW t \in Sessions, SessionActs(t), DeletionInv(s)
  PROVE  DeletionInv(s)'
<1>1. UNCHANGED <<rm, report>> /\ rmActed' = IF rm[t] = "idle" THEN rmActed ELSE rmActed \union {t}
  BY DEF SessionActs, rmVars
<1>2. SessionStep(t)
  BY DEF SessionActs, SessionStep
<1>3. CASE s = t
  BY <1>1, <1>3 DEF DeletionInv, NoReport
<1>4. CASE s # t
  <2>1. HashName(s) \in Name \ {HashName(t)}
    BY <1>4 DEF HashName, Name
  <2>2. /\ registry'[s] = registry[s] /\ Present(HashName(s))' = Present(HashName(s))
        /\ PointedBy(s)' => PointedBy(s)
        /\ HashName(s) \in lease' <=> HashName(s) \in lease
    BY <1>2, <1>4, <2>1, SessionEffect DEF Present, TypeInv, TypeOK
  <2>3. s \in rmActed' <=> s \in rmActed
    BY <1>1, <1>4
  <2> QED  BY <1>1, <2>2, <2>3 DEF DeletionInv
<1> QED  BY <1>3, <1>4

(* A deletion that says nothing went wrong left no session that is listed, *)
(* and one that says the file is gone left none, however it is interleaved *)
(* with sweeps and other deletions, unless the session was used meanwhile. *)
THEOREM DeletionIsTrue == Spec => []DeletionSaysWhatItDid
<1> DEFINE Inv == \A s \in Sessions : DeletionInv(s)
<1>1. Init => Inv
  BY DEF Init, DeletionInv, NoReport
<1>2. TypeInv /\ Inv /\ [Next]_vars => Inv'
  <2> SUFFICES ASSUME TypeInv, Inv, [Next]_vars, NEW s \in Sessions PROVE DeletionInv(s)'
    OBVIOUS
  <2>1. ASSUME NEW w \in Sweepers, SweepStep(w) PROVE DeletionInv(s)'
    <3>1. UNCHANGED <<rm, report, rmActed>>
      BY <2>1 DEF SweepStep, ReadTranscriptDir, ListRegistry, Decide, ResolveApply, NotRemoved,
                  Remove, EndSweep, rmVars, history
    <3> QED  BY <2>1, <3>1, StepsLessen, DeletionFrame
  <2>2. ASSUME NEW t \in Sessions, DeleteStep(t) PROVE DeletionInv(s)'
    <3>1. CASE s = t
      BY <2>2, <3>1, StepsLessen, DeletionOwn
    <3>2. CASE s # t
      <4>1. rm'[s] = rm[s] /\ report'[s] = report[s] /\ (s \in rmActed' <=> s \in rmActed)
        BY <2>2, <3>2 DEF DeleteStep, CheckDelete, Unregister, UnlinkSession, Verify, EndDelete,
                          history, TypeInv, TypeOK
      <4> QED  BY <2>2, <4>1, StepsLessen, DeletionFrame
    <3> QED  BY <3>1, <3>2
  <2>3. ASSUME NEW t \in Sessions, SessionActs(t) PROVE DeletionInv(s)'
    BY <2>3, DeletionActs
  <2>4. CASE UNCHANGED vars
    BY <2>4, StepsLessen, DeletionFrame DEF vars, rmVars, history
  <2> QED  BY <2>1, <2>2, <2>3, <2>4 DEF Next
<1>3. Inv => DeletionSaysWhatItDid
  BY DEF DeletionInv, DeletionSaysWhatItDid
<1>4. Init => TypeInv
  BY InitTypes
<1>5. TypeInv /\ [Next]_vars => TypeInv'
  BY NextTypes
<1> HIDE DEF Inv
<1> QED  BY <1>1, <1>2, <1>3, <1>4, <1>5, PTL DEF Spec

-----------------------------------------------------------------------------
(* Sweeps.                                                                 *)

(* A writer's transcript is fresh, unless it was deleted under it.         *)
LeasedFresh == \A n \in lease : disk[Transcript(n)] \in {Fresh, Absent}

Idler(w, s) == s \notin acted[w]

(* What a sweep knows of the sessions that do nothing: the transcripts of  *)
(* their writers were too fresh, the active are guarded, and what it chose *)
(* is of none that is active, pointed at or written.                       *)
SweepInv(w) ==
  /\ pc[w] \in {"registry", "decide"} =>
       \A n \in Name :
         /\ seen[w][n] # Absent => Project(n) = Cwd
         /\ n \in lease /\ Idler(w, n[1]) => seen[w][n] \in {Fresh, Absent}
  /\ pc[w] = "decide" =>
       \A s \in Sessions :
         registry[s] = "active" /\ Home[s] = Cwd /\ Idler(w, s) => NamesOf(s) \subseteq guards[w]
  /\ \A c \in plan[w] :
       /\ Home[c.name[1]] = Cwd
       /\ Idler(w, c.name[1]) =>
            registry[c.name[1]] # "active" /\ ~PointedBy(c.name[1]) /\ c.name \notin lease
  /\ pc[w] = "apply" =>
       \A s \in Sessions :
         Home[s] = Cwd /\ PointedBy(s) /\ s \notin since[w] => RawName(s) \in guards[w]

LEMMA NamesHaveOwners ==
  \A n \in Name : n[1] \in Sessions /\ n \in NamesOf(n[1]) /\ Project(n) = Home[n[1]]
BY DEF Name, NamesOf, HashName, RawName, Project

(* A step that lessens the store and is none of this sweep.                *)
LEMMA SweepFrame ==
  ASSUME TypeInv, Lessens, NEW w \in Sweepers, SweepInv(w),
         pc'[w] = pc[w], seen'[w] = seen[w], guards'[w] = guards[w], plan'[w] = plan[w],
         acted'[w] = acted[w], since'[w] = since[w]
  PROVE  SweepInv(w)'
<1>1. \A c \in plan[w] : c.name[1] \in Sessions
  BY NamesHaveOwners DEF TypeInv, TypeOK, Candidate
<1> QED  BY <1>1 DEF Lessens, SweepInv, Idler, PointedBy

LEMMA SweepOwn ==
  ASSUME TypeInv, LeasedFresh, Lessens, NEW w \in Sweepers, SweepInv(w), SweepStep(w)
  PROVE  SweepInv(w)'
<1> USE DEF TypeInv, TypeOK
<1>1. CASE ReadTranscriptDir(w)
  <2>1. /\ pc'[w] = "registry" /\ acted'[w] = {} /\ plan'[w] = {} /\ lease' = lease
        /\ seen'[w] = [n \in Name |-> Date(n)]
    BY <1>1 DEF ReadTranscriptDir, storeVars, Unplanned
  <2>2. \A n \in Name : /\ seen'[w][n] # Absent => Project(n) = Cwd
                        /\ n \in lease => seen'[w][n] \in {Fresh, Absent}
    BY <2>1 DEF Date, LeasedFresh
  <2> QED  BY <2>1, <2>2 DEF SweepInv
<1>2. CASE ListRegistry(w)
  <2>1. PICK l \in Listing : guards' = [guards EXCEPT ![w] = RegistryProtects(l)]
    BY <1>2 DEF ListRegistry
  <2>2. /\ pc[w] = "registry" /\ pc'[w] = "decide" /\ plan'[w] = {}
        /\ UNCHANGED <<storeVars, acted, seen>>
    BY <1>2 DEF ListRegistry, history, Unplanned
  <2>3. \A s \in Sessions : registry[s] = "active" /\ Home[s] = Cwd => NamesOf(s) \subseteq guards'[w]
    BY <2>1 DEF Listing, RegistryProtects
  <2> QED  BY <2>2, <2>3 DEF SweepInv, Idler, storeVars
<1>3. CASE Decide(w)
  <2>1. /\ pc[w] = "decide" /\ pc'[w] = "planned"
        /\ UNCHANGED <<storeVars, acted>>
    BY <1>3 DEF Decide, history
  <2>2. PICK recent \in SUBSET Name, keep \in SUBSET Name :
          plan' = [plan EXCEPT ![w] = Chosen(w, recent, keep)]
    BY <1>3 DEF Decide, Chosen
  <2>3. ASSUME NEW c \in plan'[w]
        PROVE  /\ Home[c.name[1]] = Cwd
               /\ Idler(w, c.name[1]) =>
                    registry[c.name[1]] # "active" /\ ~PointedBy(c.name[1]) /\ c.name \notin lease
    <3>1. /\ c.name \in Name /\ c.name \notin guards[w]
          /\ c.name \notin UNION {NamesOf(s) : s \in Pointed}
          /\ seen[w][c.name] # Absent /\ seen[w][c.name] < Cutoff
      BY <2>2, <2>3 DEF Chosen, Protected
    <3>2. c.name[1] \in Sessions /\ c.name \in NamesOf(c.name[1]) /\ Home[c.name[1]] = Cwd
      BY <2>1, <3>1, NamesHaveOwners DEF SweepInv
    <3>3. seen[w][c.name] # Fresh
      BY <3>1, CutoffAssumption
    <3>4. ~PointedBy(c.name[1])
      BY <3>1, <3>2 DEF PointedBy, Pointed
    <3> QED  BY <2>1, <3>1, <3>2, <3>3, <3>4 DEF SweepInv
  <2> QED  BY <2>1, <2>3 DEF SweepInv, Idler, storeVars, PointedBy
<1>4. CASE ResolveApply(w)
  <2>1. /\ pc[w] = "planned" /\ pc'[w] = "apply" /\ plan' = plan
        /\ UNCHANGED <<storeVars, acted>>
    BY <1>4 DEF ResolveApply
  <2>2. {RawName(s) : s \in Pointed} \subseteq guards'[w]
    BY <1>4 DEF ResolveApply
  <2>3. \A s \in Sessions : Home[s] = Cwd /\ PointedBy(s) => RawName(s) \in guards'[w]
    BY <2>2 DEF PointedBy, Pointed
  <2> QED  BY <2>1, <2>3 DEF SweepInv, Idler, storeVars, PointedBy
<1>5. ASSUME NEW c \in plan[w], NotRemoved(w, c) \/ Remove(w, c)
      PROVE  SweepInv(w)'
  <2>1. UNCHANGED <<pc, seen, guards, plan, acted, since>>
    BY <1>5 DEF NotRemoved, Remove, history
  <2> QED  BY <2>1, SweepFrame
<1>6. CASE EndSweep(w)
  BY <1>6 DEF EndSweep, SweepInv
<1> QED  BY <1>1, <1>2, <1>3, <1>4, <1>5, <1>6 DEF SweepStep

LEMMA SweepActs ==
  ASSUME TypeInv, NEW w \in Sweepers, SweepInv(w), NEW t \in Sessions, SessionActs(t)
  PROVE  SweepInv(w)'
<1> USE DEF TypeInv, TypeOK
<1>1. UNCHANGED <<pc, seen, guards, plan>>
  BY DEF SessionActs, sweepVars
<1>2. /\ pc[w] # "idle" => acted'[w] = acted[w] \union {t}
      /\ pc[w] = "apply" => since'[w] = since[w] \union {t}
      /\ pc[w] = "idle" => plan[w] = {}
  BY DEF SessionActs, Noted, Unplanned
<1>3. SessionStep(t)
  BY DEF SessionActs, SessionStep
<1>4. /\ \A s \in Sessions \ {t} : registry'[s] = registry[s] /\ (PointedBy(s)' => PointedBy(s))
      /\ \A n \in Name : n[1] # t => (n \in lease' <=> n \in lease)
  <2>1. \A n \in Name : n[1] # t => n # HashName(t)
    BY DEF HashName
  <2>2. lease \ {HashName(t)} = lease' \ {HashName(t)}
    BY <1>3, SessionEffect
  <2>3. \A s \in Sessions \ {t} : registry'[s] = registry[s] /\ (PointedBy(s)' => PointedBy(s))
    BY <1>3, SessionEffect
  <2> QED  BY <2>1, <2>2, <2>3
<1>5. \A c \in plan[w] : c.name \in Name /\ c.name[1] \in Sessions
  BY NamesHaveOwners DEF Candidate
<1>6. pc[w] # "idle" => \A s \in Sessions : Idler(w, s)' => Idler(w, s) /\ s # t
  BY <1>2 DEF Idler
<1>7. pc[w] \in {"registry", "decide"} =>
        \A n \in Name :
          /\ seen'[w][n] # Absent => Project(n) = Cwd
          /\ n \in lease' /\ Idler(w, n[1])' => seen'[w][n] \in {Fresh, Absent}
  BY <1>1, <1>4, <1>6, NamesHaveOwners DEF SweepInv
<1>8. pc[w] = "decide" =>
        \A s \in Sessions :
          registry'[s] = "active" /\ Home[s] = Cwd /\ Idler(w, s)' => NamesOf(s) \subseteq guards'[w]
  BY <1>1, <1>4, <1>6 DEF SweepInv
<1>9. \A c \in plan[w] :
        /\ Home[c.name[1]] = Cwd
        /\ Idler(w, c.name[1])' =>
             registry'[c.name[1]] # "active" /\ ~PointedBy(c.name[1])' /\ c.name \notin lease'
  BY <1>2, <1>4, <1>5, <1>6 DEF SweepInv
<1>10. pc[w] = "apply" =>
         \A s \in Sessions :
           Home[s] = Cwd /\ PointedBy(s)' /\ s \notin since'[w] => RawName(s) \in guards'[w]
  BY <1>1, <1>2, <1>4 DEF SweepInv
<1> QED  BY <1>1, <1>7, <1>8, <1>9, <1>10 DEF SweepInv

LEMMA LeasedFreshStep ==
  ASSUME TypeInv, LeasedFresh, [Next]_vars
  PROVE  LeasedFresh'
<1> USE DEF TypeInv, TypeOK
<1>1. CASE Lessens
  BY <1>1 DEF Lessens, LeasedFresh, StoreTypeOK
<1>2. ASSUME NEW s \in Sessions, SessionActs(s) PROVE LeasedFresh'
  <2>1. SessionStep(s)
    BY <1>2 DEF SessionActs, SessionStep
  <2>2. HashName(s) \in Name
    BY DEF HashName, Name
  <2>3. ASSUME NEW n \in lease' PROVE disk'[Transcript(n)] \in {Fresh, Absent}
    <3>1. n \in Name
      BY <2>1, <2>3, SessionEffect DEF StoreTypeOK
    <3>2. CASE n # HashName(s)
      BY <2>1, <3>1, <3>2, <2>3, SessionEffect DEF LeasedFresh
    <3>3. CASE n = HashName(s)
      BY <2>1, <3>3, <2>3, SessionEffect DEF LeasedFresh
    <3> QED  BY <3>2, <3>3
  <2> QED  BY <2>3 DEF LeasedFresh
<1> QED  BY <1>1, <1>2, StepsLessen DEF Next

Inv == TypeInv /\ LeasedFresh /\ \A w \in Sweepers : SweepInv(w)

LEMMA InvHolds == Spec => []Inv
<1> USE DEF Inv
<1>1. Init => Inv
  BY InitTypes DEF Init, StoreInit, LeasedFresh, SweepInv
<1>2. Inv /\ [Next]_vars => Inv'
  <2> SUFFICES ASSUME Inv, [Next]_vars, NEW w \in Sweepers PROVE SweepInv(w)'
    BY NextTypes, LeasedFreshStep
  <2>1. ASSUME NEW v \in Sweepers, SweepStep(v) PROVE SweepInv(w)'
    <3>1. CASE v = w
      BY <2>1, <3>1, StepsLessen, SweepOwn
    <3>2. CASE v # w
      <4>1. /\ pc'[w] = pc[w] /\ seen'[w] = seen[w] /\ guards'[w] = guards[w]
            /\ plan'[w] = plan[w] /\ acted'[w] = acted[w] /\ since'[w] = since[w]
        BY <2>1, <3>2 DEF SweepStep, ReadTranscriptDir, ListRegistry, Decide, ResolveApply,
                          NotRemoved, Remove, EndSweep, history, TypeInv, TypeOK
      <4> QED  BY <2>1, <4>1, StepsLessen, SweepFrame
    <3> QED  BY <3>1, <3>2
  <2>2. ASSUME NEW s \in Sessions, DeleteStep(s) PROVE SweepInv(w)'
    <3>1. UNCHANGED <<pc, seen, guards, plan, acted, since>>
      BY <2>2 DEF DeleteStep, CheckDelete, Unregister, UnlinkSession, Verify, EndDelete,
                  sweepVars, history
    <3> QED  BY <2>2, <3>1, StepsLessen, SweepFrame
  <2>3. ASSUME NEW s \in Sessions, SessionActs(s) PROVE SweepInv(w)'
    BY <2>3, SweepActs
  <2>4. CASE UNCHANGED vars
    BY <2>4, StepsLessen, SweepFrame DEF vars, sweepVars, history
  <2> QED  BY <2>1, <2>2, <2>3, <2>4 DEF Next
<1> QED  BY <1>1, <1>2, PTL DEF Spec

(* What a removal is about to take is of no session that is active,        *)
(* pointed at or - but for what a 4.x name leads to - written, unless that *)
(* was active since the sweep listed; and of the pointer's id only if it   *)
(* became so after the apply phase looked.                                 *)
THEOREM LiveKept == Spec => []LiveSessionsKept
<1>1. Inv => LiveSessionsKept
  <2> USE DEF Inv
  <2> SUFFICES ASSUME Inv, NEW w \in Sweepers, NEW c \in Queue(w), pc[w] = "apply",
                      c.name \notin guards[w]
               PROVE  LET s == c.name[1]
                      IN  /\ registry[s] = "active" \/ PointedBy(s) => s \in acted[w]
                          /\ c.name \in lease \/ Takes(c) \intersect lease # {}
                               => s \in acted[w] \/ c.name = RawName(s)
                          /\ PointedBy(s) /\ c.name = RawName(s) => s \in since[w]
    BY DEF LiveSessionsKept
  <2>1. c \in plan[w] /\ c.name[1] \in Sessions /\ SweepInv(w)
    BY NamesHaveOwners DEF Queue, TypeInv, TypeOK, Candidate
  <2>2. c.name # RawName(c.name[1]) => Takes(c) \subseteq {c.name}
    BY DEF Takes, Unlinked
  <2> QED  BY <2>1, <2>2 DEF SweepInv, Idler
<1> QED  BY <1>1, InvHolds, PTL

-----------------------------------------------------------------------------
(* The sweep is a Collector.                                               *)

LEMMA NameFinite == IsFiniteSet(Name)
<1>1. IsFiniteSet({} \union {"hash"})
  BY FS_EmptySet, FS_AddElement
<1>2. IsFiniteSet(({} \union {"hash"}) \union {"raw"})
  BY <1>1, FS_AddElement
<1>3. ({} \union {"hash"}) \union {"raw"} = {"hash", "raw"}
  OBVIOUS
<1> QED  BY <1>2, <1>3, SessionsAssumption, FS_Product DEF Name

(* Of the transcripts a directory has, the newest is among the first n.    *)
LEMMA NewestIsThere ==
  ASSUME NEW ages \in [Name -> Rank \union {Absent}], NEW recent, Newest(recent, 1, ages),
         NEW n \in Name, ages[n] # Absent
  PROVE  \E m \in recent : m \in Name /\ ages[m] \in Rank /\ ages[m] >= ages[n]
<1> DEFINE all == {m \in Name : ages[m] # Absent}
<1>1. IsFiniteSet(Name)
  BY NameFinite
<1>2. IsFiniteSet(all) /\ all # {}
  BY <1>1, FS_Subset
<1>3. Cardinality(all) \in Nat /\ Cardinality(all) # 0
  BY <1>2, FS_CardinalityType, FS_EmptySet
<1>4. recent \subseteq all /\ Cardinality(recent) # 0
  BY <1>3 DEF Newest
<1>5. recent # {}
  BY <1>4, FS_EmptySet
<1>6. CASE n \in recent
  BY <1>6 DEF Rank
<1>7. CASE n \notin recent
  <2>1. PICK m \in recent : ages[n] <= ages[m]
    BY <1>4, <1>5, <1>7 DEF Newest
  <2> QED  BY <1>4, <2>1 DEF Rank
<1> QED  BY <1>6, <1>7

(* A first one is one at most.                                             *)
LEMMA RecentIsOne ==
  ASSUME NEW ages, NEW recent, Newest(recent, 1, ages)
  PROVE  IsFiniteSet(recent) /\ Cardinality(recent) \in {0, 1}
<1> DEFINE all == {m \in Name : ages[m] # Absent}
<1>1. IsFiniteSet(all)
  BY NameFinite, FS_Subset
<1>2. recent \subseteq all /\ IsFiniteSet(recent) /\ Cardinality(all) \in Nat
  BY <1>1, FS_Subset, FS_CardinalityType DEF Newest
<1> QED  BY <1>2 DEF Newest

Doomed(w) == {c.name : c \in {d \in Queue(w) : d.agent = None}}
Age == [n \in Name |-> disk[Transcript(n)]]

Kept == [w \in Sweepers |-> Doomed(w)]

(* The steps of the abstract specification, in this module's terms.        *)
LEMMA AbstractSteps ==
  /\ taken' \subseteq taken /\ UNCHANGED <<seen, Kept>> => Coll!Next
  /\ \A w \in Sweepers :
       /\ \A v \in Sweepers \ {w} : seen'[v] = seen[v]
       /\ \A n \in Name : seen'[w][n] \notin Nat \/ seen'[w][n] = Age[n]
       /\ UNCHANGED <<Age, Kept, taken>>
       => Coll!Next
  /\ \A w \in Sweepers :
       /\ \A v \in Sweepers \ {w} : seen'[v] = seen[v] /\ Kept'[v] = Kept[v]
       /\ Kept'[w] \subseteq Kept[w]
       /\ taken' \subseteq taken /\ Age' = Age
       => Coll!Next
  /\ \A w \in Sweepers :
       /\ \A v \in Sweepers \ {w} : seen'[v] = seen[v] /\ Kept'[v] = Kept[v]
       /\ Kept[w] \subseteq Kept'[w]
       /\ Kept'[w] \subseteq Kept[w] \union Coll!Doomable(seen[w])
       /\ UNCHANGED <<Age, taken>>
       => Coll!Next
  /\ \A w \in Sweepers, n \in Name :
       /\ n \in Kept[w] /\ Age[n] # Absent
       /\ Age' = [Age EXCEPT ![n] = Absent]
       /\ Kept' = [Kept EXCEPT ![w] = @ \ {n}]
       /\ taken' = taken \union {n} /\ seen' = seen
       => Coll!Next
BY DEF Coll!Next, Coll!Use, Coll!Look, Coll!Doom, Coll!Spare, Coll!Take, Age, Kept, Doomed

(* What becomes of the doomed of each sweep follows from its plan and its  *)
(* report.                                                                 *)
LEMMA KeptOfPlan ==
  ASSUME NEW w \in Sweepers, plan'[w] = plan[w], reported'[w] = reported[w]
  PROVE  Kept'[w] = Kept[w]
BY DEF Kept, Doomed, Queue

LEMMA SweepImplements ==
  ASSUME TypeInv, LeasedFresh, NEW w \in Sweepers, SweepInv(w), SweepStep(w)
  PROVE  Coll!Next \/ Crossing
<1> USE DEF TypeInv, TypeOK
<1>a. ASSUME UNCHANGED <<plan, reported>> PROVE Kept' = Kept
  BY <1>a DEF Kept, Doomed, Queue
<1>b. ASSUME UNCHANGED disk PROVE Age' = Age
  BY <1>b DEF Age
<1>c. ASSUME NEW v \in Sweepers \ {w} PROVE /\ seen'[v] = seen[v]
                                            /\ Kept'[v] = Kept[v]
  <2>1. seen'[v] = seen[v] /\ plan'[v] = plan[v] /\ reported'[v] = reported[v]
    BY DEF SweepStep, ReadTranscriptDir, ListRegistry, Decide, ResolveApply, NotRemoved,
           Remove, EndSweep
  <2> QED  BY <2>1, KeptOfPlan
<1>1. CASE ReadTranscriptDir(w)
  <2>1. seen'[w] = [n \in Name |-> Date(n)] /\ UNCHANGED <<disk, plan, reported, taken>>
    BY <1>1 DEF ReadTranscriptDir, storeVars
  <2>2. \A n \in Name : seen'[w][n] \notin Nat \/ seen'[w][n] = Age[n]
    BY <2>1 DEF Date, Age
  <2> QED  BY <1>a, <1>b, <1>c, <2>1, <2>2, AbstractSteps
<1>2. CASE ListRegistry(w) \/ ResolveApply(w)
  <2>1. UNCHANGED <<disk, seen, plan, reported, taken>>
    BY <1>2 DEF ListRegistry, ResolveApply, storeVars, history
  <2> QED  BY <1>a, <2>1, AbstractSteps
<1>3. CASE Decide(w)
  <2>1. UNCHANGED <<disk, reported, taken>> /\ plan[w] = {} /\ reported[w] = {}
    BY <1>3 DEF Decide, storeVars, history, Unplanned
  <2>2. PICK recent \in SUBSET Name, keep \in SUBSET Name :
          Newest(recent, 1, seen[w]) /\ plan' = [plan EXCEPT ![w] = Chosen(w, recent, keep)]
    BY <1>3 DEF Decide, Chosen
  <2>3. Kept[w] = {}
    BY <2>1 DEF Kept, Doomed, Queue
  <2>4. Kept'[w] \subseteq Coll!Doomable(seen[w])
    <3> SUFFICES ASSUME NEW n \in Kept'[w] PROVE n \in Coll!Doomable(seen[w])
      OBVIOUS
    <3>1. n \in Name \ Protected(w, recent, keep) /\ seen[w][n] # Absent /\ seen[w][n] < Cutoff
      BY <2>2 DEF Kept, Doomed, Queue, Chosen
    <3>2. n \notin recent
      BY <3>1 DEF Protected
    <3>3. seen[w] \in [Name -> Rank \union {Absent}]
      OBVIOUS
    <3>4. \E m \in Name \ {n} : seen[w][m] \in Nat /\ seen[w][m] >= seen[w][n]
      <4>1. PICK m \in recent : m \in Name /\ seen[w][m] \in Rank /\ seen[w][m] >= seen[w][n]
        BY <2>2, <3>1, <3>3, NewestIsThere
      <4> QED  BY <3>2, <4>1 DEF Rank
    <3>5. seen[w][n] \in Nat
      BY <3>1, <3>3 DEF Rank
    <3> QED  BY <3>1, <3>4, <3>5 DEF Coll!Doomable
  <2> QED  BY <1>b, <1>c, <2>1, <2>3, <2>4, AbstractSteps
<1>4. ASSUME NEW c \in plan[w], NotRemoved(w, c) PROVE Coll!Next
  <2>1. UNCHANGED <<disk, taken>> /\ plan' = plan /\ reported[w] \subseteq reported'[w]
    BY <1>4 DEF NotRemoved, storeVars, history
  <2>2. Kept'[w] \subseteq Kept[w]
    BY <2>1 DEF Kept, Doomed, Queue
  <2> QED  BY <1>b, <1>c, <2>1, <2>2, AbstractSteps
<1>5. ASSUME NEW c \in plan[w], Remove(w, c), ~Crosses(c) PROVE Coll!Next
  <2>1. /\ plan' = plan /\ seen' = seen /\ c \in Queue(w) /\ c.name \in Name
        /\ reported' = [reported EXCEPT ![w] = @ \union {c.name}]
    BY <1>5, RemoveEffect DEF Remove
  <2>2. Kept'[w] = Kept[w] \ {c.name}
    BY <2>1 DEF Kept, Doomed, Queue
  <2>3. /\ \A n \in Name : disk'[Transcript(n)] = IF n \in Takes(c) THEN Absent
                                                  ELSE disk[Transcript(n)]
        /\ taken' = taken \union {n \in Takes(c) : Present(n)}
    BY <1>5, RemoveEffect
  <2>4. Takes(c) \subseteq Name /\ \A n \in Takes(c) : Present(n) => n = c.name
    BY <1>5, TakesType DEF Crosses
  <2>5. CASE \A n \in Takes(c) : ~Present(n)
    <3>1. Age' = Age /\ taken' = taken
      BY <2>3, <2>4, <2>5 DEF Age, Present
    <3> QED  BY <1>c, <2>2, <3>1, AbstractSteps
  <2>6. CASE \E n \in Takes(c) : Present(n)
    <3>1. c.name \in Takes(c) /\ Present(c.name) /\ c.agent = None
      BY <2>4, <2>6, TakesType
    <3>2. c.name \in Kept[w] /\ Age[c.name] # Absent
      BY <2>1, <3>1 DEF Kept, Doomed, Age, Present
    <3>3. Kept' = [Kept EXCEPT ![w] = @ \ {c.name}]
      BY <1>c, <2>2 DEF Kept
    <3>4. Age' = [Age EXCEPT ![c.name] = Absent]
      BY <2>1, <2>3, <2>4, <3>1 DEF Age, Present
    <3>5. taken' = taken \union {c.name}
      BY <2>3, <2>4, <3>1
    <3> QED  BY <2>1, <3>2, <3>3, <3>4, <3>5, AbstractSteps
  <2> QED  BY <2>5, <2>6
<1>6. CASE EndSweep(w)
  <2>1. UNCHANGED disk /\ plan'[w] = {} /\ taken' = {}
    BY <1>6 DEF EndSweep, storeVars
  <2>2. Kept'[w] \subseteq Kept[w]
    BY <2>1 DEF Kept, Doomed, Queue
  <2> QED  BY <1>b, <1>c, <2>1, <2>2, AbstractSteps
<1> QED  BY <1>1, <1>2, <1>3, <1>4, <1>5, <1>6 DEF SweepStep, Crossing

(* The per-session sweep, among sessions, deletions and other sweeps,      *)
(* implements Collector: it takes nothing but transcripts that were beyond *)
(* the window when it looked, and never the newest it saw, in every step   *)
(* but the removals that a 4.x name leads to another file.                 *)
THEOREM IsCollector == Spec => Collects
<1>1. Init => Coll!Init
  BY DEF Coll!Init, Init, Queue
<1>2. Inv /\ [Next]_vars => [Coll!Next \/ Crossing]_(Coll!vars)
  <2> SUFFICES ASSUME Inv, [Next]_vars PROVE Coll!Next \/ Crossing
    OBVIOUS
  <2>1. ASSUME NEW w \in Sweepers, SweepStep(w) PROVE Coll!Next \/ Crossing
    BY <2>1, SweepImplements DEF Inv
  <2>2. ASSUME NEW s \in Sessions, DeleteStep(s) \/ SessionActs(s) PROVE Coll!Next \/ Crossing
    <3>1. UNCHANGED <<seen, plan, reported, taken>>
      BY <2>2 DEF SessionActs, DeleteStep, CheckDelete, Unregister, UnlinkSession, Verify,
                  EndDelete, sweepVars, history
    <3>2. Kept' = Kept
      BY <3>1 DEF Kept, Doomed, Queue
    <3> QED  BY <3>1, <3>2, AbstractSteps
  <2>3. CASE UNCHANGED vars
    BY <2>3, AbstractSteps DEF vars, sweepVars, history, Kept, Doomed, Queue
  <2> QED  BY <2>1, <2>2, <2>3 DEF Next
<1> QED  BY <1>1, <1>2, InvHolds, PTL DEF Spec, Collects

-----------------------------------------------------------------------------
(***************************************************************************)
(* The newest transcript stays, with one sweep at a time: two that look at *)
(* transcripts of one date may each keep another.                          *)
(***************************************************************************)
OneSweeper == \A v, w \in Sweepers : v = w

(* What goes without another look: a session whose deletion has checked,   *)
(* and what waits in an apply phase's queue unguarded.                     *)
Deleting(n) == \E s \in Sessions : n = HashName(s) /\ rm[s] \in {"listed", "unregistered"}

Sweeping(n) ==
  \E w \in Sweepers : \E c \in Queue(w) :
    pc[w] = "apply" /\ c.name = n /\ n \notin guards[w]

May(n) == Deleting(n) \/ Sweeping(n)

(* One that does not go is as new; newer, if it is a deletion.             *)
Outlives(m, n) ==
  /\ m \in TranscriptsIn(Project(n)) /\ ~May(m)
  /\ disk[Transcript(n)] <= disk[Transcript(m)]
  /\ Deleting(n) => disk[Transcript(n)] < disk[Transcript(m)]

Outlived == \A n \in Name : May(n) /\ Present(n) => \E m \in Name : Outlives(m, n)

Undisturbed == rmActed = {} /\ \A w \in Sweepers : since[w] = {}

Excused == raced \/ crossed

NewestInv == Excused \/ (Undisturbed /\ Outlived)

LEMMA DatesAreRanks ==
  ASSUME TypeInv
  PROVE  /\ \A n \in Name : disk[Transcript(n)] \in Rank \union {Absent}
         /\ \A n \in Name : Present(n) <=> disk[Transcript(n)] \in Rank
BY DEF TypeInv, TypeOK, StoreTypeOK, Transcript, Artifact, ArtifactKind, Present, Rank

(* A step after which nothing new goes, and that takes at most what may.   *)
LEMMA NewestFrame ==
  ASSUME TypeInv, NewestInv, Excused => Excused', Undisturbed => Undisturbed',
         \A n \in Name : (Deleting(n)' => Deleting(n)) /\ (Sweeping(n)' => Sweeping(n)),
         \/ Excused'
         \/ \A n \in Name : \/ disk'[Transcript(n)] = disk[Transcript(n)]
                           \/ (disk'[Transcript(n)] = Absent /\ May(n))
  PROVE  NewestInv'
<1> SUFFICES ASSUME ~Excused', NEW n \in Name, May(n)', Present(n)'
             PROVE  \E m \in Name : Outlives(m, n)'
  BY DEF NewestInv, Outlived
<1>1. May(n) /\ Present(n) /\ disk'[Transcript(n)] = disk[Transcript(n)]
  BY DEF May, Present
<1>2. PICK m \in Name : Outlives(m, n)
  BY <1>1 DEF NewestInv, Outlived
<1>3. ~May(m) /\ ~May(m)' /\ disk'[Transcript(m)] = disk[Transcript(m)]
  BY <1>2 DEF Outlives, May
<1>4. m \in TranscriptsIn(Project(n))'
  BY <1>2, <1>3 DEF Outlives, TranscriptsIn, Present
<1> QED  BY <1>1, <1>2, <1>3, <1>4 DEF Outlives

(* The apply phase guards a newest of the directory, and a deletion's is   *)
(* not one.                                                                *)
LEMMA NewestResolve ==
  ASSUME Inv, NewestInv, OneSweeper, NEW w \in Sweepers, ResolveApply(w)
  PROVE  NewestInv'
<1> USE DEF Inv, TypeInv, TypeOK
<1>0. /\ UNCHANGED <<disk, rm, raced, crossed, rmActed, plan, reported>> /\ pc'[w] = "apply"
      /\ since'[w] = {} /\ \A v \in Sweepers : v = w
      /\ pc[w] = "planned"
  BY DEF ResolveApply, storeVars, rmVars, OneSweeper
<1> SUFFICES ASSUME ~Excused, NEW n \in Name, May(n)', Present(n)
             PROVE  \E m \in Name : Outlives(m, n)'
  BY <1>0 DEF NewestInv, Excused, Undisturbed, Outlived, Present
<1>1. PICK recent \in SUBSET Name :
        /\ Newest(recent, 1, [k \in Name |-> Date(k)])
        /\ recent \subseteq guards'[w]
  <2>1. PICK recent \in SUBSET Name :
          /\ Newest(recent, 1, [k \in Name |-> Date(k)])
          /\ guards' = [guards EXCEPT ![w] = @ \union recent \union {RawName(s) : s \in Pointed}]
    BY DEF ResolveApply
  <2>2. recent \subseteq guards'[w]
    BY <2>1
  <2> QED  BY <2>1, <2>2
<1>2. \A k \in Name : Deleting(k)' <=> Deleting(k)
  BY <1>0 DEF Deleting
<1>3. \A k \in recent : ~Sweeping(k)'
  BY <1>0, <1>1 DEF Sweeping, Queue
<1>4. \A k \in Name : Sweeping(k)' => Project(k) = Cwd
  BY <1>0 DEF Sweeping, Queue, SweepInv, Project
<1>5. \A k \in Name : ~Sweeping(k)
  BY <1>0 DEF Sweeping
<1>6. [k \in Name |-> Date(k)] \in [Name -> Rank \union {Absent}]
  BY DatesAreRanks DEF Date
<1>7. ASSUME NEW k \in Name, Project(k) = Cwd, Present(k)
      PROVE  \E m \in recent : /\ m \in TranscriptsIn(Cwd) /\ m \in Name
                               /\ disk[Transcript(k)] <= disk[Transcript(m)]
  <2>1. Date(k) = disk[Transcript(k)] /\ Date(k) # Absent
    BY <1>7 DEF Date, Present
  <2>2. PICK m \in recent : m \in Name /\ Date(m) \in Rank /\ Date(m) >= Date(k)
    BY <1>1, <1>6, <2>1, NewestIsThere
  <2>3. Project(m) = Cwd /\ Date(m) = disk[Transcript(m)]
    BY <2>2 DEF Date, Rank
  <2>4. disk[Transcript(k)] \in Rank
    BY <1>7, DatesAreRanks
  <2> QED  BY <2>1, <2>2, <2>3, <2>4, DatesAreRanks DEF TranscriptsIn, Rank
<1>8. \A k \in Name : Deleting(k) /\ Present(k) =>
        \E m \in Name : m \in TranscriptsIn(Project(k)) /\ disk[Transcript(k)] < disk[Transcript(m)]
                        /\ ~May(m)
  BY DEF NewestInv, Outlived, Outlives, May
<1>9. \A k \in recent : ~Deleting(k) \/ ~Present(k) \/ Project(k) # Cwd
  <2> SUFFICES ASSUME NEW k \in recent, Deleting(k), Present(k), Project(k) = Cwd PROVE FALSE
    OBVIOUS
  <2>1. PICK m \in Name : m \in TranscriptsIn(Cwd) /\ disk[Transcript(k)] < disk[Transcript(m)]
    BY <1>8
  <2>2. Date(m) = disk[Transcript(m)] /\ Date(k) = disk[Transcript(k)] /\ Date(m) # Absent
    BY <2>1 DEF Date, TranscriptsIn, Present
  <2>3. /\ disk[Transcript(m)] \in Rank /\ disk[Transcript(k)] \in Rank
    BY <2>1, DatesAreRanks DEF TranscriptsIn
  <2>4. m \notin recent => Date(m) <= Date(k)
    BY <1>1, <2>2 DEF Newest
  <2>5. m \notin recent
    <3>1. \A x, y \in recent : x = y
      <4>1. Cardinality(recent) \in {0, 1} /\ IsFiniteSet(recent)
        BY <1>1, RecentIsOne
      <4> QED  BY <4>1, FS_CardinalityType, FS_EmptySet, FS_Singleton
    <3> QED  BY <2>1, <2>3, <3>1 DEF Rank
  <2> QED  BY <2>1, <2>2, <2>3, <2>4, <2>5 DEF Rank
<1>10. CASE Deleting(n)
  <2>1. PICK m \in Name : /\ m \in TranscriptsIn(Project(n)) /\ ~May(m)
                         /\ disk[Transcript(n)] < disk[Transcript(m)]
    BY <1>8, <1>10
  <2>2. CASE ~Sweeping(m)'
    <3>1. ~May(m)'
      BY <1>2, <2>1, <2>2 DEF May
    <3>2. disk[Transcript(n)] <= disk[Transcript(m)]
      BY <2>1, DatesAreRanks DEF TranscriptsIn, Rank
    <3> QED  BY <1>0, <2>1, <3>1, <3>2 DEF Outlives, TranscriptsIn, Present
  <2>3. CASE Sweeping(m)'
    <3>1. Project(m) = Cwd /\ Present(m) /\ Project(n) = Cwd
      BY <1>4, <2>1, <2>3 DEF TranscriptsIn
    <3>2. PICK k \in recent : /\ k \in TranscriptsIn(Cwd) /\ k \in Name
                             /\ disk[Transcript(m)] <= disk[Transcript(k)]
      BY <1>7, <3>1
    <3>3. ~May(k)'
      BY <1>2, <1>3, <1>9, <3>2 DEF May, TranscriptsIn
    <3>4. disk[Transcript(n)] < disk[Transcript(k)] /\ disk[Transcript(n)] <= disk[Transcript(k)]
      BY <2>1, <3>1, <3>2, DatesAreRanks DEF TranscriptsIn, Rank
    <3> QED  BY <1>0, <3>1, <3>2, <3>3, <3>4 DEF Outlives, TranscriptsIn, Present
  <2> QED  BY <2>2, <2>3
<1>11. CASE ~Deleting(n)
  <2>1. Sweeping(n)' /\ Project(n) = Cwd
    BY <1>2, <1>4, <1>11 DEF May
  <2>2. PICK k \in recent : /\ k \in TranscriptsIn(Cwd) /\ k \in Name
                           /\ disk[Transcript(n)] <= disk[Transcript(k)]
    BY <1>7, <2>1
  <2>3. ~May(k)'
    BY <1>2, <1>3, <1>9, <2>2 DEF May, TranscriptsIn
  <2> QED  BY <1>0, <1>2, <1>11, <2>1, <2>2, <2>3 DEF Outlives, TranscriptsIn, Present
<1> QED  BY <1>10, <1>11

(* A deletion that has checked is of one that is not the newest.           *)
LEMMA NewestCheck ==
  ASSUME TypeInv, NewestInv, NEW s \in Sessions, CheckDelete(s)
  PROVE  NewestInv'
<1> USE DEF TypeInv, TypeOK
<1> DEFINE h == HashName(s)
<1>0. /\ UNCHANGED <<disk, sweepVars, raced, crossed, since>> /\ rmActed' \subseteq rmActed
      /\ ~MostRecent(h) /\ h \in Name
  BY DEF CheckDelete, storeVars, ProtectedFromDelete, HashName, Name
<1>1. \A k \in Name : Deleting(k)' => Deleting(k) \/ k = h
  BY DEF CheckDelete, Deleting
<1>2. \A k \in Name : Sweeping(k)' <=> Sweeping(k)
  BY <1>0 DEF sweepVars, Sweeping, Queue
<1> HIDE DEF h
<1> SUFFICES ASSUME ~Excused, NEW n \in Name, May(n)', Present(n)
             PROVE  \E m \in Name : Outlives(m, n)'
  BY <1>0 DEF NewestInv, Excused, Undisturbed, Outlived, Present
<1>3. ASSUME Present(h)
      PROVE  \E m \in Name : /\ m \in TranscriptsIn(Project(h)) /\ ~May(m) /\ m # h
                             /\ disk[Transcript(h)] < disk[Transcript(m)]
  <2>1. PICK x \in Name : x \in TranscriptsIn(Project(h)) /\ ~(disk[Transcript(x)] <= disk[Transcript(h)])
    BY <1>0, <1>3 DEF MostRecent, TranscriptsIn
  <2>2. /\ disk[Transcript(h)] \in Rank /\ disk[Transcript(x)] \in Rank
        /\ disk[Transcript(h)] < disk[Transcript(x)]
    BY <1>0, <1>3, <2>1, DatesAreRanks DEF TranscriptsIn, Rank
  <2>3. CASE ~May(x)
    BY <2>1, <2>2, <2>3 DEF Rank
  <2>4. CASE May(x)
    <3>1. PICK m \in Name : Outlives(m, x)
      BY <2>1, <2>4 DEF NewestInv, Outlived, TranscriptsIn
    <3>2. m \in TranscriptsIn(Project(h)) /\ disk[Transcript(m)] \in Rank
      BY <2>1, <3>1, DatesAreRanks DEF Outlives, TranscriptsIn
    <3> QED  BY <2>2, <3>1, <3>2 DEF Outlives, Rank
  <2> QED  BY <2>3, <2>4
<1>4. CASE n = h
  <2>1. PICK m \in Name : /\ m \in TranscriptsIn(Project(h)) /\ ~May(m) /\ m # h
                         /\ disk[Transcript(h)] < disk[Transcript(m)]
    BY <1>3, <1>4
  <2>2. ~May(m)'
    BY <1>1, <1>2, <2>1 DEF May
  <2>3. disk[Transcript(h)] \in Rank /\ disk[Transcript(m)] \in Rank
    BY <1>0, <1>4, <2>1, DatesAreRanks DEF TranscriptsIn
  <2>4. disk[Transcript(h)] <= disk[Transcript(m)]
    BY <2>1, <2>3 DEF Rank
  <2> QED  BY <1>0, <1>4, <2>1, <2>2, <2>4 DEF Outlives, TranscriptsIn, Present
<1>5. CASE n # h
  <2>1. PICK m \in Name : Outlives(m, n)
    BY <1>1, <1>2, <1>5 DEF May, NewestInv, Outlived
  <2>2. CASE m # h
    <3>1. ~May(m)'
      BY <1>1, <1>2, <2>1, <2>2 DEF May, Outlives
    <3> QED  BY <1>0, <1>1, <1>5, <2>1, <3>1 DEF Outlives, TranscriptsIn, Present
  <2>3. CASE m = h
    <3>1. PICK k \in Name : /\ k \in TranscriptsIn(Project(h)) /\ ~May(k) /\ k # h
                           /\ disk[Transcript(h)] < disk[Transcript(k)]
      BY <1>3, <2>1, <2>3 DEF Outlives, TranscriptsIn
    <3>2. ~May(k)'
      BY <1>1, <1>2, <3>1 DEF May
    <3>3. /\ Project(h) = Project(n) /\ disk[Transcript(n)] < disk[Transcript(k)]
          /\ disk[Transcript(n)] <= disk[Transcript(k)]
      BY <1>0, <2>1, <2>3, <3>1, DatesAreRanks DEF Outlives, TranscriptsIn, Rank
    <3> QED  BY <1>0, <3>1, <3>2, <3>3 DEF Outlives, TranscriptsIn, Present
  <2> QED  BY <2>2, <2>3
<1> QED  BY <1>4, <1>5

(* A session that acts while nobody looks at it only makes its own newer.  *)
LEMMA NewestActs ==
  ASSUME TypeInv, NewestInv, NEW s \in Sessions, SessionActs(s)
  PROVE  NewestInv'
<1> USE DEF TypeInv, TypeOK
<1> DEFINE h == HashName(s)
<1>0. h \in Name /\ SessionStep(s) /\ UNCHANGED <<sweepVars, rmVars, crossed>>
  BY DEF SessionActs, SessionStep, HashName, Name
<1>1. \A k \in Name : (Deleting(k)' <=> Deleting(k)) /\ (Sweeping(k)' <=> Sweeping(k))
  BY <1>0 DEF sweepVars, rmVars, Deleting, Sweeping, Queue
<1>2. CASE Excused'
  BY <1>2 DEF NewestInv
<1>3. CASE ~Excused'
  <2>0. ~raced' /\ ~crossed
    BY <1>0, <1>3 DEF Excused
  <2>1. ~Excused /\ rmActed' = rmActed /\ since' = since /\ Undisturbed /\ Outlived
    BY <2>0 DEF SessionActs, NewestInv, Excused
  <2>2. rm[s] = "idle" /\ \A w \in Sweepers : pc[w] # "apply"
    BY <2>1 DEF SessionActs, Noted, Undisturbed
  <2>3. ~May(h)
    BY <2>2 DEF May, Deleting, Sweeping, HashName
  <2>4. /\ \A k \in Name \ {h} : disk'[Transcript(k)] = disk[Transcript(k)]
        /\ disk'[Transcript(h)] \in {disk[Transcript(h)], Fresh}
    BY <1>0, SessionEffect
  <2> HIDE DEF h
  <2>5. ASSUME NEW n \in Name, May(n)', Present(n)' PROVE \E m \in Name : Outlives(m, n)'
    <3>1. May(n) /\ n # h /\ Present(n) /\ disk'[Transcript(n)] = disk[Transcript(n)]
      BY <1>1, <2>3, <2>4, <2>5 DEF May, Present
    <3>2. PICK m \in Name : Outlives(m, n)
      BY <2>1, <3>1 DEF Outlived
    <3>3. /\ ~May(m)' /\ disk[Transcript(m)] \in Rank /\ disk[Transcript(n)] \in Rank
          /\ disk'[Transcript(m)] \in Rank /\ disk[Transcript(m)] <= disk'[Transcript(m)]
      BY <1>0, <1>1, <2>4, <3>1, <3>2, DatesAreRanks DEF May, Outlives, TranscriptsIn, Rank
    <3>4. m \in TranscriptsIn(Project(n))'
      BY <3>2, <3>3 DEF Outlives, TranscriptsIn, Present, Rank
    <3> QED  BY <1>1, <3>1, <3>2, <3>3, <3>4 DEF Outlives, Rank
  <2> QED  BY <2>1, <2>5 DEF NewestInv, Outlived, Undisturbed
<1> QED  BY <1>2, <1>3

LEMMA NewestStep ==
  ASSUME Inv, NewestInv, OneSweeper, [Next]_vars
  PROVE  NewestInv'
<1> USE DEF Inv, TypeInv, TypeOK
<1>0. ASSUME UNCHANGED <<disk, rm, pc, guards, plan, reported, raced, crossed, rmActed, since>>
      PROVE  NewestInv'
  BY <1>0, NewestFrame DEF Excused, Undisturbed, Deleting, Sweeping, Queue
<1>1. ASSUME NEW w \in Sweepers, SweepStep(w) PROVE NewestInv'
  <2>0. \A v \in Sweepers : v = w
    BY DEF OneSweeper
  <2>1. CASE ReadTranscriptDir(w) \/ ListRegistry(w) \/ Decide(w) \/ EndSweep(w)
    <3>1. /\ UNCHANGED <<disk, rm, raced, crossed, rmActed>> /\ pc'[w] # "apply"
          /\ since'[w] \in {since[w], {}}
      BY <2>1 DEF ReadTranscriptDir, ListRegistry, Decide, EndSweep, storeVars, rmVars,
                  history
    <3>2. \A n \in Name : (Deleting(n)' => Deleting(n)) /\ ~Sweeping(n)'
      BY <2>0, <3>1 DEF Deleting, Sweeping
    <3>3. Undisturbed => Undisturbed'
      BY <2>0, <3>1 DEF Undisturbed
    <3> QED  BY <3>1, <3>2, <3>3, NewestFrame DEF Excused
  <2>2. CASE ResolveApply(w)
    BY <2>2, NewestResolve
  <2>3. ASSUME NEW c \in plan[w], NotRemoved(w, c) \/ Remove(w, c) PROVE NewestInv'
    <3>1. /\ UNCHANGED <<rm, raced, rmActed, since, pc, guards, plan>>
          /\ reported' = [reported EXCEPT ![w] = @ \union {c.name}]
          /\ crossed => crossed'
      BY <2>3, RemoveEffect DEF NotRemoved, Remove, rmVars, history
    <3>2. Queue(w)' \subseteq Queue(w)
      BY <3>1 DEF Queue
    <3>3. \A n \in Name : (Deleting(n)' => Deleting(n)) /\ (Sweeping(n)' => Sweeping(n))
      BY <2>0, <3>1, <3>2 DEF Deleting, Sweeping
    <3>4. \/ Excused'
          \/ \A n \in Name : \/ disk'[Transcript(n)] = disk[Transcript(n)]
                            \/ (disk'[Transcript(n)] = Absent /\ May(n))
      <4>1. CASE NotRemoved(w, c)
        BY <4>1 DEF NotRemoved, storeVars
      <4>2. CASE Remove(w, c) /\ ~crossed'
        <5>1. /\ \A n \in Name : disk'[Transcript(n)] = IF n \in Takes(c) THEN Absent
                                                         ELSE disk[Transcript(n)]
              /\ \A n \in Takes(c) : Present(n) => n = c.name
          BY <4>2, RemoveEffect
        <5>2. May(c.name)
          BY <4>2, RemoveEffect DEF May, Sweeping
        <5> QED  BY <5>1, <5>2 DEF Present
      <4> QED  BY <2>3, <4>1, <4>2 DEF Excused
    <3> QED  BY <3>1, <3>3, <3>4, NewestFrame DEF Undisturbed, Excused
  <2> QED  BY <1>1, <2>1, <2>2, <2>3 DEF SweepStep
<1>2. ASSUME NEW s \in Sessions, CheckDelete(s) PROVE NewestInv'
  BY <1>2, NewestCheck
<1>3. ASSUME NEW s \in Sessions, SessionActs(s) PROVE NewestInv'
  BY <1>3, NewestActs
<1>4. ASSUME NEW s \in Sessions,
             Unregister(s) \/ UnlinkSession(s) \/ Verify(s) \/ EndDelete(s)
      PROVE  NewestInv'
  <2>1. /\ UNCHANGED <<pc, guards, plan, reported, raced, crossed, since>> /\ rmActed' \subseteq rmActed
        /\ \A t \in Sessions : rm'[t] = rm[t] \/ (t = s /\ rm'[t] # "listed")
        /\ rm'[s] = "unregistered" => rm[s] = "listed"
    BY <1>4 DEF Unregister, UnlinkSession, Verify, EndDelete, sweepVars, history
  <2>2. \A n \in Name : (Deleting(n)' => Deleting(n)) /\ (Sweeping(n)' => Sweeping(n))
    BY <2>1 DEF Deleting, Sweeping, Queue
  <2>3. \A n \in Name : \/ disk'[Transcript(n)] = disk[Transcript(n)]
                        \/ (disk'[Transcript(n)] = Absent /\ May(n))
    <3>1. CASE UNCHANGED disk
      BY <3>1
    <3>2. CASE ~UNCHANGED disk
      <4>1. disk' = [disk EXCEPT ![Transcript(HashName(s))] = Absent] /\ rm[s] = "unregistered"
        BY <1>4, <3>2 DEF Unregister, UnlinkSession, Verify, EndDelete, storeVars
      <4>2. May(HashName(s)) /\ HashName(s) \in Name
        BY <4>1 DEF May, Deleting, HashName, Name
      <4>3. \A k \in Name : disk'[Transcript(k)] = IF k = HashName(s) THEN Absent
                                                   ELSE disk[Transcript(k)]
        BY <4>1, <4>2, UnlinkedIsAbsent
      <4> QED  BY <4>2, <4>3
    <3> QED  BY <3>1, <3>2
  <2> QED  BY <2>1, <2>2, <2>3, NewestFrame DEF Undisturbed, Excused
<1>5. CASE UNCHANGED vars
  BY <1>0, <1>5 DEF vars, storeVars, sweepVars, rmVars, history
<1> QED  BY <1>1, <1>2, <1>3, <1>4, <1>5 DEF Next, DeleteStep

(* What goes in a step has a transcript beside it that is as new.          *)
LEMMA NewestGoes ==
  ASSUME Inv, NewestInv, [Next]_vars,
         NEW n \in Name, Present(n), disk'[Transcript(n)] = Absent,
         \A m \in TranscriptsIn(Project(n)) \ {n} : disk[Transcript(m)] < disk[Transcript(n)]
  PROVE  raced \/ crossed'
<1> USE DEF Inv, TypeInv, TypeOK
<1> SUFFICES ASSUME ~raced, ~crossed' PROVE FALSE
  OBVIOUS
<1>1. May(n)
  <2>1. ASSUME NEW w \in Sweepers, SweepStep(w) PROVE May(n)
    <3>1. PICK c \in plan[w] : Remove(w, c) /\ ~UNCHANGED disk
      BY <2>1 DEF SweepStep, ReadTranscriptDir, ListRegistry, Decide, ResolveApply,
                  NotRemoved, EndSweep, storeVars, Present
    <3>2. /\ pc[w] = "apply" /\ c \in Queue(w) /\ c.name \notin guards[w]
          /\ n \in Takes(c) => n = c.name
          /\ n \in Takes(c) \/ disk'[Transcript(n)] = disk[Transcript(n)]
      BY <3>1, RemoveEffect
    <3>3. n = c.name
      BY <3>2 DEF Present
    <3> QED  BY <3>2, <3>3 DEF May, Sweeping
  <2>2. ASSUME NEW s \in Sessions, DeleteStep(s) PROVE May(n)
    <3>1. disk' = [disk EXCEPT ![Transcript(HashName(s))] = Absent] /\ rm[s] = "unregistered"
      BY <2>2 DEF DeleteStep, CheckDelete, Unregister, UnlinkSession, Verify, EndDelete,
                  storeVars, Present
    <3>2. HashName(s) \in Name
      BY DEF HashName, Name
    <3>3. n = HashName(s)
      BY <3>1, <3>2, UnlinkedIsAbsent DEF Present
    <3> QED  BY <3>1, <3>3 DEF May, Deleting
  <2>3. ASSUME NEW s \in Sessions, SessionActs(s) PROVE FALSE
    <3>1. SessionStep(s) /\ Fresh # Absent
      BY <2>3 DEF SessionActs, SessionStep
    <3> QED  BY <3>1, SessionEffect DEF Present
  <2>4. CASE UNCHANGED vars
    BY <2>4 DEF vars, storeVars, Present
  <2> QED  BY <2>1, <2>2, <2>3, <2>4 DEF Next
<1>2. PICK m \in Name : Outlives(m, n)
  <2>1. crossed => crossed'
    <3>1. ASSUME NEW w \in Sweepers, NEW c \in plan[w], Remove(w, c) PROVE crossed => crossed'
      BY <3>1, RemoveEffect
    <3> QED
      BY <3>1 DEF Next, SweepStep, ReadTranscriptDir, ListRegistry, Decide, ResolveApply,
                  NotRemoved, EndSweep, DeleteStep, CheckDelete, Unregister, UnlinkSession,
                  Verify, EndDelete, SessionActs, history, vars
  <2> QED  BY <1>1, <2>1 DEF NewestInv, Outlived, Excused
<1>3. m # n /\ m \in TranscriptsIn(Project(n))
  BY <1>1, <1>2 DEF Outlives
<1>4. disk[Transcript(m)] \in Rank /\ disk[Transcript(n)] \in Rank
  BY <1>3, DatesAreRanks DEF TranscriptsIn
<1> QED  BY <1>2, <1>3, <1>4 DEF Outlives, Rank

(* With one sweep at a time and any number of deletions, none takes a      *)
(* transcript that is newer than all the others of its directory, unless a *)
(* session was active between the look, or the check, and the end, or a    *)
(* 4.x name has led the sweep to another file.                             *)
THEOREM NewestStays ==
  ASSUME OneSweeper
  PROVE  Spec => NewestKept
<1>1. Init => NewestInv
  <2> SUFFICES ASSUME Init PROVE NewestInv
    OBVIOUS
  <2>1. \A n \in Name : ~May(n)
    BY DEF Init, May, Deleting, Sweeping
  <2> QED  BY <2>1 DEF Init, NewestInv, Excused, Undisturbed, Outlived
<1>2. Inv /\ NewestInv /\ [Next]_vars => NewestInv'
  BY NewestStep
<1>3. Inv /\ NewestInv /\ [Next]_vars => [NewestGone => raced \/ crossed']_vars
  BY NewestGoes DEF NewestGone
<1> QED  BY <1>1, <1>2, <1>3, InvHolds, PTL DEF Spec, NewestKept
=============================================================================
