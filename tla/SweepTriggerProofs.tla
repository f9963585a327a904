------------------------- MODULE SweepTriggerProofs -------------------------
(***************************************************************************)
(* The trigger's types, and that nobody's first automatic sweep deletes    *)
(* anything, for any number of launches, any interval and any clock.       *)
(***************************************************************************)
EXTENDS SweepTrigger, TLAPS

USE IntervalAssumption, MaxClockAssumption, StampAssumption DEF Time

(* A launch that decides finds no stamp it can read, and looks first, or   *)
(* one that is an interval old - and, the file being whole, it reads it.   *)
LEMMA Decided ==
  ASSUME TypeOK, NEW l \in Launches, Decide(l)
  PROVE  /\ startedAt'[l] = clock
         /\ ~firstRun'[l] => stamp \in Time /\ clock - stamp >= Interval
         /\ ~lost' /\ stamp \in Time => ~firstRun'[l]
<1>1. PICK unreadable \in BOOLEAN :
        /\ IsDue(LastRun(unreadable))
        /\ firstRun' = [firstRun EXCEPT ![l] = LastRun(unreadable) = NoStamp]
        /\ lost' = (lost \/ unreadable)
  BY DEF Decide
<1>2. startedAt'[l] = clock
  BY DEF Decide, TypeOK
<1>3. firstRun'[l] = (LastRun(unreadable) = NoStamp)
  BY <1>1 DEF TypeOK
<1>4. CASE LastRun(unreadable) = NoStamp
  <2>1. stamp \in Time => unreadable
    BY <1>4 DEF LastRun
  <2> QED BY <1>1, <1>2, <1>3, <1>4, <2>1
<1>5. CASE LastRun(unreadable) # NoStamp
  <2>1. stamp \in Time /\ LastRun(unreadable) = stamp
    BY <1>5 DEF LastRun, TypeOK
  <2>2. clock - stamp >= Interval
    BY <1>1, <1>5, <2>1 DEF IsDue
  <2> QED BY <1>2, <1>3, <1>5, <2>1, <2>2
<1> QED BY <1>4, <1>5

LEMMA TypeInit == Init => TypeOK
BY DEF Init, TypeOK, LaunchPhase, ChildState

LEMMA TypeStep == TypeOK /\ [Next]_vars => TypeOK'
<1> SUFFICES ASSUME TypeOK, [Next]_vars PROVE TypeOK'
  OBVIOUS
<1> USE DEF TypeOK, LaunchPhase, ChildState, history
<1>1. CASE Tick
  BY <1>1 DEF Tick
<1>2. CASE DamageStamp
  BY <1>2 DEF DamageStamp
<1>3. ASSUME NEW l \in Launches, LaunchStep(l) PROVE TypeOK'
  <2>1. CASE StaysIdle(l)
    BY <2>1 DEF StaysIdle
  <2>2. CASE Decide(l)
    BY <2>2 DEF Decide
  <2>3. CASE WriteStamp(l)
    BY <2>3 DEF WriteStamp
  <2>4. CASE StampFails(l)
    BY <2>4 DEF StampFails
  <2>5. CASE Spawn(l) \/ SpawnFails(l) \/ Close(l)
    BY <2>5 DEF Spawn, SpawnFails, Close
  <2>6. CASE ChildEnds(l)
    BY <2>6 DEF ChildEnds
  <2> QED BY <1>3, <2>1, <2>2, <2>3, <2>4, <2>5, <2>6 DEF LaunchStep
<1>4. CASE UNCHANGED vars
  BY <1>4 DEF vars, code
<1> QED BY <1>1, <1>2, <1>3, <1>4 DEF Next

(* Every variable keeps its type: in particular the stamp on disk is always *)
(* absent, damaged or a time some launch started at.                        *)
THEOREM TypeCorrect == Spec => []TypeOK
BY TypeInit, TypeStep, PTL DEF Spec

-----------------------------------------------------------------------------
(***************************************************************************)
(* FirstSweepNeverApplies says nothing of a launch that has only decided,  *)
(* nor of the stamp it decided from.  What carries it: a stamp on disk is  *)
(* never older than the first run on record, and a launch that will apply  *)
(* decided from such a stamp.                                              *)
(***************************************************************************)
StampIsOnRecord ==
  stamp \in Time => onRecord # NoStamp /\ onRecord <= stamp

WillApply(l) == phase[l] \in {"decided", "stamped", "started"} /\ ~firstRun[l]

AppliesOnRecord ==
  \A l \in Launches : WillApply(l) \/ (Ran(l) /\ ~firstRun[l]) =>
    onRecord # NoStamp /\ startedAt[l] - onRecord >= Interval

(* A launch that has not decided has no child, so none decides after one.  *)
NoChildYet == \A l \in Launches : phase[l] = "off" => child[l] = "none"

FirstSweepInv == TypeOK /\ StampIsOnRecord /\ AppliesOnRecord /\ NoChildYet

LEMMA FirstSweepStep == FirstSweepInv /\ [Next]_vars => FirstSweepInv'
<1> SUFFICES ASSUME FirstSweepInv, [Next]_vars
             PROVE (StampIsOnRecord /\ AppliesOnRecord /\ NoChildYet)'
  BY TypeStep DEF FirstSweepInv
<1> USE DEF FirstSweepInv, TypeOK, StampIsOnRecord, AppliesOnRecord, NoChildYet,
            WillApply, Ran, history, LaunchPhase, ChildState
<1>1. CASE Tick
  BY <1>1 DEF Tick
<1>2. CASE DamageStamp
  BY <1>2 DEF DamageStamp
<1>3. ASSUME NEW l \in Launches, LaunchStep(l)
      PROVE (StampIsOnRecord /\ AppliesOnRecord /\ NoChildYet)'
  <2>1. CASE StaysIdle(l)
    BY <2>1 DEF StaysIdle
  <2>2. CASE Decide(l)
    <3>1. /\ startedAt'[l] = clock
          /\ ~firstRun'[l] => stamp \in Time /\ clock - stamp >= Interval
      BY <2>2, Decided
    <3>2. \A m \in Launches \ {l} : /\ startedAt'[m] = startedAt[m]
                                    /\ firstRun'[m] = firstRun[m]
                                    /\ phase'[m] = phase[m]
      BY <2>2 DEF Decide
    <3> QED BY <2>2, <3>1, <3>2 DEF Decide
  <2>3. CASE WriteStamp(l)
    BY <2>3 DEF WriteStamp
  <2>4. CASE StampFails(l)
    BY <2>4 DEF StampFails
  <2>5. CASE Spawn(l) \/ SpawnFails(l) \/ Close(l)
    BY <2>5 DEF Spawn, SpawnFails, Close
  <2>6. CASE ChildEnds(l)
    BY <2>6 DEF ChildEnds
  <2> QED BY <1>3, <2>1, <2>2, <2>3, <2>4, <2>5, <2>6 DEF LaunchStep
<1>4. CASE UNCHANGED vars
  BY <1>4 DEF vars, code
<1> QED BY <1>1, <1>2, <1>3, <1>4 DEF Next

(* B-139: whatever is damaged, unwritable or raced, an automatic sweep     *)
(* applies only when a run has been on record for a whole interval.        *)
THEOREM FirstSweepIsDry == Spec => []FirstSweepNeverApplies
<1>1. Init => FirstSweepInv
  BY TypeInit DEF Init, FirstSweepInv, StampIsOnRecord, AppliesOnRecord,
                  NoChildYet, WillApply, Ran
<1>2. FirstSweepInv => FirstSweepNeverApplies
  BY DEF FirstSweepInv, AppliesOnRecord, FirstSweepNeverApplies
<1> QED BY <1>1, <1>2, FirstSweepStep, PTL DEF Spec

-----------------------------------------------------------------------------
(***************************************************************************)
(* The two properties about pairs of sweeps.  As long as no stamp is lost, *)
(* the file holds the latest start of all launches that stamped; so a      *)
(* launch that decides after another's stamp finds itself an interval away *)
(* from it, and on a run that is not the first.                            *)
(***************************************************************************)
Stamped(l) == (phase[l] = "stamped" \/ Ran(l)) /\ l \notin unstamped

Pending(l) == phase[l] = "decided" \/ Stamped(l)

LatestStamp ==
  ~lost => \A l \in Launches : Stamped(l) => stamp \in Time /\ startedAt[l] <= stamp

Overlapped(l, m) == l \in overlap[m] \/ m \in overlap[l]

Apart(l, m) ==
  startedAt[l] - startedAt[m] >= Interval \/ startedAt[m] - startedAt[l] >= Interval

PairsApart ==
  ~lost => \A l, m \in Launches :
    l # m /\ Stamped(l) /\ Pending(m) =>
      Overlapped(l, m) \/ (Apart(l, m) /\ ~(firstRun[l] /\ firstRun[m]))

PairInv == TypeOK /\ NoChildYet /\ LatestStamp /\ PairsApart

LEMMA PairStep == PairInv /\ [Next]_vars => PairInv'
<1> SUFFICES ASSUME PairInv, [Next]_vars
             PROVE (NoChildYet /\ LatestStamp /\ PairsApart)'
  BY TypeStep DEF PairInv
<1> USE DEF PairInv, TypeOK, NoChildYet, LatestStamp, PairsApart, Stamped, Pending,
            Overlapped, Apart, Ran, history, LaunchPhase, ChildState
<1>1. CASE Tick
  BY <1>1 DEF Tick
<1>2. CASE DamageStamp
  BY <1>2 DEF DamageStamp
<1>3. ASSUME NEW l \in Launches, LaunchStep(l)
      PROVE (NoChildYet /\ LatestStamp /\ PairsApart)'
  <2>1. CASE StaysIdle(l)
    BY <2>1 DEF StaysIdle
  <2>2. CASE Decide(l)
    <3>1. /\ startedAt'[l] = clock
          /\ ~firstRun'[l] => stamp \in Time /\ clock - stamp >= Interval
          /\ ~lost' /\ stamp \in Time => ~firstRun'[l]
      BY <2>2, Decided
    <3>2. lost => lost'
      BY <2>2 DEF Decide
    <3>3. NoChildYet' /\ LatestStamp'
      BY <2>2, <3>2 DEF Decide
    <3>4. \A m \in Launches \ {l} : /\ startedAt'[m] = startedAt[m]
                                    /\ firstRun'[m] = firstRun[m]
                                    /\ phase'[m] = phase[m]
      BY <2>2 DEF Decide
    <3>5. PairsApart'
      BY <2>2, <3>1, <3>2, <3>4 DEF Decide
    <3> QED BY <3>3, <3>5
  <2>3. CASE WriteStamp(l)
    <3>1. NoChildYet' /\ LatestStamp'
      <4>1. NoChildYet'
        BY <2>3 DEF WriteStamp
      <4>2. SUFFICES ASSUME ~lost', NEW m \in Launches, Stamped(m)'
                     PROVE  stamp' \in Time /\ startedAt'[m] <= stamp'
        BY <4>1
      <4>3. ~lost /\ (stamp \in Time => stamp <= startedAt[l])
        <5>1. ~lost /\ ~(stamp \in Time /\ startedAt[l] < stamp)
          BY <2>3, <4>2, Zenon DEF WriteStamp
        <5>2. startedAt[l] \in Time
          OBVIOUS
        <5> QED BY <5>1, <5>2
      <4>4. m = l \/ Stamped(m)
        BY <2>3, <4>2 DEF WriteStamp
      <4> QED BY <2>3, <4>3, <4>4 DEF WriteStamp
    <3>2. \A k, m \in Launches : Overlapped(k, m) => Overlapped(k, m)'
      BY <2>3 DEF WriteStamp
    <3>3. \A m \in Launches : Pending(m)' => Pending(m)
      BY <2>3 DEF WriteStamp
    <3>4. \A m \in Launches : Stamped(m)' => m = l \/ Stamped(m)
      BY <2>3 DEF WriteStamp
    <3>5. \A m \in Launches : phase[m] = "decided" => Overlapped(l, m)'
      BY <2>3 DEF WriteStamp
    <3>6. PairsApart'
      BY <2>3, <3>2, <3>3, <3>4, <3>5 DEF WriteStamp
    <3> QED BY <3>1, <3>6
  <2>4. CASE StampFails(l)
    BY <2>4 DEF StampFails
  <2>5. CASE Spawn(l)
    BY <2>5 DEF Spawn
  <2>6. CASE SpawnFails(l) \/ Close(l)
    BY <2>6 DEF SpawnFails, Close
  <2>7. CASE ChildEnds(l)
    BY <2>7 DEF ChildEnds
  <2> QED BY <1>3, <2>1, <2>2, <2>3, <2>4, <2>5, <2>6, <2>7 DEF LaunchStep
<1>4. CASE UNCHANGED vars
  BY <1>4 DEF vars, code
<1> QED BY <1>1, <1>2, <1>3, <1>4 DEF Next

LEMMA PairsInvariant == Spec => []PairInv
<1>1. Init => PairInv
  BY TypeInit DEF Init, PairInv, NoChildYet, LatestStamp, PairsApart, Stamped,
                  Pending, Ran
<1> QED BY <1>1, PairStep, PTL DEF Spec

(* Two automatic sweeps of one interval were decided in a race for the     *)
(* stamp, or a stamp was lost or never written.                            *)
THEOREM SweepsApart == Spec => []OneSweepPerInterval
<1>1. PairInv => OneSweepPerInterval
  BY DEF PairInv, TypeOK, PairsApart, OneSweepPerInterval, Stamped, Pending,
         Overlapped, Apart, Ran
<1> QED BY <1>1, PairsInvariant, PTL

(* B-138: so were two dry runs.                                            *)
THEOREM OneDryRun == Spec => []DryRunsOnce
<1>1. PairInv => DryRunsOnce
  BY DEF PairInv, PairsApart, DryRunsOnce, Stamped, Pending, Overlapped, Ran
<1> QED BY <1>1, PairsInvariant, PTL

=============================================================================
