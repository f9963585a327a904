---------------------------- MODULE SweepTrigger ----------------------------
(***************************************************************************)
(* The daily collection a TUI launch may start: startSessionSweepInBack-   *)
(* ground reads a stamp, decides, writes the stamp and spawns a child that *)
(* runs `sessions gc --all-projects`, with --apply unless this is the      *)
(* first run.  The launches share the stamp file and nothing else; each    *)
(* can be closed, and each child killed, at any point.                     *)
(***************************************************************************)
EXTENDS Integers, FiniteSets

CONSTANTS
  Launches,   \* TUI processes, each launched at most once
  Interval,   \* the least time between two sweeps
  MaxClock,   \* bound of the model: the last tick
  NoStamp,    \* there is no stamp file
  Corrupt     \* there is one, and no date can be read from it

ASSUME IntervalAssumption == Interval \in Nat \ {0}
ASSUME MaxClockAssumption == MaxClock \in Nat
ASSUME StampAssumption ==
  NoStamp \notin Nat /\ Corrupt \notin Nat /\ NoStamp # Corrupt

Time == 0 .. MaxClock

VARIABLES
  clock,
  stamp,      \* .last-session-gc, beside the projects root
  phase,      \* where each launch is
  startedAt,  \* its `now`
  firstRun,   \* its decision
  child       \* the sweep it spawned

code == <<clock, stamp, phase, startedAt, firstRun, child>>

(***************************************************************************)
(* History: the launches that stamped since each launch decided, those     *)
(* whose stamp could not be written, whether the latest run was ever lost  *)
(* from the file (garbled, or overwritten by a launch that decided before  *)
(* it), and since when there has been a run on record.                     *)
(***************************************************************************)
VARIABLES overlap, unstamped, lost, onRecord

history == <<overlap, unstamped, lost, onRecord>>
vars == <<code, history>>

LaunchPhase == {"off", "decided", "stamped", "started", "over"}
ChildState == {"none", "sweeping", "ended"}

TypeOK ==
  /\ clock \in Time
  /\ stamp \in Time \union {NoStamp, Corrupt}
  /\ phase \in [Launches -> LaunchPhase]
  /\ startedAt \in [Launches -> Time]
  /\ firstRun \in [Launches -> BOOLEAN]
  /\ child \in [Launches -> ChildState]
  /\ overlap \in [Launches -> SUBSET Launches]
  /\ unstamped \subseteq Launches
  /\ lost \in BOOLEAN
  /\ onRecord \in Time \union {NoStamp}

Init ==
  /\ clock = 0
  /\ stamp \in {0, NoStamp, Corrupt}
  /\ phase = [l \in Launches |-> "off"]
  /\ startedAt = [l \in Launches |-> 0]
  /\ firstRun = [l \in Launches |-> FALSE]
  /\ child = [l \in Launches |-> "none"]
  /\ overlap = [l \in Launches |-> {}]
  /\ unstamped = {}
  /\ lost = (stamp = Corrupt)
  /\ onRecord = IF stamp = 0 THEN 0 ELSE NoStamp

-----------------------------------------------------------------------------
Tick ==
  /\ clock < MaxClock
  /\ clock' = clock + 1
  /\ UNCHANGED <<stamp, phase, startedAt, firstRun, child, history>>

(* Something else truncates or garbles the file.                           *)
DamageStamp ==
  /\ stamp' = Corrupt
  /\ lost' = TRUE
  /\ UNCHANGED <<clock, phase, startedAt, firstRun, child, overlap,
                 unstamped, onRecord>>

(* Defect: a damaged stamp counts as some earlier run.                     *)
LastRun_AnyFile(unreadable) ==
  IF unreadable \/ stamp = Corrupt THEN 0 - Interval ELSE stamp

(* A stamp that cannot be read as a date - or read at all, which the       *)
(* caller may always meet - counts as no stamp.                            *)
LastRun(unreadable) ==
  IF unreadable \/ stamp = Corrupt THEN NoStamp ELSE stamp

(* Disabled, or too soon, or with no script to spawn: the launch goes on.  *)
StaysIdle(l) ==
  /\ phase[l] = "off"
  /\ phase' = [phase EXCEPT ![l] = "over"]
  /\ UNCHANGED <<clock, stamp, startedAt, firstRun, child, history>>

IsDue(last) == IF last = NoStamp THEN TRUE ELSE clock - last >= Interval

(* The config and the stamp are read, and the command line is built.  The  *)
(* stamp may be unreadable: the file is truncated before it is rewritten.  *)
Decide(l) ==
  /\ phase[l] = "off"
  /\ \E unreadable \in BOOLEAN :
       /\ IsDue(LastRun(unreadable))
       /\ firstRun' = [firstRun EXCEPT ![l] = LastRun(unreadable) = NoStamp]
       /\ lost' = (lost \/ unreadable)
  /\ startedAt' = [startedAt EXCEPT ![l] = clock]
  /\ phase' = [phase EXCEPT ![l] = "decided"]
  /\ UNCHANGED <<clock, stamp, child, overlap, unstamped, onRecord>>

(* Defect: the stamp is left to the child, which never writes it.          *)
WriteStamp_Never(l) ==
  /\ phase[l] = "decided"
  /\ phase' = [phase EXCEPT ![l] = "stamped"]
  /\ UNCHANGED <<clock, stamp, startedAt, firstRun, child, history>>

(* The stamp goes down before the child is spawned.                        *)
WriteStamp(l) ==
  /\ phase[l] = "decided"
  /\ stamp' = startedAt[l]
  /\ phase' = [phase EXCEPT ![l] = "stamped"]
  /\ overlap' = [m \in Launches |-> IF phase[m] = "decided"
                                    THEN overlap[m] \union {l} ELSE overlap[m]]
  /\ onRecord' = IF onRecord = NoStamp \/ startedAt[l] < onRecord
                 THEN startedAt[l] ELSE onRecord
  /\ lost' = (lost \/ (stamp \in Time /\ startedAt[l] < stamp))
  /\ UNCHANGED <<clock, startedAt, firstRun, child, unstamped>>

(* A stamp that cannot be written costs a line in the log, not the sweep.  *)
StampFails(l) ==
  /\ phase[l] = "decided"
  /\ phase' = [phase EXCEPT ![l] = "stamped"]
  /\ unstamped' = unstamped \union {l}
  /\ UNCHANGED <<clock, stamp, startedAt, firstRun, child, overlap, lost,
                 onRecord>>

Spawn(l) ==
  /\ phase[l] = "stamped"
  /\ phase' = [phase EXCEPT ![l] = "started"]
  /\ child' = [child EXCEPT ![l] = "sweeping"]
  /\ UNCHANGED <<clock, stamp, startedAt, firstRun, history>>

(* The stamp is not taken back.                                            *)
SpawnFails(l) ==
  /\ phase[l] = "stamped"
  /\ phase' = [phase EXCEPT ![l] = "over"]
  /\ UNCHANGED <<clock, stamp, startedAt, firstRun, child, history>>

(* The child ends: it has printed its verdict, or it was killed first -    *)
(* by its ten-minute timeout, or by the hangup of the terminal it shares.  *)
(* Its launch, if still there, reports a sweep that finished either way.   *)
ChildEnds(l) ==
  /\ child[l] = "sweeping"
  /\ child' = [child EXCEPT ![l] = "ended"]
  /\ UNCHANGED <<clock, stamp, phase, startedAt, firstRun, overlap, unstamped,
                 lost, onRecord>>

(* The TUI is closed, or dies, between any two of its steps.               *)
Close(l) ==
  /\ phase[l] \in {"decided", "stamped", "started"}
  /\ phase' = [phase EXCEPT ![l] = "over"]
  /\ UNCHANGED <<clock, stamp, startedAt, firstRun, child, history>>

LaunchStep(l) ==
  \/ StaysIdle(l) \/ Decide(l) \/ WriteStamp(l) \/ StampFails(l)
  \/ Spawn(l) \/ SpawnFails(l) \/ Close(l)
  \/ ChildEnds(l)

Next == Tick \/ DamageStamp \/ \E l \in Launches : LaunchStep(l)

Spec == Init /\ [][Next]_vars

-----------------------------------------------------------------------------
Ran(l) == child[l] # "none"

(* B-139: an automatic sweep applies only when a run has been on record    *)
(* for a whole interval: whatever is damaged, unwritable or raced, nobody's *)
(* first sweep deletes anything.                                           *)
FirstSweepNeverApplies ==
  \A l \in Launches :
    Ran(l) /\ ~firstRun[l] =>
      onRecord # NoStamp /\ startedAt[l] - onRecord >= Interval

(* Two sweeps of one interval overlapped: one launch had decided when the  *)
(* other stamped - unless a stamp was lost or could not be written.        *)
OneSweepPerInterval ==
  ~lost =>
    \A l, m \in Launches :
      /\ l # m /\ Ran(l) /\ Ran(m)
      /\ l \notin unstamped /\ m \notin unstamped
      /\ startedAt[l] - startedAt[m] \in 0 .. Interval - 1
      => l \in overlap[m] \/ m \in overlap[l]

(* B-138: the collector does not dry-run for ever - a second first run was *)
(* decided before the first one stamped, or its stamp was lost.            *)
DryRunsOnce ==
  ~lost =>
    \A l, m \in Launches :
      /\ l # m /\ Ran(l) /\ Ran(m)
      /\ firstRun[l] /\ firstRun[m]
      /\ l \notin unstamped /\ m \notin unstamped
      => l \in overlap[m] \/ m \in overlap[l]

=============================================================================
