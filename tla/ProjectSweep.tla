---------------------------- MODULE ProjectSweep ----------------------------
(***************************************************************************)
(* The session commands of one working directory: `theocode sessions gc`   *)
(* (per-session.ts) and `sessions delete` (session-ops.ts, also the TUI's  *)
(* /delete), as steps between their reads and writes, among the sessions   *)
(* of SessionsOnDisk.  Neither holds a lock: what a step knows is what an  *)
(* earlier one read.                                                       *)
(***************************************************************************)
EXTENDS SessionsOnDisk

CONSTANTS
  Sweepers,     \* processes that run `sessions gc` in Cwd
  Cwd,          \* the project of the working directory
  KeepLast,     \* newest transcripts kept whatever their age
  Cutoff,       \* a transcript beyond the window has a rank below this
  Addressable   \* the 5.x names that transcriptPath, given one, leads back to

ASSUME CwdAssumption == Cwd \in Projects
ASSUME KeepLastAssumption == KeepLast \in Nat

(* assertCollectionFloor: a window of less than a day is refused, so what  *)
(* is written while the sweep runs is never beyond it.                     *)
ASSUME CutoffAssumption == Cutoff \in 0 .. Fresh
ASSUME AddressableAssumption == Addressable \subseteq {HashName(s) : s \in Sessions}

VARIABLES
  pc,          \* where each sweep is
  seen,        \* the transcripts it listed, with their dates
  found,       \* the sessions the registry listed
  guards,      \* plan.pointer and plan.mostRecent, then with what apply read
  plan,        \* the candidates
  reported     \* the names it is done with: removed, refused or failed

sweepVars == <<pc, seen, found, guards, plan, reported>>

VARIABLES
  rm,          \* where the deletion of each session is
  before,      \* it was in the listing before
  report       \* what the command said: its two stores and the exit status

rmVars == <<rm, before, report>>

(* History: the sessions programs acted on since a sweep listed, since its *)
(* apply phase looked, and since a deletion checked; whether any ever was  *)
(* within the latter two; the transcripts a sweep just unlinked; whether   *)
(* one ever unlinked a transcript that is not the candidate's.             *)
VARIABLES acted, since, rmActed, raced, taken, crossed

history == <<acted, since, rmActed, raced, taken, crossed>>

vars == <<storeVars, sweepVars, rmVars, history>>

Candidate == [name : Name, age : Rank, agent : Sessions \union {None}]
NoReport == [transcript |-> FALSE, entry |-> "none", exit |-> "none"]
Report == [transcript : BOOLEAN,
           entry : {"none", "removed", "still-present", "unverified"},
           exit : {"none", "ok", "failed"}]

TypeOK ==
  /\ StoreTypeOK
  /\ pc \in [Sweepers -> {"idle", "registry", "decide", "planned", "apply"}]
  /\ seen \in [Sweepers -> [Name -> Rank \union {Absent}]]
  /\ found \in [Sweepers -> SUBSET Sessions]
  /\ guards \in [Sweepers -> SUBSET Name]
  /\ plan \in [Sweepers -> SUBSET Candidate]
  /\ reported \in [Sweepers -> SUBSET Name]
  /\ rm \in [Sessions -> {"idle", "listed", "unregistered", "unlinked", "done"}]
  /\ before \in [Sessions -> BOOLEAN]
  /\ report \in [Sessions -> Report]
  /\ acted \in [Sweepers -> SUBSET Sessions]
  /\ since \in [Sweepers -> SUBSET Sessions]
  /\ rmActed \subseteq Sessions
  /\ raced \in BOOLEAN
  /\ taken \subseteq Name
  /\ crossed \in BOOLEAN

Nothing == [n \in Name |-> Absent]

Init ==
  /\ StoreInit
  /\ pc = [w \in Sweepers |-> "idle"]
  /\ seen = [w \in Sweepers |-> Nothing]
  /\ found = [w \in Sweepers |-> {}]
  /\ guards = [w \in Sweepers |-> {}]
  /\ plan = [w \in Sweepers |-> {}]
  /\ reported = [w \in Sweepers |-> {}]
  /\ rm = [s \in Sessions |-> "idle"]
  /\ before = [s \in Sessions |-> FALSE]
  /\ report = [s \in Sessions |-> NoReport]
  /\ acted = [w \in Sweepers |-> {}]
  /\ since = [w \in Sweepers |-> {}]
  /\ rmActed = {}
  /\ raced = FALSE
  /\ taken = {}
  /\ crossed = FALSE

-----------------------------------------------------------------------------
(***************************************************************************)
(* The plan: the directory is listed, then the registry (awaited), then    *)
(* the pointer is read and the candidates chosen.                          *)
(***************************************************************************)

Date(n) == IF Project(n) = Cwd THEN disk[Transcript(n)] ELSE Absent

ReadTranscriptDir(w) ==
  /\ pc[w] = "idle"
  /\ seen' = [seen EXCEPT ![w] = [n \in Name |-> Date(n)]]
  /\ acted' = [acted EXCEPT ![w] = {}]
  /\ pc' = [pc EXCEPT ![w] = "registry"]
  /\ UNCHANGED <<storeVars, rmVars, found, guards, plan, reported,
                 since, rmActed, raced, taken, crossed>>

(* What Agent.list may answer: every active session of the directory, and  *)
(* archived ones or not (the comments of this code say both).              *)
Listing ==
  LET inCwd == {s \in Sessions : Home[s] = Cwd}
  IN  {l \in SUBSET {s \in inCwd : registry[s] # "none"} :
         {s \in inCwd : registry[s] = "active"} \subseteq l}

(* Defect (#102): a session's transcript is looked for under its new name. *)
RegistryProtects_Mapped(l) ==
  {HashName(s) : s \in {t \in l : registry[t] = "active"}}

RegistryProtects(l) ==
  UNION {NamesOf(s) : s \in {t \in l : registry[t] = "active"}}

ListRegistry(w) ==
  /\ pc[w] = "registry"
  /\ \E l \in Listing :
       /\ found' = [found EXCEPT ![w] = l]
       /\ guards' = [guards EXCEPT ![w] = RegistryProtects(l)]
  /\ pc' = [pc EXCEPT ![w] = "decide"]
  /\ UNCHANGED <<storeVars, rmVars, history, seen, plan, reported>>

(* keep is a possible first `count` of the transcripts, newest first.      *)
Newest(keep, count, ages) ==
  LET all == {n \in Name : ages[n] # Absent}
  IN  /\ keep \subseteq all
      /\ Cardinality(keep) = IF count < Cardinality(all) THEN count
                                                         ELSE Cardinality(all)
      /\ \A k \in keep, n \in all \ keep : ages[n] <= ages[k]

Pointed == IF pointer[Cwd] = None THEN {} ELSE {pointer[Cwd]}

(* The session of the listing that has the name.                           *)
OwnerIn(l, n) == IF n[1] \in l THEN n[1] ELSE None

(* Defect: with no quota, the newest transcript is like any other.         *)
Protected_ByQuota(w, recent, keep) ==
  guards[w] \union keep \union UNION {NamesOf(s) : s \in Pointed}

Protected(w, recent, keep) ==
  guards[w] \union recent \union keep \union UNION {NamesOf(s) : s \in Pointed}

(* Both names of the pointer are protected; what is kept of it for the     *)
(* apply phase is its id, which no 5.x transcript has for a name.          *)
Decide(w) ==
  /\ pc[w] = "decide"
  /\ \E recent, keep \in SUBSET Name :
       /\ Newest(recent, 1, seen[w])
       /\ Newest(keep, KeepLast, seen[w])
       /\ KeepLast > 0 => recent \subseteq keep
       /\ plan' = [plan EXCEPT ![w] =
            {[name |-> n, age |-> seen[w][n], agent |-> OwnerIn(found[w], n)] :
               n \in {m \in Name \ Protected(w, recent, keep) :
                        seen[w][m] # Absent /\ seen[w][m] < Cutoff}}]
       /\ guards' = [guards EXCEPT ![w] = recent \union {RawName(s) : s \in Pointed}]
  /\ pc' = [pc EXCEPT ![w] = "planned"]
  /\ found' = [found EXCEPT ![w] = {}]
  /\ seen' = [seen EXCEPT ![w] = Nothing]
  /\ UNCHANGED <<storeVars, rmVars, history, reported>>

-----------------------------------------------------------------------------
(***************************************************************************)
(* The apply phase: one look at the directory and the pointer, then the    *)
(* candidates, newest first.                                               *)
(***************************************************************************)

(* A sweep ends: its report is printed, or it is killed, or a read throws  *)
(* - the directory's or a date's, the pointer's, the registry's - which    *)
(* nothing catches.                                                        *)
EndSweep(w) ==
  /\ pc[w] # "idle"
  /\ pc' = [pc EXCEPT ![w] = "idle"]
  /\ seen' = [seen EXCEPT ![w] = Nothing]
  /\ found' = [found EXCEPT ![w] = {}]
  /\ guards' = [guards EXCEPT ![w] = {}]
  /\ plan' = [plan EXCEPT ![w] = {}]
  /\ reported' = [reported EXCEPT ![w] = {}]
  /\ acted' = [acted EXCEPT ![w] = {}]
  /\ since' = [since EXCEPT ![w] = {}]
  /\ taken' = {}
  /\ UNCHANGED <<storeVars, rmVars, rmActed, raced, crossed>>

(* Defect: the apply phase trusts the plan.                                *)
ResolveApply_Stale(w) ==
  /\ pc[w] = "planned"
  /\ pc' = [pc EXCEPT ![w] = "apply"]
  /\ since' = [since EXCEPT ![w] = {}]
  /\ UNCHANGED <<storeVars, rmVars, seen, found, guards, plan, reported,
                 acted, rmActed, raced, taken, crossed>>

ResolveApply(w) ==
  /\ pc[w] = "planned"
  /\ \E recent \in SUBSET Name :
       /\ Newest(recent, 1, [n \in Name |-> Date(n)])
       /\ guards' = [guards EXCEPT ![w] =
                       @ \union recent \union {RawName(s) : s \in Pointed}]
  /\ pc' = [pc EXCEPT ![w] = "apply"]
  /\ since' = [since EXCEPT ![w] = {}]
  /\ UNCHANGED <<storeVars, rmVars, seen, found, plan, reported, acted,
                 rmActed, raced, taken, crossed>>

Queue(w) == {c \in plan[w] : c.name \notin reported[w]}

Turn(w, c) ==
  /\ pc[w] = "apply" /\ c \in Queue(w)
  /\ \A d \in Queue(w) : d.age <= c.age

(* It is untouchable, or its removal fails with anything but ENOENT.       *)
NotRemoved(w, c) ==
  /\ Turn(w, c)
  /\ reported' = [reported EXCEPT ![w] = @ \union {c.name}]
  /\ UNCHANGED <<storeVars, rmVars, history, pc, seen, found, guards, plan>>

(* Agent.delete clears an entry and touches no file, and when it clears    *)
(* none it says nothing of it.                                             *)
AgentDelete(s) ==
  \/ registry' = [registry EXCEPT ![s] = "none"]
  \/ UNCHANGED registry

(* The file that is unlinked for a name is what transcriptPath makes of    *)
(* the name: of a 4.x name, which is an id, its session's 5.x transcript;  *)
(* of a 5.x name itself, or one that no session has.                       *)
Unlinked(n) ==
  IF n = RawName(n[1]) THEN {HashName(n[1])} ELSE {n} \intersect Addressable

Takes(c) == IF c.agent = None THEN Unlinked(c.name) ELSE {}

Crosses(c) == \E n \in Takes(c) \ {c.name} : Present(n)

(* A file that is not there counts as removed (ENOENT).                    *)
Remove(w, c) ==
  /\ Turn(w, c)
  /\ c.name \notin guards[w]
  /\ IF c.agent = None THEN UNCHANGED registry ELSE AgentDelete(c.agent)
  /\ IF Takes(c) = {} THEN UNCHANGED disk
     ELSE \E n \in Takes(c) : disk' = [disk EXCEPT ![Transcript(n)] = Absent]
  /\ taken' = taken \union {n \in Takes(c) : Present(n)}
  /\ crossed' = (crossed \/ Crosses(c))
  /\ reported' = [reported EXCEPT ![w] = @ \union {c.name}]
  /\ UNCHANGED <<dirs, modified, pointer, lease, rmVars, acted, since,
                 rmActed, raced, pc, seen, found, guards, plan>>

-----------------------------------------------------------------------------
(***************************************************************************)
(* deleteSession: the live check, the listing, the registry's entry, the   *)
(* file, and the listing again.                                            *)
(***************************************************************************)

(* A refusal throws before anything is changed.                            *)
CheckDelete(s) ==
  /\ rm[s] = "idle" /\ Home[s] = Cwd
  /\ ~ProtectedFromDelete(s)
  /\ rm' = [rm EXCEPT ![s] = "listed"]
  /\ \E l \in Listing : before' = [before EXCEPT ![s] = s \in l]
  /\ rmActed' = rmActed \ {s}
  /\ UNCHANGED <<storeVars, sweepVars, report, acted, since, raced,
                 taken, crossed>>

Unregister(s) ==
  /\ rm[s] = "listed"
  /\ rm' = [rm EXCEPT ![s] = "unregistered"]
  /\ AgentDelete(s)
  /\ UNCHANGED <<disk, dirs, modified, pointer, lease, sweepVars, before,
                 report, history>>

(* The framework's deleteSession, forced: it takes the 5.x transcript and  *)
(* says whether its own rmSync did, which may fail.                        *)
UnlinkSession(s) ==
  /\ rm[s] = "unregistered"
  /\ rm' = [rm EXCEPT ![s] = "unlinked"]
  /\ \/ /\ Present(HashName(s))
        /\ disk' = [disk EXCEPT ![Transcript(HashName(s))] = Absent]
        /\ report' = [report EXCEPT ![s].transcript = TRUE]
     \/ UNCHANGED <<disk, report>>
  /\ UNCHANGED <<registry, dirs, modified, pointer, lease, sweepVars, before,
                 history>>

(* Defect (#125): the removal's own answer is taken for the outcome.       *)
Verify_Believed(s) ==
  /\ rm[s] = "unlinked"
  /\ rm' = [rm EXCEPT ![s] = "done"]
  /\ report' = [report EXCEPT ![s].entry = "removed", ![s].exit = "ok"]
  /\ UNCHANGED <<storeVars, sweepVars, before, history>>

(* classifyRegistryOutcome, and the exit status the CLI makes of it.       *)
Verify(s) ==
  /\ rm[s] = "unlinked"
  /\ rm' = [rm EXCEPT ![s] = "done"]
  /\ \E l \in Listing :
       report' = [report EXCEPT
         ![s].entry = IF s \in l THEN "still-present"
                      ELSE IF before[s] THEN "removed" ELSE "unverified",
         ![s].exit = IF s \in l THEN "failed" ELSE "ok"]
  /\ before' = [before EXCEPT ![s] = FALSE]
  /\ UNCHANGED <<storeVars, sweepVars, history>>

(* The report is read and forgotten; a deletion that throws, or whose      *)
(* process is killed, leaves what it did.                                  *)
EndDelete(s) ==
  /\ rm[s] # "idle"
  /\ rm' = [rm EXCEPT ![s] = "idle"]
  /\ before' = [before EXCEPT ![s] = FALSE]
  /\ report' = [report EXCEPT ![s] = NoReport]
  /\ rmActed' = rmActed \ {s}
  /\ UNCHANGED <<storeVars, sweepVars, acted, since, raced, taken, crossed>>

-----------------------------------------------------------------------------
Noted(f, s, phases) ==
  [w \in Sweepers |-> IF pc[w] \in phases THEN f[w] \union {s} ELSE f[w]]

SessionActs(s) ==
  /\ \/ StartTurn(s) \/ EndTurn(s) \/ CrashTurn(s) \/ NewSession(s)
     \/ ResumeSession(s) \/ ForkSession(s) \/ ArchiveSession(s)
  /\ acted' = Noted(acted, s, {"registry", "decide", "planned", "apply"})
  /\ since' = Noted(since, s, {"apply"})
  /\ rmActed' = IF rm[s] = "idle" THEN rmActed ELSE rmActed \union {s}
  /\ raced' = (raced \/ rmActed' # rmActed \/ since' # since)
  /\ UNCHANGED <<sweepVars, rmVars, taken, crossed>>

SweepStep(w) ==
  \/ ReadTranscriptDir(w) \/ ListRegistry(w) \/ Decide(w) \/ ResolveApply(w)
  \/ \E c \in plan[w] : NotRemoved(w, c) \/ Remove(w, c)
  \/ EndSweep(w)

DeleteStep(s) ==
  CheckDelete(s) \/ Unregister(s) \/ UnlinkSession(s) \/ Verify(s) \/ EndDelete(s)

Next ==
  \/ \E w \in Sweepers : SweepStep(w)
  \/ \E s \in Sessions : DeleteStep(s) \/ SessionActs(s)

Spec == Init /\ [][Next]_vars

-----------------------------------------------------------------------------
(***************************************************************************)
(* Safety.                                                                 *)
(***************************************************************************)

(* What a removal is about to take - whatever file it is, or entry - is of *)
(* no session that is registered and not archived, or pointed at, unless   *)
(* that was active after the sweep listed the directory; nor of one with a *)
(* live writer, but for what a 4.x name leads to; and a name that is the   *)
(* pointer's id goes only if it became so after the apply phase looked.    *)
LiveSessionsKept ==
  \A w \in Sweepers : \A c \in Queue(w) :
    LET s == c.name[1]
    IN  pc[w] = "apply" /\ c.name \notin guards[w] =>
          /\ registry[s] = "active" \/ PointedBy(s) => s \in acted[w]
          /\ c.name \in lease \/ Takes(c) \intersect lease # {}
               => s \in acted[w] \/ c.name = RawName(s)
          /\ PointedBy(s) /\ c.name = RawName(s) => s \in since[w]

(* The newest transcript of a directory goes.                              *)
NewestGone ==
  \E n \in Name :
    /\ Present(n) /\ disk'[Transcript(n)] = Absent
    /\ \A m \in TranscriptsIn(Project(n)) \ {n} :
         disk[Transcript(m)] < disk[Transcript(n)]

(* A directory that had transcripts keeps the newest through any number of *)
(* sweeps and deletions: none of the two takes a transcript that is newer  *)
(* than all the others, unless a session was active between the look, or   *)
(* the check, and the end of one of them - or a 4.x name has led a sweep   *)
(* to its session's 5.x transcript.                                        *)
NewestKept == [][NewestGone => raced \/ crossed']_vars

(* A deletion that says nothing went wrong left no session that is listed, *)
(* unless it was used meanwhile; one that says the file is gone left no    *)
(* 5.x transcript; and no writer or pointer loses a session that was so    *)
(* when it was checked.                                                    *)
DeletionSaysWhatItDid ==
  \A s \in Sessions : s \notin rmActed =>
    /\ report[s].exit = "ok" => registry[s] # "active"
    /\ report[s].transcript => ~Present(HashName(s))
    /\ rm[s] \in {"listed", "unregistered"} => ~PointedBy(s) /\ HashName(s) \notin lease

(* The sweep is a collector, as AllProjectsSweep is: it takes no           *)
(* transcript but those it found beyond the window, and never the newest,  *)
(* in every step but the removals that take another file than their own.   *)
Coll == INSTANCE Collector WITH
  Collectors <- Sweepers, Transcripts <- Name,
  age <- [n \in Name |-> disk[Transcript(n)]],
  looked <- seen,
  doomed <- [w \in Sweepers |->
               {c.name : c \in {d \in Queue(w) : d.agent = None}}],
  collected <- taken

Crossing == \E w \in Sweepers : \E c \in plan[w] : Remove(w, c) /\ Crosses(c)

Collects == Coll!Init /\ [][Coll!Next \/ Crossing]_(Coll!vars)

-----------------------------------------------------------------------------
(***************************************************************************)
(* What a message of the code says of it and it does not do.               *)
(***************************************************************************)

(* "The most-recent transcript must never be deleted", unless a session    *)
(* was active meanwhile.                                                   *)
NewestNeverDeleted == [][NewestGone => raced]_vars

=============================================================================
