-------------------------- MODULE AllProjectsSweep --------------------------
(***************************************************************************)
(* The all-projects session collector (`sessions gc --all-projects`, and   *)
(* the child a TUI spawns once a day): it plans project by project, then   *)
(* applies the plan candidate by candidate, while the sessions of          *)
(* SessionsOnDisk, and other sweeps, go on around it.                      *)
(*                                                                         *)
(* A step of a sweep is what runs between two points where another process *)
(* can change what it read: the listing of a project, the pointer read,    *)
(* the registry read with the planning that follows it, the pointers read  *)
(* at the start of the apply phase, a candidate's backstop, its removal.   *)
(***************************************************************************)
EXTENDS SessionsOnDisk

CONSTANTS
  Sweepers,    \* sweeper processes
  KeepLast,    \* newest transcripts a project keeps whatever their age
  Cutoff,      \* an artifact older than the window has a rank below this
  Unstatable   \* artifacts whose stat may fail

ASSUME KeepLastAssumption == KeepLast \in Nat
ASSUME CutoffAssumption == Cutoff \in 0 .. Fresh

VARIABLES
  pc,          \* where each sweeper is
  todo,        \* projects it has still to visit in this phase
  cur,         \* the project it is planning
  seen,        \* the listing it took of that project
  guarded,     \* transcript names that project's guards protect so far
  planned,     \* the plan's candidates
  planErrors,  \* projects the plan skipped with an error
  pointers,    \* livePointers, read once when the apply phase starts
  target,      \* the candidate whose backstop has passed
  removed,     \* candidates reported removed
  refused      \* candidates reported as an error

sweepVars == <<pc, todo, cur, seen, guarded, planned, planErrors, pointers,
               target, removed, refused>>

(***************************************************************************)
(* History, read by no action: the sessions some program acted on since    *)
(* the sweep began, since it read the pointers, and since its last         *)
(* backstop; the transcripts sweeps have unlinked, with the age they were  *)
(* planned at, and those users have deleted.                               *)
(***************************************************************************)
VARIABLES acted, since, window, swept, userDeleted

history == <<acted, since, window, swept, userDeleted>>

vars == <<storeVars, sweepVars, history>>

NoCandidate == [kind |-> "none", name |-> None, age |-> Absent, agent |-> None]

Candidate ==
  [kind : ArtifactKind \union {"registry"}, name : Name, age : Rank,
   agent : Sessions \union {None}]

Phases == {"idle", "plan", "pointer", "decide", "apply", "remove", "empty"}

SweepTypeOK ==
  /\ pc \in [Sweepers -> Phases]
  /\ todo \in [Sweepers -> SUBSET Projects]
  /\ cur \in [Sweepers -> Projects \union {None}]
  /\ seen \in [Sweepers -> [Artifact -> Rank \union {Absent, Undatable}]]
  /\ guarded \in [Sweepers -> SUBSET Name]
  /\ planned \in [Sweepers -> SUBSET Candidate]
  /\ planErrors \in [Sweepers -> SUBSET Projects]
  /\ pointers \in [Sweepers -> SUBSET Name]
  /\ target \in [Sweepers -> Candidate \union {NoCandidate}]
  /\ removed \in [Sweepers -> SUBSET Candidate]
  /\ refused \in [Sweepers -> SUBSET Candidate]

HistoryTypeOK ==
  /\ acted \in [Sweepers -> SUBSET Sessions]
  /\ since \in [Sweepers -> SUBSET Sessions]
  /\ window \in [Sweepers -> SUBSET Sessions]
  /\ swept \subseteq Name \X Rank
  /\ userDeleted \subseteq Name

TypeOK == StoreTypeOK /\ SweepTypeOK /\ HistoryTypeOK

Nothing == [a \in Artifact |-> Absent]

Init ==
  /\ StoreInit
  /\ pc = [w \in Sweepers |-> "idle"]
  /\ todo = [w \in Sweepers |-> {}]
  /\ cur = [w \in Sweepers |-> None]
  /\ seen = [w \in Sweepers |-> Nothing]
  /\ guarded = [w \in Sweepers |-> {}]
  /\ planned = [w \in Sweepers |-> {}]
  /\ planErrors = [w \in Sweepers |-> {}]
  /\ pointers = [w \in Sweepers |-> {}]
  /\ target = [w \in Sweepers |-> NoCandidate]
  /\ removed = [w \in Sweepers |-> {}]
  /\ refused = [w \in Sweepers |-> {}]
  /\ acted = [w \in Sweepers |-> {}]
  /\ since = [w \in Sweepers |-> {}]
  /\ window = [w \in Sweepers |-> {}]
  /\ swept = {}
  /\ userDeleted = {}

-----------------------------------------------------------------------------
(***************************************************************************)
(* Starting and stopping.                                                  *)
(***************************************************************************)

BeginSweep(w) ==
  /\ pc[w] = "idle"
  /\ pc' = [pc EXCEPT ![w] = "plan"]
  /\ todo' = [todo EXCEPT ![w] = dirs]
  /\ acted' = [acted EXCEPT ![w] = {}]
  /\ UNCHANGED <<storeVars, cur, seen, guarded, planned, planErrors, pointers,
                 target, removed, refused, since, window, swept, userDeleted>>

(* What a sweep knows is gone with its process: it ends, is killed after   *)
(* its ten minutes, or throws out of the apply phase's pointer read.       *)
Forget(w) ==
  /\ pc' = [pc EXCEPT ![w] = "idle"]
  /\ todo' = [todo EXCEPT ![w] = {}]
  /\ cur' = [cur EXCEPT ![w] = None]
  /\ seen' = [seen EXCEPT ![w] = Nothing]
  /\ guarded' = [guarded EXCEPT ![w] = {}]
  /\ planned' = [planned EXCEPT ![w] = {}]
  /\ planErrors' = [planErrors EXCEPT ![w] = {}]
  /\ pointers' = [pointers EXCEPT ![w] = {}]
  /\ target' = [target EXCEPT ![w] = NoCandidate]
  /\ removed' = [removed EXCEPT ![w] = {}]
  /\ refused' = [refused EXCEPT ![w] = {}]
  /\ acted' = [acted EXCEPT ![w] = {}]
  /\ since' = [since EXCEPT ![w] = {}]
  /\ window' = [window EXCEPT ![w] = {}]
  /\ UNCHANGED <<storeVars, swept, userDeleted>>

CrashSweep(w) == pc[w] # "idle" /\ Forget(w)

-----------------------------------------------------------------------------
(***************************************************************************)
(* The plan.                                                               *)
(***************************************************************************)

(* A project leaves the plan with nothing collected from it: its verdict   *)
(* is UNDETERMINED, or - an error of the plan - it could not be listed.    *)
SkipUndetermined(w, p) ==
  /\ pc[w] = "plan" /\ p \in todo[w]
  /\ Verdict[p] = "UNDETERMINED"
  /\ todo' = [todo EXCEPT ![w] = @ \ {p}]
  /\ UNCHANGED <<storeVars, history, pc, cur, seen, guarded, planned,
                 planErrors, pointers, target, removed, refused>>

ListFails(w, p) ==
  /\ pc[w] = "plan" /\ p \in todo[w]
  /\ Verdict[p] # "UNDETERMINED"
  /\ todo' = [todo EXCEPT ![w] = @ \ {p}]
  /\ planErrors' = [planErrors EXCEPT ![w] = @ \union {p}]
  /\ UNCHANGED <<storeVars, history, pc, cur, seen, guarded, planned,
                 pointers, target, removed, refused>>

(* Defect (B-140): an undatable transcript spends the quota.               *)
QuotaCandidates_AnyDate(listing) ==
  {n \in Name : listing[Transcript(n)] # Absent}

(* The transcripts the quota is spent on: those whose stat succeeded.  An  *)
(* undatable one sorts first and is never collected, so it must not take   *)
(* the place of a transcript that is.                                      *)
QuotaCandidates(listing) ==
  {n \in Name : listing[Transcript(n)] \in Rank}

DateOf(listing, n) ==
  IF listing[Transcript(n)] \in Rank THEN listing[Transcript(n)] ELSE Fresh + 1

(* keep is a possible first `count` of the sorted transcripts (equal dates *)
(* are ordered by name, which the ranks do not show).                      *)
IsNewest(keep, count, listing) ==
  LET all == QuotaCandidates(listing)
  IN  /\ keep \subseteq all
      /\ Cardinality(keep) = IF count < Cardinality(all) THEN count
                                                         ELSE Cardinality(all)
      /\ \A k \in keep, n \in all \ keep : DateOf(listing, n) <= DateOf(listing, k)

(* A live project also keeps its most recent transcript.                   *)
QuotaOf(p) ==
  IF Verdict[p] = "ALIVE" /\ KeepLast = 0 THEN 1 ELSE KeepLast

ListingOf(p, bad) ==
  [a \in Artifact |-> IF Project(a[2]) # p THEN Absent
                      ELSE IF disk[a] # Absent /\ a \in bad THEN Undatable
                      ELSE disk[a]]

ListProject(w, p) ==
  /\ pc[w] = "plan" /\ p \in todo[w]
  /\ Verdict[p] # "UNDETERMINED"
  /\ p \in dirs
  /\ \E bad \in SUBSET Unstatable :
       /\ \A a \in bad : disk[a] # Absent /\ Project(a[2]) = p
       /\ seen' = [seen EXCEPT ![w] = ListingOf(p, bad)]
       /\ \E keep \in SUBSET Name :
            /\ IsNewest(keep, QuotaOf(p), ListingOf(p, bad))
            /\ guarded' = [guarded EXCEPT ![w] = keep]
  /\ pc' = [pc EXCEPT ![w] = IF Verdict[p] = "ALIVE" THEN "pointer"
                                                     ELSE "decide"]
  /\ cur' = [cur EXCEPT ![w] = p]
  /\ todo' = [todo EXCEPT ![w] = @ \ {p}]
  /\ UNCHANGED <<storeVars, history, planned, planErrors, pointers, target,
                 removed, refused>>

(* Defect: the pointer's id is taken for a transcript name.                *)
ReadPointer_RawId(w) ==
  /\ pc[w] = "pointer"
  /\ guarded' = [guarded EXCEPT ![w] =
       @ \union (IF pointer[cur[w]] = None THEN {}
                 ELSE {RawName(pointer[cur[w]])})]
  /\ pc' = [pc EXCEPT ![w] = "decide"]
  /\ UNCHANGED <<storeVars, history, todo, cur, seen, planned, planErrors,
                 pointers, target, removed, refused>>

(* The pointer holds a session id; what it protects is a transcript name.  *)
ReadPointer(w) ==
  /\ pc[w] = "pointer"
  /\ guarded' = [guarded EXCEPT ![w] =
       @ \union (IF pointer[cur[w]] = None THEN {}
                 ELSE {HashName(pointer[cur[w]])})]
  /\ pc' = [pc EXCEPT ![w] = "decide"]
  /\ UNCHANGED <<storeVars, history, todo, cur, seen, planned, planErrors,
                 pointers, target, removed, refused>>

(* The project is over, planned or skipped: what was read of it goes.      *)
LeaveProject(w) ==
  /\ pc' = [pc EXCEPT ![w] = "plan"]
  /\ cur' = [cur EXCEPT ![w] = None]
  /\ seen' = [seen EXCEPT ![w] = Nothing]
  /\ guarded' = [guarded EXCEPT ![w] = {}]

(* Defect: a guard that cannot be read is noted and taken for empty.       *)
GuardReadFails_CarriesOn(w) ==
  /\ pc[w] = "pointer"
  /\ planErrors' = [planErrors EXCEPT ![w] = @ \union {cur[w]}]
  /\ pc' = [pc EXCEPT ![w] = "decide"]
  /\ UNCHANGED <<storeVars, history, todo, cur, seen, guarded, planned,
                 pointers, target, removed, refused>>

(* Either guard read of a live project may throw: the project is skipped.  *)
GuardReadFails(w) ==
  /\ pc[w] = "pointer" \/ (pc[w] = "decide" /\ Verdict[cur[w]] = "ALIVE")
  /\ planErrors' = [planErrors EXCEPT ![w] = @ \union {cur[w]}]
  /\ LeaveProject(w)
  /\ UNCHANGED <<storeVars, history, todo, planned, pointers, target, removed,
                 refused>>

(* What the registry lists for the project; a dead one's is not read.      *)
Listed(p) ==
  IF Verdict[p] = "ALIVE"
  THEN {s \in Sessions : Home[s] = p /\ registry[s] # "none"} ELSE {}

(* Both names of every session registered and not archived.                *)
RegistryProtects(p) ==
  UNION {NamesOf(s) : s \in {t \in Listed(p) : registry[t] = "active"}}

(* Defect: the last day of the window is beyond it.                        *)
Collectable_AtCutoff(age) == age \in Rank /\ age <= Cutoff

Collectable(age) == age \in Rank /\ age < Cutoff

PlannedTranscripts(w, p) ==
  {[kind |-> "transcript", name |-> n, age |-> seen[w][Transcript(n)],
    agent |-> IF n[1] \in Listed(p) THEN n[1] ELSE None] :
     n \in {m \in Name :
              /\ Collectable(seen[w][Transcript(m)])
              /\ m \notin guarded[w] \union RegistryProtects(p)
              /\ m \notin lease}}

(* A lock is orphaned when its transcript is not in the listing; a         *)
(* temporary needs only to be old.                                         *)
PlannedLeftovers(w) ==
  {[kind |-> "lock", name |-> n, age |-> seen[w][Lock(n)], agent |-> None] :
     n \in {m \in Name : /\ Collectable(seen[w][Lock(m)])
                         /\ seen[w][Transcript(m)] = Absent}}
  \union
  {[kind |-> "tmp", name |-> n, age |-> seen[w][Tmp(n)], agent |-> None] :
     n \in {m \in Name : Collectable(seen[w][Tmp(m)])}}

(* Entries with no transcript on disk under either name.                   *)
PlannedEntries(w, p) ==
  {[kind |-> "registry", name |-> RawName(s), age |-> modified[s], agent |-> s] :
     s \in {t \in Listed(p) :
              /\ registry[t] = "active"
              /\ \A n \in NamesOf(t) : seen[w][Transcript(n)] = Absent
              /\ Collectable(modified[t])}}

PlanProject(w) ==
  /\ pc[w] = "decide"
  /\ planned' = [planned EXCEPT ![w] =
       @ \union PlannedTranscripts(w, cur[w]) \union PlannedLeftovers(w)
         \union PlannedEntries(w, cur[w])]
  /\ LeaveProject(w)
  /\ UNCHANGED <<storeVars, history, todo, planErrors, pointers, target,
                 removed, refused>>

-----------------------------------------------------------------------------
(***************************************************************************)
(* The apply phase.                                                        *)
(***************************************************************************)

Planned(w) == pc[w] = "plan" /\ todo[w] = {}

(* Without --apply, and on the first run, the plan is only reported.       *)
ReportDryRun(w) == Planned(w) /\ Forget(w)

(* Both names of every live pointer: a candidate's id is a transcript name *)
(* when it is a file and a session id when it is a registry entry.         *)
LivePointerNames(w) ==
  UNION {NamesOf(pointer[p]) :
           p \in {q \in Projects \ planErrors[w] :
                    Verdict[q] = "ALIVE" /\ pointer[q] # None}}

StartApply(w) ==
  /\ Planned(w)
  /\ pointers' = [pointers EXCEPT ![w] = LivePointerNames(w)]
  /\ since' = [since EXCEPT ![w] = {}]
  /\ pc' = [pc EXCEPT ![w] = "apply"]
  /\ UNCHANGED <<storeVars, todo, cur, seen, guarded, planned, planErrors,
                 target, removed, refused, acted, window, swept, userDeleted>>

Queue(w) == planned[w] \ (removed[w] \union refused[w])

(* Defect (B-003): the writer is re-checked for locks only.                *)
BackstopRefuses_LocksOnly(w, c) ==
  \/ c.kind \in {"transcript", "registry"} /\ c.name \in pointers[w]
  \/ c.kind = "lock" /\ c.name \in lease

(* Defect: the pointer is re-checked for files only.                       *)
BackstopRefuses_FilesOnly(w, c) ==
  \/ c.kind = "transcript" /\ c.name \in pointers[w]
  \/ c.kind \in {"transcript", "lock"} /\ c.name \in lease

BackstopRefuses(w, c) ==
  \/ c.kind \in {"transcript", "registry"} /\ c.name \in pointers[w]
  \/ c.kind \in {"transcript", "lock"} /\ c.name \in lease

(* Defect: the refusal is reported and the loop does not `continue`.       *)
Refuse_AndRemove(w, c) ==
  /\ pc[w] = "apply" /\ c \in Queue(w)
  /\ BackstopRefuses(w, c)
  /\ refused' = [refused EXCEPT ![w] = @ \union {c}]
  /\ pc' = [pc EXCEPT ![w] = "remove"]
  /\ target' = [target EXCEPT ![w] = c]
  /\ UNCHANGED <<storeVars, history, todo, cur, seen, guarded, planned,
                 planErrors, pointers, removed>>

Refuse(w, c) ==
  /\ pc[w] = "apply" /\ c \in Queue(w)
  /\ BackstopRefuses(w, c)
  /\ refused' = [refused EXCEPT ![w] = @ \union {c}]
  /\ UNCHANGED <<storeVars, history, pc, todo, cur, seen, guarded, planned,
                 planErrors, pointers, target, removed>>

PassBackstop(w, c) ==
  /\ pc[w] = "apply" /\ c \in Queue(w)
  /\ ~BackstopRefuses(w, c)
  /\ pc' = [pc EXCEPT ![w] = "remove"]
  /\ target' = [target EXCEPT ![w] = c]
  /\ window' = [window EXCEPT ![w] = {}]
  /\ UNCHANGED <<storeVars, todo, cur, seen, guarded, planned, planErrors,
                 pointers, removed, refused, acted, since, swept, userDeleted>>

(* A registered transcript, like a bare entry, goes through Agent.delete,  *)
(* which clears the entry and touches no file; the rest is unlinked.       *)
ViaRegistry(c) == c.agent # None

RemoveCandidate(w) ==
  LET c == target[w]
  IN  /\ pc[w] = "remove"
      /\ registry' = IF ViaRegistry(c)
                     THEN [registry EXCEPT ![c.agent] = "none"] ELSE registry
      /\ disk' = IF ViaRegistry(c) THEN disk
                 ELSE [disk EXCEPT ![<<c.kind, c.name>>] = Absent]
      /\ swept' = IF c.kind = "transcript" /\ ~ViaRegistry(c) /\ Present(c.name)
                  THEN swept \union {<<c.name, c.age>>} ELSE swept
      /\ removed' = [removed EXCEPT ![w] = @ \union {c}]
      /\ target' = [target EXCEPT ![w] = NoCandidate]
      /\ pc' = [pc EXCEPT ![w] = "apply"]
      /\ window' = [window EXCEPT ![w] = {}]
      /\ UNCHANGED <<dirs, modified, pointer, lease, todo, cur, seen, guarded,
                     planned, planErrors, pointers, refused, acted, since,
                     userDeleted>>

(* Defect: a failed removal is tried again.                                *)
RemovalFails_Retry(w) ==
  /\ pc[w] = "remove"
  /\ target' = [target EXCEPT ![w] = NoCandidate]
  /\ pc' = [pc EXCEPT ![w] = "apply"]
  /\ window' = [window EXCEPT ![w] = {}]
  /\ UNCHANGED <<storeVars, acted, since, swept, userDeleted, todo, cur, seen,
                 guarded, planned, planErrors, pointers, removed, refused>>

(* Any error but ENOENT is collected, and the sweep goes on.               *)
RemovalFails(w) ==
  /\ pc[w] = "remove"
  /\ refused' = [refused EXCEPT ![w] = @ \union {target[w]}]
  /\ target' = [target EXCEPT ![w] = NoCandidate]
  /\ pc' = [pc EXCEPT ![w] = "apply"]
  /\ window' = [window EXCEPT ![w] = {}]
  /\ UNCHANGED <<storeVars, acted, since, swept, userDeleted, todo, cur, seen,
                 guarded, planned, planErrors, pointers, removed>>

TouchedProjects(w) == {Project(c.name) : c \in planned[w]}

CandidatesDone(w) ==
  /\ pc[w] = "apply" /\ Queue(w) = {}
  /\ pc' = [pc EXCEPT ![w] = "empty"]
  /\ todo' = [todo EXCEPT ![w] = TouchedProjects(w)]
  /\ since' = [since EXCEPT ![w] = {}]
  /\ UNCHANGED <<storeVars, acted, window, swept, userDeleted, cur, seen,
                 guarded, planned, planErrors, pointers, target, removed,
                 refused>>

IsEmptyDir(p) == \A a \in Artifact : Project(a[2]) = p => disk[a] = Absent

(* rmdir refuses a directory that was filled after it was listed, so the   *)
(* two are one step; a directory that is not empty, or could not be read,  *)
(* stays.                                                                  *)
RemoveEmptyProject(w, p) ==
  /\ pc[w] = "empty" /\ p \in todo[w]
  /\ todo' = [todo EXCEPT ![w] = @ \ {p}]
  /\ \/ IsEmptyDir(p) /\ dirs' = dirs \ {p}
     \/ UNCHANGED dirs
  /\ UNCHANGED <<disk, registry, modified, pointer, lease, history, pc, cur,
                 seen, guarded, planned, planErrors, pointers, target, removed,
                 refused>>

EndSweep(w) == pc[w] = "empty" /\ todo[w] = {} /\ Forget(w)

-----------------------------------------------------------------------------
(***************************************************************************)
(* The programs around the sweeps.                                         *)
(***************************************************************************)

NotedIn(f, s, phases) ==
  [w \in Sweepers |-> IF pc[w] \in phases THEN f[w] \union {s} ELSE f[w]]

Noted(s) ==
  /\ acted' = NotedIn(acted, s, Phases \ {"idle"})
  /\ since' = NotedIn(since, s, {"apply", "remove"})
  /\ window' = NotedIn(window, s, {"remove"})

Writes(s) == StartTurn(s) \/ EndTurn(s) \/ ForkSession(s)

Repoints(s) ==
  CrashTurn(s) \/ NewSession(s) \/ ResumeSession(s) \/ ArchiveSession(s)

SessionActs(s) ==
  /\ \/ /\ Writes(s)
        /\ swept' = {r \in swept : r[1] # HashName(s)}
        /\ userDeleted' = userDeleted \ {HashName(s)}
     \/ /\ Repoints(s)
        /\ UNCHANGED <<swept, userDeleted>>
     \/ /\ DeleteSession(s)
        /\ userDeleted' = IF Present(HashName(s))
                          THEN userDeleted \union {HashName(s)} ELSE userDeleted
        /\ UNCHANGED swept
  /\ Noted(s)
  /\ UNCHANGED sweepVars

PlanStep(w) ==
  \/ \E p \in Projects :
       SkipUndetermined(w, p) \/ ListFails(w, p) \/ ListProject(w, p)
  \/ ReadPointer(w) \/ GuardReadFails(w) \/ PlanProject(w)

ApplyStep(w) ==
  \/ StartApply(w) \/ ReportDryRun(w)
  \/ \E c \in planned[w] : Refuse(w, c) \/ PassBackstop(w, c)
  \/ RemoveCandidate(w) \/ RemovalFails(w) \/ CandidatesDone(w)
  \/ \E p \in Projects : RemoveEmptyProject(w, p)
  \/ EndSweep(w)

Next ==
  \/ \E w \in Sweepers :
       BeginSweep(w) \/ PlanStep(w) \/ ApplyStep(w) \/ CrashSweep(w)
  \/ \E s \in Sessions : SessionActs(s)

Spec == Init /\ [][Next]_vars

(* A sweep that has begun keeps running: its loops await only its own file *)
(* operations.  Nothing is assumed of the sessions, or of the next sweep.  *)
FairSpec ==
  Spec /\ \A w \in Sweepers : WF_sweepVars(PlanStep(w) \/ ApplyStep(w))

-----------------------------------------------------------------------------
(***************************************************************************)
(* Safety.                                                                 *)
(***************************************************************************)

(* A transcript is in a sweep's plan only if nothing protects it - a live  *)
(* writer, its session's registry entry under either name, the pointer of  *)
(* its directory - unless some program acted on that session after the     *)
(* sweep began.  (resolveGuards and planTranscript, however the sessions   *)
(* and the other sweeps interleave with the reads.)                        *)
OnlyUnprotectedPlanned ==
  \A w \in Sweepers : \A c \in planned[w] :
    LET s == c.name[1]
    IN  c.kind = "transcript" /\ s \notin acted[w] =>
          /\ c.name \notin lease
          /\ Verdict[Home[s]] = "ALIVE" =>
               /\ registry[s] # "active"
               /\ PointedBy(s) => c.name # HashName(s)

(* When a removal is about to run, neither the transcript nor the registry *)
(* entry of the session its directory points at is the target, unless the  *)
(* pointer was moved there after the apply phase read it.  (livePointers   *)
(* holds session ids and transcript names, as candidates do.)              *)
PointerWindow ==
  \A w \in Sweepers :
    LET c == target[w]
        s == c.name[1]
    IN  /\ pc[w] = "remove"
        /\ c.kind \in {"transcript", "registry"}
        /\ Verdict[Home[s]] = "ALIVE"
        /\ PointedBy(s)
        => s \in since[w]

(* No transcript, and no lock, is taken from a writer that held its lease  *)
(* when the candidate's backstop ran: only a lease acquired between the    *)
(* backstop and the removal it allows can be missed.                       *)
LeaseWindow ==
  \A w \in Sweepers :
    LET c == target[w]
    IN  pc[w] = "remove" /\ c.kind \in {"transcript", "lock"} /\ c.name \in lease
        => c.name[1] \in window[w]

(* Whenever a transcript has been unlinked, KeepLast transcripts at least  *)
(* as new are in its project, not counting those its users deleted: the    *)
(* quota is spent on the newest that stay.  Holds with one sweeper, across *)
(* its crashes and restarts, stat failures and turns on the very           *)
(* transcripts it planned.                                                 *)
RetentionFloor ==
  \A r \in swept :
    LET p == Project(r[1])
    IN  Cardinality({n \in TranscriptsIn(p) : disk[Transcript(n)] >= r[2]} \union
                    {n \in userDeleted : Project(n) = p}) >= KeepLast

(* A project whose listing, pointer or registry could not be read loses    *)
(* nothing to that sweep, whatever it had already learned of it.           *)
UnreadProjectUntouched ==
  \A w \in Sweepers : \A c \in planned[w] : Project(c.name) \notin planErrors[w]

(* When the candidates are done, each is reported removed or as an error,  *)
(* and never both.                                                         *)
EveryCandidateReported ==
  \A w \in Sweepers : pc[w] = "empty" =>
    /\ planned[w] = removed[w] \union refused[w]
    /\ removed[w] \intersect refused[w] = {}

(* A sweep, once begun, ends - whatever the sessions do meanwhile.         *)
SweepEnds == \A w \in Sweepers : pc[w] # "idle" ~> pc[w] = "idle"

(* With a quota, the sweep is a collector, as ProjectSweep is: it takes no *)
(* transcript but those it found beyond the window, and never the newest   *)
(* of a project.                                                           *)
Coll == INSTANCE Collector WITH
  Collectors <- Sweepers, Transcripts <- Name,
  age <- [n \in Name |-> disk[Transcript(n)]],
  looked <- [w \in Sweepers |-> [n \in Name |-> seen[w][Transcript(n)]]],
  doomed <- [w \in Sweepers |->
               {c.name : c \in {d \in Queue(w) : /\ d.kind = "transcript"
                                                  /\ ~ViaRegistry(d)}}],
  collected <- {r[1] : r \in swept}
Collects == Coll!Spec

=============================================================================
