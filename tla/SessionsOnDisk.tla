--------------------------- MODULE SessionsOnDisk ---------------------------
(***************************************************************************)
(* What the session collectors of packages/agent/src/session/gc share with *)
(* the programs that use sessions: the directory of transcripts, the agent *)
(* registry, the resumable pointer of each working directory and the       *)
(* writer leases - and what a TUI or a CLI run does to them.               *)
(*                                                                         *)
(* Time is a rank.  A file's mtime is a number up to Fresh, the rank of    *)
(* everything written while the collectors run; smaller ranks are older.   *)
(***************************************************************************)
EXTENDS Integers, FiniteSets

CONSTANTS
  Projects,   \* project directories under the projects root
  Sessions,   \* session ids (the registry's agent ids)
  Home,       \* the project each session belongs to
  Verdict,    \* what classifyProjects says of each project's cwd
  Fresh,      \* the rank of "now"
  Absent,     \* no such file
  Undatable,  \* a file, or a registry entry, with no known date
  None        \* no session

ASSUME HomeAssumption == Home \in [Sessions -> Projects]
ASSUME VerdictAssumption ==
  Verdict \in [Projects -> {"ALIVE", "DEAD", "UNDETERMINED"}]
ASSUME RankAssumption ==
  /\ Fresh \in Nat
  /\ Absent \notin Nat /\ Undatable \notin Nat /\ Absent # Undatable
ASSUME NoneAssumption == None \notin Sessions

(* A directory holds finitely many files.                                  *)
ASSUME SessionsAssumption == IsFiniteSet(Sessions)

(***************************************************************************)
(* A session has two transcript names: the one transcriptPath derives from *)
(* its id (a hash, written since 5.x) and the id itself (written by 4.x).  *)
(***************************************************************************)
Name == Sessions \X {"hash", "raw"}
HashName(s) == <<s, "hash">>
RawName(s)  == <<s, "raw">>
NamesOf(s)  == {HashName(s), RawName(s)}
Project(n)  == Home[n[1]]

(***************************************************************************)
(* The shapes classifyEntry tells apart; the two spellings of a lock (file *)
(* and directory) are one kind here, they differ in unlink against rmdir.  *)
(***************************************************************************)
ArtifactKind == {"transcript", "lock", "tmp"}
Artifact == ArtifactKind \X Name
Transcript(n) == <<"transcript", n>>
Lock(n) == <<"lock", n>>
Tmp(n) == <<"tmp", n>>

Rank == 0 .. Fresh

VARIABLES
  disk,       \* mtime of every artifact, Absent when there is none
  dirs,       \* the project directories that exist
  registry,   \* the registry entry of every session
  modified,   \* the entry's lastModified
  pointer,    \* the session each cwd's .theokit/tui-session names
  lease       \* the transcripts some process holds the writer lease of

storeVars == <<disk, dirs, registry, modified, pointer, lease>>

StoreTypeOK ==
  /\ disk \in [Artifact -> Rank \union {Absent}]
  /\ dirs \subseteq Projects
  /\ registry \in [Sessions -> {"none", "active", "archived"}]
  /\ modified \in [Sessions -> Rank \union {Undatable}]
  /\ pointer \in [Projects -> Sessions \union {None}]
  /\ lease \subseteq Name

Present(n) == disk[Transcript(n)] # Absent
TranscriptsIn(p) == {n \in Name : Project(n) = p /\ Present(n)}
PointedBy(s) == pointer[Home[s]] = s

(***************************************************************************)
(* Any disk the program can have left behind.  A file implies its project  *)
(* directory, a pointer names a session of its own project, and no process *)
(* is writing yet (a lock with no lease is one a dead writer left).        *)
(***************************************************************************)
StoreInit ==
  /\ disk \in [Artifact -> Rank \union {Absent}]
  /\ dirs \in SUBSET Projects
  /\ \A a \in Artifact : disk[a] # Absent => Project(a[2]) \in dirs
  /\ registry \in [Sessions -> {"none", "active", "archived"}]
  /\ modified \in [Sessions -> Rank \union {Undatable}]
  /\ pointer \in [Projects -> Sessions \union {None}]
  /\ \A p \in Projects : pointer[p] # None => Home[pointer[p]] = p
  /\ lease = {}

-----------------------------------------------------------------------------
(***************************************************************************)
(* What a TUI or a CLI run does.                                           *)
(***************************************************************************)

(* A turn opens: the lease is taken (over a dead writer's lock, too), the  *)
(* agent is registered if it was not, and the first record is appended.    *)
(* `theocode resume <id>` accepts any id, so any session may do this.      *)
StartTurn(s) ==
  /\ HashName(s) \notin lease
  /\ lease' = lease \union {HashName(s)}
  /\ disk' = [disk EXCEPT ![Transcript(HashName(s))] = Fresh,
                          ![Lock(HashName(s))] = Fresh]
  /\ dirs' = dirs \union {Home[s]}
  /\ registry' = [registry EXCEPT ![s] = IF @ = "none" THEN "active" ELSE @]
  /\ modified' = [modified EXCEPT ![s] = Fresh]
  /\ UNCHANGED pointer

(* The turn's stream closes: its last record is written, its lease goes.   *)
EndTurn(s) ==
  /\ HashName(s) \in lease
  /\ lease' = lease \ {HashName(s)}
  /\ disk' = [disk EXCEPT ![Transcript(HashName(s))] = Fresh,
                          ![Lock(HashName(s))] = Absent]
  /\ dirs' = dirs \union {Home[s]}
  /\ UNCHANGED <<registry, modified, pointer>>

(* The process dies mid-turn: the lock stays, with nobody behind it.       *)
CrashTurn(s) ==
  /\ HashName(s) \in lease
  /\ lease' = lease \ {HashName(s)}
  /\ UNCHANGED <<disk, dirs, registry, modified, pointer>>

Unused(s) ==
  /\ registry[s] = "none"
  /\ ~PointedBy(s)
  /\ \A n \in NamesOf(s), k \in ArtifactKind : disk[<<k, n>>] = Absent

(* /new points the directory at an id nobody has used; nothing is written  *)
(* for that session until its first turn.                                  *)
NewSession(s) ==
  /\ Verdict[Home[s]] = "ALIVE"
  /\ Unused(s)
  /\ pointer' = [pointer EXCEPT ![Home[s]] = s]
  /\ UNCHANGED <<disk, dirs, registry, modified, lease>>

(* /resume accepts an id of the registry's listing, archived ones too.     *)
ResumeSession(s) ==
  /\ Verdict[Home[s]] = "ALIVE"
  /\ registry[s] # "none"
  /\ ~PointedBy(s)
  /\ pointer' = [pointer EXCEPT ![Home[s]] = s]
  /\ UNCHANGED <<disk, dirs, registry, modified, lease>>

(* /fork and backtrack copy the current transcript to an unused id and     *)
(* point there; the copy is registered only by its first turn.             *)
ForkSession(s) ==
  /\ Verdict[Home[s]] = "ALIVE"
  /\ Unused(s)
  /\ pointer[Home[s]] # None
  /\ Present(HashName(pointer[Home[s]]))
  /\ disk' = [disk EXCEPT ![Transcript(HashName(s))] = Fresh]
  /\ dirs' = dirs \union {Home[s]}
  /\ pointer' = [pointer EXCEPT ![Home[s]] = s]
  /\ UNCHANGED <<registry, modified, lease>>

ArchiveSession(s) ==
  /\ registry[s] = "active"
  /\ registry' = [registry EXCEPT ![s] = "archived"]
  /\ UNCHANGED <<disk, dirs, modified, pointer, lease>>

(* The three reasons deleteSession refuses: the pointer, the most recent   *)
(* transcript, a live writer.                                              *)
MostRecent(n) ==
  /\ Present(n)
  /\ \A m \in TranscriptsIn(Project(n)) :
       disk[Transcript(m)] <= disk[Transcript(n)]

ProtectedFromDelete(s) ==
  PointedBy(s) \/ MostRecent(HashName(s)) \/ HashName(s) \in lease

(* The refusal comes before the registry entry and the file go.            *)
DeleteSession(s) ==
  /\ ~ProtectedFromDelete(s)
  /\ registry[s] # "none" \/ Present(HashName(s))
  /\ registry' = [registry EXCEPT ![s] = "none"]
  /\ disk' = [disk EXCEPT ![Transcript(HashName(s))] = Absent]
  /\ UNCHANGED <<dirs, modified, pointer, lease>>

=============================================================================
