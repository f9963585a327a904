--------------------------- MODULE MCProjectSweep ---------------------------
(* Two sessions, the first with a 4.x transcript too, in one live project. *)
EXTENDS ProjectSweep, TLC

CONSTANTS s1, s2, here

AtHome == s1 :> here @@ s2 :> here
Alive == here :> "ALIVE"
HashNames == {HashName(s) : s \in Sessions}

(* Their transcripts, old, the first's of 4.x or not; no leftovers.        *)
Start ==
  /\ \E t \in [HashNames \union {RawName(s1)} -> {Absent, 0}] :
       /\ t[HashName(s2)] = 0
       /\ disk = [a \in Artifact |-> IF a[1] = "transcript" /\ a[2] \in DOMAIN t
                                  THEN t[a[2]] ELSE Absent]
  /\ dirs = Projects
  /\ modified = [s \in Sessions |-> 0]
  /\ Init

SpecHere == Start /\ [][Next]_vars

(* Of what is no transcript, no step of these reads the date; nor an       *)
(* entry's.                                                                *)
Undated ==
  <<[n \in Name |-> disk[Transcript(n)]], {a \in Artifact : disk[a] # Absent},
    registry, pointer, lease, sweepVars, rmVars, history>>

(* A state constraint: the turns and the deletions are of the first, whose *)
(* transcripts have both names; the second is registered or not.           *)
(* What raced is followed to its end, and no new sweep.                    *)
FirstSession ==
  /\ rm[s2] = "idle" /\ registry[s2] # "archived" /\ HashName(s2) \notin lease
  /\ raced => rm[s1] # "idle" \/ \E w \in Sweepers : pc[w] = "apply"

=============================================================================
