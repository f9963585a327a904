------------------------- MODULE MCAllProjectsSweep -------------------------
(***************************************************************************)
(* Two sessions in a live project, a third in one whose working directory  *)
(* is gone, and a project of which nothing is known.  Two old ranks (0, 1) *)
(* and Fresh are enough to order two transcripts beyond the window against *)
(* each other and against one written during the sweep.                    *)
(***************************************************************************)
EXTENDS AllProjectsSweep, TLC

CONSTANTS s1, s2, s3, live, dead, unknown

Homes == s1 :> live @@ s2 :> live @@ s3 :> dead
Verdicts == live :> "ALIVE" @@ dead :> "DEAD" @@ unknown :> "UNDETERMINED"

FirstHash == {Transcript(HashName(s1))}

(* The first two have a 5.x transcript or not, the first has one of 4.x    *)
(* and a lock that a dead writer left.  The third is registered, pointed   *)
(* at, and its project's newest: none of it guards a dead project's but    *)
(* the quota.                                                              *)
Start ==
  /\ \E first, second \in {Absent, 0, 1} :
       disk = [a \in Artifact |->
                 CASE a = Transcript(HashName(s1)) -> first
                   [] a = Transcript(HashName(s2)) -> second
                   [] a \in {Transcript(RawName(s1)), Lock(HashName(s1)),
                             Transcript(HashName(s3))} -> 0
                   [] OTHER -> Absent]
  /\ dirs = Projects
  /\ modified = [s \in Sessions |-> 0]
  /\ Init
  /\ registry[s3] = "active" /\ pointer[dead] = s3

SpecHere ==
  /\ Start /\ [][Next]_vars
  /\ \A w \in Sweepers : WF_sweepVars(PlanStep(w) \/ ApplyStep(w))

(* State constraints: the turns are of the first session, the second is    *)
(* not archived and the third does nothing; the dead project is visited    *)
(* before the live one, and can be listed.                                 *)
FirstSession ==
  /\ lease \subseteq {HashName(s1)}
  /\ registry[s2] # "archived"
  /\ registry[s3] = "active" /\ pointer[dead] = s3
  /\ disk[Transcript(HashName(s3))] = 0

DeadFirst ==
  \A w \in Sweepers :
    /\ pc[w] = "empty" \/ todo[w] = {} \/ live \in todo[w]
    /\ dead \notin planErrors[w]
=============================================================================
