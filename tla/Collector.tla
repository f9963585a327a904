------------------------------ MODULE Collector ------------------------------
(***************************************************************************)
(* What every collector of sessions promises, whichever way it goes about  *)
(* it: it looks, it dooms transcripts that were beyond the window when it  *)
(* looked and were not the newest it saw, and it takes nothing but what it *)
(* doomed.  AllProjectsSweep and ProjectSweep implement this.              *)
(***************************************************************************)
EXTENDS Naturals

CONSTANTS
  Collectors,   \* the processes that collect
  Transcripts,  \* transcript names
  Cutoff,       \* a transcript beyond the window has a rank below this
  Absent        \* no such transcript

VARIABLES
  age,          \* the rank of every transcript on disk
  looked,       \* the ranks each collector saw
  doomed,       \* the transcripts it may still take
  collected     \* transcripts collectors took

vars == <<age, looked, doomed, collected>>

Doomable(seen) ==
  {n \in Transcripts :
     /\ seen[n] \in Nat /\ seen[n] < Cutoff
     /\ \E m \in Transcripts \ {n} : seen[m] \in Nat /\ seen[m] >= seen[n]}

Init == doomed = [c \in Collectors |-> {}] /\ collected = {}

(* The sessions: they write their transcripts - what was collected may be  *)
(* there again - and users delete them.                                    *)
Use ==
  /\ collected' \subseteq collected
  /\ UNCHANGED <<looked, doomed>>

Look(c) ==
  /\ \A d \in Collectors \ {c} : looked'[d] = looked[d]
  /\ \A n \in Transcripts : looked'[c][n] \notin Nat \/ looked'[c][n] = age[n]
  /\ UNCHANGED <<age, doomed, collected>>

(* What was seen of them may be forgotten once they are doomed.            *)
Doom(c) ==
  /\ \A d \in Collectors \ {c} : looked'[d] = looked[d] /\ doomed'[d] = doomed[d]
  /\ doomed[c] \subseteq doomed'[c]
  /\ doomed'[c] \subseteq doomed[c] \union Doomable(looked[c])
  /\ UNCHANGED <<age, collected>>

Take(c, n) ==
  /\ n \in doomed[c]
  /\ age[n] # Absent
  /\ age' = [age EXCEPT ![n] = Absent]
  /\ doomed' = [doomed EXCEPT ![c] = @ \ {n}]
  /\ collected' = collected \union {n}
  /\ UNCHANGED looked

(* It refuses a transcript, finds it gone, fails on it, or ends.           *)
Spare(c) ==
  /\ \A d \in Collectors \ {c} : looked'[d] = looked[d] /\ doomed'[d] = doomed[d]
  /\ doomed'[c] \subseteq doomed[c]
  /\ collected' \subseteq collected
  /\ UNCHANGED age

Next ==
  \/ Use
  \/ \E c \in Collectors :
       \/ Look(c) \/ Doom(c) \/ Spare(c)
       \/ \E n \in Transcripts : Take(c, n)

Spec == Init /\ [][Next]_vars
=============================================================================
