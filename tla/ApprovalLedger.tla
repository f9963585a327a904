--------------------------- MODULE ApprovalLedger ---------------------------
(***************************************************************************)
(* The approvals a conversation asked for, as the screen remembers them    *)
(* (tui/src/consent/pending-approvals.ts).                                 *)
(*                                                                         *)
(* A thread is a sequence of messages, a message the sequence of its parts *)
(* that ask for an approval, [id, open].  The messages up to `swept` are   *)
(* final: they are not looked at again.  What is in flight is a set: parts *)
(* only ever come after the others, so that the order of the Map is that   *)
(* of the places, and an approval is asked for by one part.                *)
(***************************************************************************)
EXTENDS Integers, SequencesExt

CreateLedger == [inFlight |-> {}, swept |-> 0]

Known(inFlight) == {e.id : e \in inFlight}

(* prune: of the messages that are gone.                                   *)
Prune(reg, length) ==
  [inFlight |-> {e \in reg.inFlight : e.index <= length},
   swept |-> IF reg.swept < length THEN reg.swept ELSE length]

(* Defect: the last message may still hold what was answered.              *)
PruneDeadMarkers_All(inFlight, length) == {e \in inFlight : ~e.settled}

(* pruneDeadMarkers: of what was answered in messages that are final.      *)
PruneDeadMarkers(inFlight, length) ==
  {e \in inFlight : ~(e.settled /\ e.index < length)}

(* absorbMessage, of every message from `first` on.                        *)
Requested(thread, first) ==
  UNION {{[id |-> thread[i][k].id, index |-> i, part |-> k, settled |-> FALSE] :
            k \in {open \in DOMAIN thread[i] : thread[i][open].open}} :
         i \in first..Len(thread)}

Absorbed(inFlight, thread, first) ==
  inFlight \union {e \in Requested(thread, first) : e.id \notin Known(inFlight)}

(* Every message but the last is final once it was looked at.              *)
Ingest(ledger, thread) ==
  LET length == Len(thread)
      reg == Prune(ledger, length)
      absorbed == Absorbed(reg.inFlight, thread, reg.swept + 1)
  IN [inFlight |-> PruneDeadMarkers(absorbed, length),
      swept |-> IF reg.swept < length THEN length - 1 ELSE reg.swept]

Settle(ledger, id) ==
  [ledger EXCEPT !.inFlight =
     {e \in @ : e.id # id} \union {[e EXCEPT !.settled = TRUE] : e \in {e \in @ : e.id = id}}]

Unsettled(ledger) == {e \in ledger.inFlight : ~e.settled}

Before(e, f) == e.index < f.index \/ (e.index = f.index /\ e.part <= f.part)

(* findNextApproval: 0 when there is none.                                 *)
FindNextApproval(ledger) ==
  LET waiting == Unsettled(ledger)
  IN IF waiting = {} THEN 0
     ELSE (CHOOSE e \in waiting : \A f \in waiting : Before(e, f)).id
=============================================================================
