------------------------ MODULE SessionSwitchProofs ------------------------
(***************************************************************************)
(* The types of a TUI's session; that its pointer file follows it, that a  *)
(* turn streams into it and that a rewind cuts it where the ladder shows,  *)
(* short of the exceptions each property names; for any number of sessions *)
(* and messages, and whatever waits.                                       *)
(***************************************************************************)
EXTENDS SessionSwitch, SequenceTheorems, TLAPS

USE NoneAssumption

(***************************************************************************)
(* The invariant's parts.  The session on the screen is the last one       *)
(* queued, or the one on disk; and no other session will get its id.       *)
(***************************************************************************)
QueuedLast ==
  /\ session \in used
  /\ writes # <<>> => session = writes[Len(writes)]
  /\ writes = <<>> /\ ~lostWrite => session = pointer

SessionInv == SessionTypeOK /\ QueuedLast
TypeInv == TypeOK /\ QueuedLast

(* A turn that runs while a /resume lists was sent after it was typed.     *)
SentUnderResume == resuming # None /\ phase # "none" => sentSince

TurnInv == TypeInv /\ TurnIsOnScreen /\ SentUnderResume

(* The ladder, and the previews asked for, are of the session's window;    *)
(* no ladder is up while previews are read.                                *)
ShownInWindow(i) ==
  /\ boundary[session] + i <= Len(transcript[session])
  /\ previews[i] = transcript[session][boundary[session] + i]

LadderOfSession ==
  /\ priming # None => previews = <<>>
  /\ ~moved => /\ priming # None => priming = session
               /\ \A i \in 1 .. Len(previews) : ShownInWindow(i)

LadderInv == TypeInv /\ LadderOfSession

-----------------------------------------------------------------------------
(***************************************************************************)
(* Sequences.                                                              *)
(***************************************************************************)

LEMMA Empty ==
  /\ <<>> \in Seq(Sessions) /\ <<>> \in Seq(Messages)
  /\ Len(<<>>) = 0 /\ 0 \in 0 .. Len(<<>>)
BY EmptySeq

LEMMA Appended ==
  ASSUME NEW S, NEW seq \in Seq(S), NEW e \in S
  PROVE  /\ Append(seq, e) \in Seq(S) /\ Append(seq, e) # <<>>
         /\ Len(Append(seq, e)) = Len(seq) + 1
         /\ Append(seq, e)[Len(seq) + 1] = e
         /\ \A i \in 1 .. Len(seq) : Append(seq, e)[i] = seq[i]
BY AppendProperties

LEMMA Prefix ==
  ASSUME NEW S, NEW seq \in Seq(S), NEW n \in Int, n <= Len(seq)
  PROVE  /\ SubSeq(seq, 1, n) \in Seq(S)
         /\ n \in Nat => Len(SubSeq(seq, 1, n)) = n
<1>1. \A i \in 1 .. n : seq[i] \in S
  BY ElementOfSeq, LenProperties
<1> QED BY <1>1, SubSeqProperties, LenProperties

LEMMA WindowOf ==
  ASSUME StoreTypeOK, NEW s \in Sessions
  PROVE  /\ Window(s) \in Seq(Messages)
         /\ \A i \in 1 .. Len(Window(s)) :
              /\ boundary[s] + i <= Len(transcript[s])
              /\ Window(s)[i] = transcript[s][boundary[s] + i]
         /\ \A i \in Nat \ {0} :
              boundary[s] + i <= Len(transcript[s]) => i <= Len(Window(s))
<1> DEFINE b == boundary[s]
           t == transcript[s]
<1>1. b \in Nat /\ t \in Seq(Messages) /\ Len(t) \in Nat
  BY LenProperties DEF StoreTypeOK
<1>2. \A i \in b + 1 .. Len(t) : t[i] \in Messages
  BY <1>1, ElementOfSeq
<1>3. /\ Window(s) \in Seq(Messages)
      /\ Len(Window(s)) = IF b + 1 <= Len(t) THEN Len(t) - b ELSE 0
      /\ \A i \in 1 .. Len(t) - b : Window(s)[i] = t[b + i]
  <2>1. b + 1 \in Int /\ Len(t) \in Int
    BY <1>1
  <2>2. /\ SubSeq(t, b + 1, Len(t)) \in Seq(Messages)
        /\ Len(SubSeq(t, b + 1, Len(t))) =
             IF b + 1 <= Len(t) THEN Len(t) - (b + 1) + 1 ELSE 0
        /\ \A i \in 1 .. Len(t) - (b + 1) + 1 :
             SubSeq(t, b + 1, Len(t))[i] = t[b + 1 + i - 1]
    <3> HIDE DEF b, t
    <3> QED BY <1>2, <2>1, SubSeqProperties
  <2>3. Window(s) = SubSeq(t, b + 1, Len(t))
    BY DEF Window
  <2> HIDE DEF b, t
  <2> QED BY <1>1, <2>2, <2>3
<1> HIDE DEF b, t
<1>4. /\ \A i \in 1 .. Len(Window(s)) : b + i <= Len(t) /\ Window(s)[i] = t[b + i]
      /\ \A i \in Nat \ {0} : b + i <= Len(t) => i <= Len(Window(s))
  BY <1>1, <1>3
<1> QED BY <1>3, <1>4 DEF b, t

-----------------------------------------------------------------------------
(***************************************************************************)
(* The session and its pointer.                                            *)
(***************************************************************************)

LEMMA SwitchKeeps ==
  ASSUME SessionInv, NEW s \in Sessions, SwitchTo(s)
  PROVE  SessionInv'
<1>1. writes \in Seq(Sessions) /\ writes' = Append(writes, s)
  BY DEF SwitchTo, SessionInv, SessionTypeOK
<1>2. /\ writes' \in Seq(Sessions) /\ writes' # <<>>
      /\ writes'[Len(writes')] = s
  BY <1>1, Appended
<1> QED BY <1>2 DEF SwitchTo, SessionInv, SessionTypeOK, QueuedLast

LEMMA HeadLeaves ==
  ASSUME SessionInv, writes # <<>>, writes' = Tail(writes),
         session' = session, used' = used,
         pointer' = Head(writes) \/ (lostWrite' /\ pointer' = pointer)
  PROVE  SessionInv'
<1>1. writes \in Seq(Sessions)
  BY DEF SessionInv, SessionTypeOK
<1>2. /\ Len(writes) \in Nat \ {0} /\ writes' \in Seq(Sessions)
      /\ Len(writes') = Len(writes) - 1 /\ Head(writes) = writes[1]
      /\ Head(writes) \in Sessions
      /\ \A i \in 1 .. Len(writes') : writes'[i] = writes[i + 1]
  <2>1. Len(writes) \in Nat \ {0} /\ Head(writes) = writes[1]
    BY <1>1, EmptySeq
  <2> QED BY <1>1, <2>1, HeadTailProperties
<1>3. session = writes[Len(writes)] /\ session \in used
  BY DEF SessionInv, QueuedLast
<1>4. /\ session' = session /\ session' \in used'
      /\ pointer' = writes[1] \/ lostWrite'
      /\ pointer' \in Sessions \union {None}
  BY <1>2, <1>3 DEF SessionInv, SessionTypeOK
<1>5. CASE writes' = <<>>
  <2>1. Len(writes') = 0
    BY <1>5, EmptySeq
  <2>2. session = writes[1]
    BY <1>2, <1>3, <2>1
  <2> QED BY <1>2, <1>4, <1>5, <2>2 DEF SessionInv, SessionTypeOK, QueuedLast
<1>6. CASE writes' # <<>>
  <2>1. Len(writes') \in 1 .. Len(writes')
    BY <1>2, <1>6, EmptySeq
  <2>2. writes'[Len(writes')] = writes[Len(writes)]
    BY <1>2, <2>1
  <2> QED BY <1>2, <1>3, <1>4, <1>6, <2>2 DEF SessionInv, SessionTypeOK, QueuedLast
<1> QED BY <1>5, <1>6

-----------------------------------------------------------------------------
(***************************************************************************)
(* Types, action by action.                                                *)
(***************************************************************************)

(* What a step leaves alone keeps its type.                                *)
LEMMA Frames ==
  /\ SessionInv /\ UNCHANGED <<sessionVars, lostWrite>> => SessionInv'
  /\ StoreTypeOK /\ UNCHANGED storeVars => StoreTypeOK'
  /\ TurnTypeOK /\ UNCHANGED turnVars => TurnTypeOK'
  /\ ScreenTypeOK /\ UNCHANGED screenVars => ScreenTypeOK'
  /\ AwaitTypeOK /\ UNCHANGED awaits => AwaitTypeOK'
  /\ LadderTypeOK /\ UNCHANGED ladder => LadderTypeOK'
  /\ PastTypeOK /\ UNCHANGED past => PastTypeOK'
<1>1. SessionInv /\ UNCHANGED <<sessionVars, lostWrite>> => SessionInv'
  BY DEF SessionInv, SessionTypeOK, QueuedLast, sessionVars
<1>2. StoreTypeOK /\ UNCHANGED storeVars => StoreTypeOK'
  BY DEF StoreTypeOK, storeVars
<1>3. TurnTypeOK /\ UNCHANGED turnVars => TurnTypeOK'
  BY DEF TurnTypeOK, turnVars
<1>4. ScreenTypeOK /\ UNCHANGED screenVars => ScreenTypeOK'
  BY DEF ScreenTypeOK, screenVars
<1>5. AwaitTypeOK /\ UNCHANGED awaits => AwaitTypeOK'
  BY DEF AwaitTypeOK, awaits
<1>6. LadderTypeOK /\ UNCHANGED ladder => LadderTypeOK'
  BY DEF LadderTypeOK, ladder
<1>7. PastTypeOK /\ UNCHANGED past => PastTypeOK'
  BY DEF PastTypeOK, past
<1> QED BY <1>1, <1>2, <1>3, <1>4, <1>5, <1>6, <1>7

LEMMA Parts ==
  /\ TypeInv => /\ SessionInv /\ StoreTypeOK /\ TurnTypeOK /\ ScreenTypeOK
                /\ AwaitTypeOK /\ LadderTypeOK /\ PastTypeOK
  /\ /\ SessionInv' /\ StoreTypeOK' /\ TurnTypeOK' /\ ScreenTypeOK'
     /\ AwaitTypeOK' /\ LadderTypeOK' /\ PastTypeOK'
     => TypeInv'
BY DEF TypeInv, TypeOK, SessionInv

LEMMA TypeInit == Init => TypeInv
<1> SUFFICES ASSUME Init PROVE TypeInv
  OBVIOUS
<1>1. StoreTypeOK
  <2>1. \A s \in Sessions : transcript[s] \in Seq(Messages)
    <3>1. \A s \in Sessions : transcript[s] \in {<<>>} \union {<<m>> : m \in Messages}
      BY DEF Init
    <3>2. \A m \in Messages : <<m>> \in Seq(Messages)
      OBVIOUS
    <3> QED BY <3>1, <3>2, EmptySeq
  <2>2. \A s \in Sessions : Elements(transcript[s]) \subseteq Messages
    <3>1. ASSUME NEW s \in Sessions, NEW i \in DOMAIN transcript[s]
          PROVE  transcript[s][i] \in Messages
      <4>1. transcript[s] \in Seq(Messages)
        BY <2>1
      <4>2. i \in 1 .. Len(transcript[s])
        BY <4>1, LenProperties
      <4> QED BY <4>1, <4>2, ElementOfSeq
    <3> QED BY <3>1 DEF Elements
  <2> QED BY <2>1, <2>2 DEF Init, StoreTypeOK
<1>2. SessionInv
  <2>1. CASE writes = <<>> /\ pointer = session
    BY <2>1, EmptySeq DEF Init, SessionInv, SessionTypeOK, QueuedLast
  <2>2. CASE writes = <<session>> /\ pointer = None
    <3>1. /\ writes \in Seq(Sessions) /\ writes # <<>>
          /\ writes[Len(writes)] = session
      BY <2>2 DEF Init
    <3> QED BY <2>2, <3>1 DEF Init, SessionInv, SessionTypeOK, QueuedLast
  <2> QED BY <2>1, <2>2 DEF Init
<1>3. TurnTypeOK
  BY EmptySeq DEF Init, TurnTypeOK
<1>4. ScreenTypeOK
  BY EmptySeq DEF Init, ScreenTypeOK
<1>5. AwaitTypeOK /\ PastTypeOK
  BY DEF Init, AwaitTypeOK, PastTypeOK
<1>6. LadderTypeOK
  BY EmptySeq DEF Init, LadderTypeOK
<1> QED BY <1>1, <1>2, <1>3, <1>4, <1>5, <1>6 DEF TypeInv, TypeOK, SessionInv

LEMMA LadderCloses ==
  ASSUME LadderTypeOK, CloseLadder
  PROVE  LadderTypeOK' /\ moved' \in BOOLEAN
<1>1. priming' = priming /\ previews' = <<>> /\ nth' = 0 /\ moved' = FALSE
  BY DEF CloseLadder
<1>2. previews' \in Seq(Messages) /\ nth' \in 0 .. Len(previews')
  BY <1>1, Empty
<1> QED BY <1>1, <1>2 DEF LadderTypeOK

LEMMA TypeTurn ==
  ASSUME TypeInv, (\E m \in Messages : Send(m)) \/ OpenTurn \/ TurnEnds
  PROVE  TypeInv'
<1>1. ASSUME NEW m \in Messages, Send(m) PROVE TypeInv'
  <2>1. TurnTypeOK'
    <3>1. Append(thread, m) \in Seq(Messages)
      BY Appended DEF TypeInv, TypeOK, TurnTypeOK
    <3> QED BY <1>1, <3>1 DEF Send, TypeInv, TypeOK, TurnTypeOK
  <2>2. StoreTypeOK'
    BY <1>1 DEF Send, TypeInv, TypeOK, StoreTypeOK
  <2>3. PastTypeOK'
    BY <1>1 DEF Send, TypeInv, TypeOK, PastTypeOK
  <2> QED BY <1>1, <2>1, <2>2, <2>3, Frames, Parts DEF Send
<1>2. CASE OpenTurn
  <2>1. TurnTypeOK'
    BY <1>2 DEF OpenTurn, TypeInv, TypeOK, TurnTypeOK, SessionTypeOK
  <2>2. StoreTypeOK'
    <3>1. Append(transcript[session], message) \in Seq(Messages)
      BY <1>2, Appended DEF OpenTurn, TypeInv, TypeOK, StoreTypeOK, TurnTypeOK, SessionTypeOK
    <3> QED BY <1>2, <3>1 DEF OpenTurn, TypeInv, TypeOK, StoreTypeOK, SessionTypeOK
  <2>3. PastTypeOK'
    BY <1>2 DEF OpenTurn, TypeInv, TypeOK, PastTypeOK, ScreenTypeOK
  <2> QED BY <1>2, <2>1, <2>2, <2>3, Frames, Parts DEF OpenTurn
<1>3. CASE TurnEnds
  <2>1. TurnTypeOK' /\ PastTypeOK'
    BY <1>3 DEF TurnEnds, AbortTurn, TypeInv, TypeOK, TurnTypeOK, PastTypeOK
  <2> QED BY <1>3, <2>1, Frames, Parts DEF TurnEnds
<1> QED BY <1>1, <1>2, <1>3

LEMMA TypeScreen ==
  ASSUME TypeInv, Render \/ HistoryArrives
  PROVE  TypeInv'
<1>1. CASE Render
  <2>1. ScreenTypeOK'
    BY <1>1, EmptySeq DEF Render, TypeInv, TypeOK, ScreenTypeOK, SessionTypeOK
  <2> QED BY <1>1, <2>1, Frames, Parts DEF Render, past
<1>2. CASE HistoryArrives
  <2>1. ScreenTypeOK'
    <3>1. reading \in Sessions /\ transcript[reading] \in Seq(Messages)
      BY <1>2 DEF HistoryArrives, TypeInv, TypeOK, ScreenTypeOK, StoreTypeOK
    <3>2. history' \in Seq(Messages)
      BY <1>2, <3>1, Empty DEF HistoryArrives
    <3> QED BY <1>2, <3>2 DEF HistoryArrives, TypeInv, TypeOK, ScreenTypeOK
  <2> QED BY <1>2, <2>1, Frames, Parts DEF HistoryArrives, past
<1> QED BY <1>1, <1>2

LEMMA TypeFork ==
  ASSUME TypeInv, NEW s \in Sessions, ForkCurrent(s), TurnTypeOK', left' \in BOOLEAN
  PROVE  TypeInv'
<1>1. SessionInv'
  BY SwitchKeeps, Parts DEF ForkCurrent
<1>2. StoreTypeOK'
  BY DEF ForkCurrent, TypeInv, TypeOK, StoreTypeOK, SessionTypeOK
<1>3. PastTypeOK'
  BY DEF ForkCurrent, MovesLadder, TypeInv, TypeOK, PastTypeOK, ScreenTypeOK
<1> QED BY <1>1, <1>2, <1>3, Frames, Parts DEF ForkCurrent

LEMMA TypeCommand ==
  ASSUME TypeInv, NEW s \in Sessions,
         New(s) \/ Fork(s) \/ Resume(s) \/ Archive \/ Compact \/ Interrupt
  PROVE  TypeInv'
<1>1. CASE New(s)
  <2>1. SessionInv'
    BY <1>1, SwitchKeeps, Parts DEF New
  <2>2. TurnTypeOK'
    BY <1>1, EmptySeq DEF New, ResetAgent, TurnTypeOK
  <2>3. ScreenTypeOK'
    BY <1>1 DEF New, TypeInv, TypeOK, ScreenTypeOK
  <2>4. PastTypeOK'
    BY <1>1 DEF New, ResetAgent, MovesLadder, TypeInv, TypeOK, PastTypeOK
  <2> QED BY <1>1, <2>1, <2>2, <2>3, <2>4, Frames, Parts DEF New
<1>2. CASE Fork(s)
  <2>1. TurnTypeOK' /\ left' \in BOOLEAN
    BY <1>2, Frames DEF Fork, LeavesTurn, TypeInv, TypeOK, PastTypeOK
  <2> QED BY <1>2, <2>1, TypeFork DEF Fork
<1>3. CASE Resume(s) \/ Archive \/ Compact
  <2>1. AwaitTypeOK' /\ PastTypeOK'
    BY <1>3 DEF Resume, Archive, Compact, TypeInv, TypeOK, AwaitTypeOK, PastTypeOK,
                SessionTypeOK, past
  <2> QED BY <1>3, <2>1, Frames, Parts DEF Resume, Archive, Compact, past
<1>4. CASE Interrupt
  <2>1. TurnTypeOK' /\ left' \in BOOLEAN
    BY <1>4 DEF Interrupt, AbortTurn, TypeInv, TypeOK, TurnTypeOK
  <2>2. ASSUME NEW t \in Sessions, ForkCurrent(t) PROVE TypeInv'
    BY <2>1, <2>2, TypeFork
  <2>3. CASE UNCHANGED <<sessionVars, storeVars, screenVars, awaits, ladder, sentSince,
                         moved, mixed, lostWrite>>
    <3>1. PastTypeOK'
      BY <2>1, <2>3 DEF TypeInv, TypeOK, PastTypeOK
    <3> QED BY <2>1, <2>3, <3>1, Frames, Parts
  <2> QED BY <1>4, <2>2, <2>3 DEF Interrupt
<1> QED BY <1>1, <1>2, <1>3, <1>4

LEMMA TypeLands ==
  ASSUME TypeInv, Lands
  PROVE  TypeInv'
<1>1. CASE ResumeLands
  <2>1. resuming \in Sessions /\ SwitchTo(resuming)
    BY <1>1 DEF ResumeLands, TypeInv, TypeOK, AwaitTypeOK
  <2>2. SessionInv'
    BY <2>1, SwitchKeeps, Parts
  <2>3. ScreenTypeOK' /\ AwaitTypeOK'
    BY <1>1 DEF ResumeLands, ResumeOver, TypeInv, TypeOK, ScreenTypeOK, AwaitTypeOK
  <2>4. PastTypeOK'
    BY <1>1 DEF ResumeLands, ResumeOver, MovesLadder, TypeInv, TypeOK, PastTypeOK
  <2> QED BY <1>1, <2>2, <2>3, <2>4, Frames, Parts DEF ResumeLands
<1>2. CASE ArchiveLands
  <2>1. SessionInv'
    BY <1>2, SwitchKeeps, Parts DEF ArchiveLands
  <2>2. AwaitTypeOK'
    BY <1>2 DEF ArchiveLands, TypeInv, TypeOK, AwaitTypeOK
  <2>3. PastTypeOK'
    BY <1>2 DEF ArchiveLands, MovesLadder, LeavesTurn, TypeInv, TypeOK, PastTypeOK
  <2> QED BY <1>2, <2>1, <2>2, <2>3, Frames, Parts DEF ArchiveLands
<1>3. CASE CompactLands
  <2>1. StoreTypeOK'
    BY <1>3, LenProperties DEF CompactLands, TypeInv, TypeOK, StoreTypeOK, AwaitTypeOK
  <2>2. AwaitTypeOK' /\ PastTypeOK'
    BY <1>3 DEF CompactLands, MovesLadder, TypeInv, TypeOK, AwaitTypeOK, PastTypeOK
  <2> QED BY <1>3, <2>1, <2>2, Frames, Parts DEF CompactLands
<1>4. CASE PrimeLands
  <2>1. previews' \in Seq(Messages)
    BY <1>4, WindowOf DEF PrimeLands, TypeInv, TypeOK, LadderTypeOK
  <2>2. LadderTypeOK'
    BY <1>4, <2>1, LenProperties DEF PrimeLands, LadderTypeOK
  <2> QED BY <1>4, <2>2, Frames, Parts DEF PrimeLands, past
<1>5. CASE ResumeRefused \/ ArchiveFails \/ CompactFails
  <2>1. AwaitTypeOK' /\ PastTypeOK'
    BY <1>5 DEF ResumeRefused, ResumeOver, ArchiveFails, CompactFails, TypeInv, TypeOK,
                AwaitTypeOK, PastTypeOK, past
  <2> QED BY <1>5, <2>1, Frames, Parts DEF ResumeRefused, ArchiveFails, CompactFails, past
<1>6. CASE PrimeFails
  <2>1. LadderTypeOK' /\ PastTypeOK'
    BY <1>6 DEF PrimeFails, TypeInv, TypeOK, LadderTypeOK, PastTypeOK
  <2> QED BY <1>6, <2>1, Frames, Parts DEF PrimeFails
<1> QED BY <1>1, <1>2, <1>3, <1>4, <1>5, <1>6 DEF Lands

LEMMA TypeLadder ==
  ASSUME TypeInv,
         \/ Prime \/ Advance \/ ResetLadder \/ RewindFails \/ RewindThrows
         \/ \E s \in Sessions : Rewind(s)
  PROVE  TypeInv'
<1>1. CASE Prime
  <2>1. LadderTypeOK' /\ PastTypeOK'
    BY <1>1 DEF Prime, TypeInv, TypeOK, LadderTypeOK, PastTypeOK, SessionTypeOK
  <2> QED BY <1>1, <2>1, Frames, Parts DEF Prime
<1>2. CASE Advance
  <2>1. Len(previews) \in Nat /\ nth' \in 0 .. Len(previews)
    BY <1>2, LenProperties, EmptySeq DEF Advance, StepBacktrack, armed, TypeInv, TypeOK,
       LadderTypeOK
  <2>2. LadderTypeOK'
    BY <1>2, <2>1 DEF Advance, TypeInv, TypeOK, LadderTypeOK
  <2> QED BY <1>2, <2>2, Frames, Parts DEF Advance, past
<1>3. CASE ResetLadder \/ RewindFails \/ RewindThrows
  <2>1. LadderTypeOK' /\ PastTypeOK'
    <3>1. CloseLadder
      BY <1>3 DEF ResetLadder, RewindFails, RewindThrows
    <3>2. LadderTypeOK' /\ moved' \in BOOLEAN
      BY <3>1, LadderCloses, Parts
    <3> QED BY <1>3, <3>2 DEF ResetLadder, RewindFails, RewindThrows, TypeInv, TypeOK,
                              PastTypeOK
  <2> QED BY <1>3, <2>1, Frames, Parts DEF ResetLadder, RewindFails, RewindThrows
<1>4. ASSUME NEW s \in Sessions, Rewind(s) PROVE TypeInv'
  <2>1. SessionInv'
    BY <1>4, SwitchKeeps, Parts DEF Rewind
  <2>2. StoreTypeOK'
    <3>1. /\ session \in Sessions /\ transcript[session] \in Seq(Messages)
          /\ boundary[session] \in Nat /\ Len(transcript[session]) \in Nat
      BY LenProperties DEF TypeInv, TypeOK, SessionTypeOK, StoreTypeOK
    <3>2. nth \in 1 .. Len(Window(session))
      BY <1>4, <3>1, WindowOf, LenProperties, EmptySeq DEF Rewind, TypeInv, TypeOK,
         LadderTypeOK
    <3>3. boundary[session] + nth <= Len(transcript[session]) /\ nth \in Nat
      BY <3>1, <3>2, WindowOf DEF TypeInv, TypeOK
    <3>4. SubSeq(transcript[session], 1, boundary[session] + nth - 1) \in Seq(Messages)
      BY <3>1, <3>3, Prefix
    <3> QED BY <1>4, <3>1, <3>4 DEF Rewind, ForkBefore, TypeInv, TypeOK, StoreTypeOK
  <2>3. TurnTypeOK' /\ LadderTypeOK' /\ PastTypeOK'
    <3>1. TurnTypeOK' /\ left' \in BOOLEAN
      BY <1>4, Empty DEF Rewind, ResetAgent, TurnTypeOK
    <3>2. LadderTypeOK' /\ moved' \in BOOLEAN
      BY <1>4, LadderCloses, Parts DEF Rewind
    <3> QED BY <1>4, <3>1, <3>2 DEF Rewind, TypeInv, TypeOK, PastTypeOK
  <2> QED BY <1>4, <2>1, <2>2, <2>3, Frames, Parts DEF Rewind
<1> QED BY <1>1, <1>2, <1>3, <1>4

LEMMA TypeProcess ==
  ASSUME TypeInv, WriteSettles \/ WriteFails \/ Relaunch
  PROVE  TypeInv'
<1>1. CASE WriteSettles \/ WriteFails
  <2>1. SessionInv'
    BY <1>1, HeadLeaves, Parts DEF WriteSettles, WriteFails
  <2>2. PastTypeOK'
    BY <1>1 DEF WriteSettles, WriteFails, TypeInv, TypeOK, PastTypeOK
  <2> QED BY <1>1, <2>1, <2>2, Frames, Parts DEF WriteSettles, WriteFails
<1>2. CASE Relaunch
  <2>1. SessionInv' /\ resumed' \in BOOLEAN
    <3>1. CASE pointer # None
      <4>1. /\ session' = pointer /\ pointer' = pointer /\ writes' = <<>>
            /\ used' = used \union {pointer} /\ resumed' = TRUE
        BY <1>2, <3>1 DEF Relaunch
      <4> QED BY <3>1, <4>1, Empty DEF SessionInv, QueuedLast, TypeInv, TypeOK,
                                       SessionTypeOK
    <3>2. CASE pointer = None
      <4>1. PICK s \in Sessions : /\ session' = s /\ used' = used \union {s}
                                  /\ writes' = <<s>> /\ resumed' = FALSE
        BY <1>2, <3>2 DEF Relaunch
      <4>2. /\ writes' \in Seq(Sessions) /\ writes' # <<>>
            /\ writes'[Len(writes')] = s
        BY <4>1
      <4> QED BY <1>2, <4>1, <4>2 DEF Relaunch, SessionInv, QueuedLast, TypeInv, TypeOK,
                                     SessionTypeOK
    <3> QED BY <3>1, <3>2
  <2>2. TurnTypeOK' /\ ScreenTypeOK' /\ LadderTypeOK'
    <3>1. TurnTypeOK'
      BY <1>2, Empty DEF Relaunch, ResetAgent, TurnTypeOK
    <3>2. ScreenTypeOK'
      BY <1>2, <2>1, Empty DEF Relaunch, ScreenTypeOK
    <3>3. previews' \in Seq(Messages) /\ nth' \in 0 .. Len(previews') /\ priming' = None
      BY <1>2, Empty DEF Relaunch
    <3> QED BY <3>1, <3>2, <3>3 DEF LadderTypeOK
  <2>3. AwaitTypeOK' /\ PastTypeOK'
    BY <1>2 DEF Relaunch, ResetAgent, AwaitTypeOK, PastTypeOK
  <2> QED BY <1>2, <2>1, <2>2, <2>3, Frames, Parts DEF Relaunch
<1> QED BY <1>1, <1>2

LEMMA TypeStep == TypeInv /\ [Next]_vars => TypeInv'
<1> SUFFICES ASSUME TypeInv, [Next]_vars PROVE TypeInv'
  OBVIOUS
<1>1. CASE Command
  BY <1>1, TypeTurn, TypeCommand, Parts DEF Command, SessionInv, SessionTypeOK
<1>2. CASE Key
  BY <1>2, TypeCommand, TypeLadder, Parts DEF Key, SessionInv, SessionTypeOK
<1>3. CASE Lands
  BY <1>3, TypeLands
<1>4. CASE OpenTurn \/ TurnEnds
  BY <1>4, TypeTurn
<1>5. CASE Render \/ HistoryArrives
  BY <1>5, TypeScreen
<1>6. CASE WriteSettles \/ WriteFails \/ Relaunch
  BY <1>6, TypeProcess
<1>7. CASE UNCHANGED vars
  <2>1. /\ UNCHANGED <<sessionVars, lostWrite>> /\ UNCHANGED storeVars
        /\ UNCHANGED turnVars /\ UNCHANGED screenVars /\ UNCHANGED awaits
        /\ UNCHANGED ladder /\ UNCHANGED past
    BY <1>7 DEF vars, code, past
  <2> QED BY <2>1, Frames, Parts
<1> QED BY <1>1, <1>2, <1>3, <1>4, <1>5, <1>6, <1>7 DEF Next

(* The variables of a TUI's session hold what they are meant to, and the   *)
(* rung selected is one of the ladder's.                                   *)
THEOREM TypeCorrect == Spec => []TypeOK
<1>1. TypeInv => TypeOK
  BY DEF TypeInv
<1> QED BY <1>1, TypeInit, TypeStep, PTL DEF Spec

(* The pointer file, once what is queued is written and nothing was lost,  *)
(* names the session on the screen, whichever path switched it last.       *)
THEOREM PointerKept == Spec => []PointerFollows
<1>1. TypeInv => PointerFollows
  BY DEF TypeInv, QueuedLast, PointerFollows
<1> QED BY <1>1, TypeInit, TypeStep, PTL DEF Spec

-----------------------------------------------------------------------------
(***************************************************************************)
(* The turn.                                                               *)
(***************************************************************************)

LEMMA TurnStep == TurnInv /\ [Next]_vars => TurnInv'
<1> SUFFICES ASSUME TurnInv, [Next]_vars PROVE TurnIsOnScreen' /\ SentUnderResume'
  BY TypeStep DEF TurnInv
<1> USE DEF TurnInv, TurnIsOnScreen, SentUnderResume
<1>1. ASSUME NEW m \in Messages, Send(m) PROVE TurnIsOnScreen' /\ SentUnderResume'
  BY <1>1 DEF Send, sessionVars, awaits
<1>2. CASE OpenTurn
  BY <1>2 DEF OpenTurn, sessionVars, awaits
<1>3. CASE TurnEnds \/ Relaunch \/ \E s \in Sessions : New(s) \/ Rewind(s)
  BY <1>3 DEF TurnEnds, AbortTurn, Relaunch, ResetAgent, New, Rewind
<1>4. CASE Interrupt
  BY <1>4 DEF Interrupt, AbortTurn
<1>5. ASSUME NEW s \in Sessions, Fork(s) PROVE TurnIsOnScreen' /\ SentUnderResume'
  BY <1>5 DEF Fork, ForkCurrent, LeavesTurn, turnVars, awaits
<1>6. CASE Archive \/ Compact \/ \E s \in Sessions : Resume(s)
  BY <1>6 DEF Archive, Compact, Resume, sessionVars, turnVars, past
<1>7. CASE ResumeLands
  BY <1>7 DEF ResumeLands, ResumeOver, turnVars
<1>8. CASE ArchiveLands
  BY <1>8 DEF ArchiveLands, LeavesTurn, turnVars
<1>9. CASE ResumeRefused
  BY <1>9 DEF ResumeRefused, ResumeOver, sessionVars, turnVars
<1>10. CASE \/ ArchiveFails \/ CompactLands \/ CompactFails
            \/ PrimeLands \/ PrimeFails \/ Prime \/ Advance
  BY <1>10 DEF ArchiveFails, CompactLands, CompactFails, PrimeLands, PrimeFails, Prime,
               Advance, sessionVars, turnVars, awaits, past
<1>11. CASE ResetLadder \/ RewindFails \/ RewindThrows
  BY <1>11 DEF ResetLadder, RewindFails, RewindThrows, sessionVars, turnVars, awaits
<1>12. CASE Render \/ HistoryArrives \/ WriteSettles \/ WriteFails
  BY <1>12 DEF Render, HistoryArrives, WriteSettles, WriteFails, sessionVars, turnVars,
               awaits, past
<1>13. CASE UNCHANGED vars
  BY <1>13 DEF vars, code, past, sessionVars, turnVars, awaits
<1> QED BY <1>1, <1>2, <1>3, <1>4, <1>5, <1>6, <1>7, <1>8, <1>9, <1>10, <1>11, <1>12,
           <1>13 DEF Next, Command, Key, Lands

(* A turn streams into the session on the screen, unless it was forked or  *)
(* archived under it, or sent while a /resume was still listing.           *)
THEOREM TurnOnScreen == Spec => []TurnIsOnScreen
<1>1. Init => TurnInv
  BY TypeInit DEF Init, TurnInv, TurnIsOnScreen, SentUnderResume
<1>2. TurnInv => TurnIsOnScreen
  BY DEF TurnInv
<1> QED BY <1>1, <1>2, TurnStep, PTL DEF Spec

-----------------------------------------------------------------------------
(***************************************************************************)
(* The ladder.                                                             *)
(***************************************************************************)

(* The rungs stay those of the session while its transcript only grows.    *)
LEMMA LadderFrame ==
  ASSUME LadderInv, UNCHANGED <<session, priming, previews, moved>>,
         boundary'[session] = boundary[session],
         \/ transcript'[session] = transcript[session]
         \/ \E m \in Messages : transcript'[session] = Append(transcript[session], m)
  PROVE  LadderOfSession'
<1>1. /\ boundary[session] \in Nat /\ transcript[session] \in Seq(Messages)
      /\ Len(transcript[session]) \in Nat
  BY LenProperties DEF LadderInv, TypeInv, TypeOK, SessionTypeOK, StoreTypeOK
<1>2. /\ Len(transcript'[session]) \in Nat
      /\ Len(transcript[session]) <= Len(transcript'[session])
      /\ \A i \in 1 .. Len(transcript[session]) :
           transcript'[session][i] = transcript[session][i]
  BY <1>1, Appended
<1>3. ASSUME ~moved, NEW i \in 1 .. Len(previews) PROVE ShownInWindow(i)'
  <2>1. ShownInWindow(i) /\ i \in Nat \ {0}
    BY <1>3 DEF LadderInv, LadderOfSession
  <2>2. boundary[session] + i \in 1 .. Len(transcript[session])
    BY <1>1, <2>1 DEF ShownInWindow
  <2> QED BY <1>1, <1>2, <2>1, <2>2 DEF ShownInWindow
<1> QED BY <1>3 DEF LadderInv, LadderOfSession

(* A switch, and a compaction, moves the ladder away if there is one.      *)
LEMMA LadderMoves ==
  ASSUME LadderInv, MovesLadder, UNCHANGED <<priming, previews>>
  PROVE  LadderOfSession'
<1>1. CASE moved'
  BY <1>1 DEF LadderInv, LadderOfSession
<1>2. CASE ~moved'
  <2>1. priming = None /\ previews = <<>>
    BY <1>2 DEF MovesLadder, armed
  <2>2. priming' = None /\ Len(previews') = 0
    BY <2>1, Empty
  <2> QED BY <2>2 DEF LadderOfSession
<1> QED BY <1>1, <1>2 DEF LadderInv, TypeInv, TypeOK, PastTypeOK

LEMMA NoLadder ==
  ASSUME previews' = <<>>, priming' = None
  PROVE  LadderOfSession'
<1>1. Len(previews') = 0
  BY Empty
<1> QED BY <1>1 DEF LadderOfSession

LEMMA LadderStep == LadderInv /\ [Next]_vars => LadderInv'
<1> SUFFICES ASSUME LadderInv, [Next]_vars PROVE LadderOfSession'
  BY TypeStep DEF LadderInv
<1>1. CASE OpenTurn
  <2>1. message \in Messages /\ session \in Sessions
    BY <1>1 DEF OpenTurn, LadderInv, TypeInv, TypeOK, TurnTypeOK, SessionTypeOK
  <2>2. /\ transcript'[session] = Append(transcript[session], message)
        /\ boundary' = boundary
    BY <1>1, <2>1 DEF OpenTurn, LadderInv, TypeInv, TypeOK, StoreTypeOK
  <2> QED BY <1>1, <2>1, <2>2, LadderFrame DEF OpenTurn, sessionVars, ladder
<1>2. CASE \/ TurnEnds \/ Render \/ HistoryArrives \/ WriteSettles \/ WriteFails
           \/ Archive \/ Compact \/ Advance
           \/ ResumeRefused \/ ArchiveFails \/ CompactFails
           \/ (\E m \in Messages : Send(m)) \/ (\E s \in Sessions : Resume(s))
           \/ UNCHANGED vars
  <2>1. UNCHANGED <<session, priming, previews, moved, transcript, boundary>>
    BY <1>2 DEF TurnEnds, Render, HistoryArrives, WriteSettles, WriteFails, Archive,
       Compact, Advance, ResumeRefused, ArchiveFails, CompactFails, Send, Resume,
       vars, code, past, sessionVars, storeVars, ladder
  <2> QED BY <2>1, LadderFrame
<1>3. CASE \/ ResumeLands \/ ArchiveLands \/ CompactLands
           \/ \E s \in Sessions : New(s) \/ Fork(s)
  <2>1. MovesLadder /\ UNCHANGED <<priming, previews>>
    BY <1>3 DEF ResumeLands, ArchiveLands, CompactLands, New, Fork, ForkCurrent, ladder
  <2> QED BY <2>1, LadderMoves
<1>4. CASE Interrupt
  <2>1. ASSUME NEW s \in Sessions, ForkCurrent(s) PROVE LadderOfSession'
    BY <2>1, LadderMoves DEF ForkCurrent, ladder
  <2>2. CASE UNCHANGED <<sessionVars, storeVars, screenVars, awaits, ladder, sentSince,
                         moved, mixed, lostWrite>>
    BY <2>2, LadderFrame DEF sessionVars, storeVars, ladder
  <2> QED BY <1>4, <2>1, <2>2 DEF Interrupt
<1>5. CASE Prime
  <2>1. previews' = <<>> /\ priming' = session /\ session' = session
    BY <1>5 DEF Prime, armed, sessionVars
  <2>2. Len(previews') = 0
    BY <2>1, Empty
  <2> QED BY <2>1, <2>2 DEF LadderOfSession
<1>6. CASE PrimeLands
  <2>1. /\ priming' = None /\ previews' = Window(priming) /\ moved' = moved
        /\ UNCHANGED <<session, transcript, boundary>> /\ priming \in Sessions
    BY <1>6 DEF PrimeLands, past, sessionVars, storeVars, LadderInv, TypeInv, TypeOK,
                LadderTypeOK
  <2>2. ASSUME ~moved, NEW i \in 1 .. Len(previews') PROVE ShownInWindow(i)'
    <3>1. previews' = Window(session) /\ session \in Sessions
      BY <1>6, <2>1, <2>2 DEF PrimeLands, LadderInv, LadderOfSession
    <3>2. /\ boundary[session] + i <= Len(transcript[session])
          /\ previews'[i] = transcript[session][boundary[session] + i]
      BY <2>2, <3>1, WindowOf DEF LadderInv, TypeInv, TypeOK
    <3> QED BY <2>1, <3>2 DEF ShownInWindow
  <2> QED BY <2>1, <2>2 DEF LadderOfSession
<1>7. CASE PrimeFails \/ Relaunch
  BY <1>7, NoLadder DEF PrimeFails, Relaunch, LadderInv, LadderOfSession
<1>8. CASE \/ ResetLadder \/ RewindFails \/ RewindThrows
           \/ \E s \in Sessions : Rewind(s)
  <2>1. previews # <<>> /\ previews' = <<>> /\ priming' = priming
    BY <1>8 DEF ResetLadder, RewindFails, RewindThrows, Rewind, CloseLadder, armed
  <2> QED BY <2>1, NoLadder DEF LadderInv, LadderOfSession
<1> QED BY <1>1, <1>2, <1>3, <1>4, <1>5, <1>6, <1>7, <1>8
        DEF Next, Command, Key, Lands

LEMMA RewindStep ==
  ASSUME LadderInv, (\E s \in Sessions : Rewind(s)) \/ RewindFails, ~moved
  PROVE  /\ session' # session
         /\ transcript[session][Len(transcript'[session']) + 1] = previews[nth]
<1>1. /\ session \in Sessions /\ session \in used
      /\ transcript[session] \in Seq(Messages) /\ Len(transcript[session]) \in Nat
      /\ boundary[session] \in Nat
  BY LenProperties DEF LadderInv, TypeInv, TypeOK, QueuedLast, SessionTypeOK, StoreTypeOK
<1>2. nth \in 1 .. Len(previews)
  BY LenProperties DEF Rewind, RewindFails, LadderInv, TypeInv, TypeOK, LadderTypeOK
<1>3. ShownInWindow(nth)
  BY <1>2 DEF LadderInv, LadderOfSession
<1>4. nth <= Len(Window(session))
  BY <1>1, <1>2, <1>3, WindowOf, LenProperties DEF ShownInWindow, LadderInv, TypeInv, TypeOK
<1>5. PICK s \in Sessions : Rewind(s)
  <2>1. Len(Window(session)) \in Nat
    BY <1>1, WindowOf, LenProperties DEF LadderInv, TypeInv, TypeOK
  <2> QED BY <1>2, <1>4, <2>1 DEF RewindFails
<1>6. session' = s /\ s # session
  BY <1>1, <1>5 DEF Rewind, Generated, SwitchTo
<1>7. transcript'[s] = SubSeq(transcript[session], 1, boundary[session] + nth - 1)
  BY <1>5 DEF Rewind, ForkBefore, LadderInv, TypeInv, TypeOK, StoreTypeOK
<1>8. Len(transcript'[s]) = boundary[session] + nth - 1
  <2>1. /\ boundary[session] + nth - 1 \in Nat
        /\ boundary[session] + nth - 1 <= Len(transcript[session])
    BY <1>1, <1>2, <1>3 DEF ShownInWindow
  <2> QED BY <1>1, <1>7, <2>1, Prefix
<1>9. Len(transcript'[s]) + 1 = boundary[session] + nth
  BY <1>1, <1>2, <1>8
<1> QED BY <1>3, <1>6, <1>9 DEF ShownInWindow

(* A rewind cuts the transcript at the very turn the ladder shows, and     *)
(* does not fail for want of it, unless the session was switched or        *)
(* compacted since Esc asked for the ladder.                               *)
THEOREM RewindsWhereShown == Spec => RewindCutsWhatItShows
<1>1. Init => LadderInv
  BY TypeInit, Empty DEF Init, LadderInv, LadderOfSession
<1>2. LadderInv /\ [Next]_vars =>
        [(\E s \in Sessions : Rewind(s)) \/ RewindFails =>
           \/ moved
           \/ /\ session' # session
              /\ transcript[session][Len(transcript'[session']) + 1] = previews[nth]]_vars
  BY RewindStep
<1> QED BY <1>1, <1>2, LadderStep, PTL DEF Spec, RewindCutsWhatItShows

-----------------------------------------------------------------------------
(***************************************************************************)
(* The screen.  The messages of a conversation differ, and those of a      *)
(* transcript: what is drawn is compared by its sets of messages.          *)
(***************************************************************************)
Distinct(seq) == \A i, j \in DOMAIN seq : seq[i] = seq[j] => i = j
Written(m) == \E s \in Sessions : m \in Elements(transcript[s])

(* Every message was sent, once; and the one that is about to be written   *)
(* is in no transcript yet.                                                *)
SentOnce ==
  /\ Elements(thread) \subseteq sent
  /\ \A s \in Sessions : Elements(transcript[s]) \subseteq sent
  /\ phase = "starting" => message \in sent /\ ~Written(message)

NoneTwice ==
  /\ \A s \in Sessions : Distinct(transcript[s])
  /\ Distinct(thread) /\ Distinct(history)

(* A session with a transcript, and the one that was drawn, has its id for *)
(* good: no fork writes over it.                                           *)
UsedForGood ==
  /\ \A s \in Sessions : transcript[s] # <<>> => s \in used
  /\ drawnFor[1] \in used \union {None}

(* What is read is what will be drawn, and what was drawn is in the        *)
(* transcript it was read from.                                            *)
DrawnAsRead ==
  /\ reading # None => drawnFor = <<reading, TRUE>>
  /\ history # <<>> =>
       /\ drawnFor[1] # None
       /\ Elements(history) \subseteq Elements(transcript[drawnFor[1]])

(* The live conversation is the session's, is not in what was drawn, and   *)
(* not in what is still to be read.                                        *)
ThreadOfSession ==
  \A m \in Elements(thread) : Written(m) => m \in Elements(transcript[session])
DrawnApart == Rendered => Elements(history) \intersect Elements(thread) = {}
ToBeReadApart ==
  resumed /\ (reading # None \/ ~Rendered) => \A m \in Elements(thread) : ~Written(m)

ThreadApart == ~mixed => ThreadOfSession /\ DrawnApart /\ ToBeReadApart

ScreenInv ==
  /\ TypeInv
  /\ SentOnce /\ NoneTwice
  /\ UsedForGood /\ DrawnAsRead
  /\ ThreadApart

LEMMA ElementsEmpty == Elements(<<>>) = {} /\ Distinct(<<>>)
BY DEF Elements, Distinct

LEMMA ElementsAppended ==
  ASSUME NEW S, NEW seq \in Seq(S), NEW e \in S
  PROVE  /\ Elements(Append(seq, e)) = Elements(seq) \union {e}
         /\ Distinct(seq) /\ e \notin Elements(seq) => Distinct(Append(seq, e))
<1> DEFINE a == Append(seq, e)
<1>1. /\ Len(seq) \in Nat /\ DOMAIN seq = 1 .. Len(seq)
      /\ DOMAIN a = 1 .. Len(seq) + 1 /\ a[Len(seq) + 1] = e
      /\ \A i \in 1 .. Len(seq) : a[i] = seq[i]
  BY Appended, LenProperties
<1> HIDE DEF a
<1>2. Elements(a) = Elements(seq) \union {e}
  BY <1>1 DEF Elements
<1>3. ASSUME Distinct(seq), e \notin Elements(seq) PROVE Distinct(a)
  BY <1>1, <1>3 DEF Elements, Distinct
<1> QED BY <1>2, <1>3 DEF a

LEMMA ElementsOfPrefix ==
  ASSUME NEW S, NEW seq \in Seq(S), NEW n \in Int, n <= Len(seq)
  PROVE  /\ Elements(SubSeq(seq, 1, n)) \subseteq Elements(seq)
         /\ Distinct(seq) => Distinct(SubSeq(seq, 1, n))
<1> DEFINE p == SubSeq(seq, 1, n)
<1>1. /\ Len(seq) \in Nat /\ DOMAIN seq = 1 .. Len(seq)
      /\ \A i \in 1 .. n : seq[i] \in S
  BY ElementOfSeq, LenProperties
<1>2. DOMAIN p = 1 .. n /\ \A i \in 1 .. n : p[i] = seq[i]
  <2>1. /\ p \in Seq(S) /\ Len(p) = IF 1 <= n THEN n - 1 + 1 ELSE 0
        /\ \A i \in 1 .. n - 1 + 1 : p[i] = seq[1 + i - 1]
    BY <1>1, SubSeqProperties
  <2> QED BY <2>1, LenProperties
<1> HIDE DEF p
<1>3. Elements(p) \subseteq Elements(seq) /\ (Distinct(seq) => Distinct(p))
  BY <1>1, <1>2 DEF Elements, Distinct
<1> QED BY <1>3 DEF p

LEMMA ElementsJoined ==
  ASSUME NEW S, NEW a \in Seq(S), NEW b \in Seq(S)
  PROVE  /\ Elements(a \o b) = Elements(a) \union Elements(b)
         /\ /\ Distinct(a) /\ Distinct(b)
            /\ Elements(a) \intersect Elements(b) = {}
            => Distinct(a \o b)
<1> DEFINE c == a \o b
<1>1. /\ Len(a) \in Nat /\ DOMAIN a = 1 .. Len(a)
      /\ Len(b) \in Nat /\ DOMAIN b = 1 .. Len(b)
  BY LenProperties
<1>2. /\ DOMAIN c = 1 .. Len(a) + Len(b)
      /\ \A i \in 1 .. Len(a) : c[i] = a[i]
      /\ \A i \in 1 .. Len(b) : c[Len(a) + i] = b[i]
  <2>1. /\ c \in Seq(S) /\ Len(c) = Len(a) + Len(b)
        /\ \A i \in 1 .. Len(a) + Len(b) :
             c[i] = IF i <= Len(a) THEN a[i] ELSE b[i - Len(a)]
    BY ConcatProperties
  <2> HIDE DEF c
  <2>2. DOMAIN c = 1 .. Len(a) + Len(b)
    BY <2>1, LenProperties
  <2> QED BY <1>1, <2>1, <2>2
<1> HIDE DEF c
<1>3. ASSUME NEW i \in DOMAIN c
      PROVE  \/ i \in DOMAIN a /\ c[i] = a[i]
             \/ \E j \in DOMAIN b : i = Len(a) + j /\ c[i] = b[j]
  <2>1. CASE i <= Len(a)
    BY <1>1, <1>2, <2>1
  <2>2. CASE ~(i <= Len(a))
    <3>1. i - Len(a) \in DOMAIN b /\ i = Len(a) + (i - Len(a))
      BY <1>1, <1>2, <2>2
    <3> QED BY <1>1, <1>2, <3>1
  <2> QED BY <2>1, <2>2
<1>4. Elements(c) = Elements(a) \union Elements(b)
  <2>1. Elements(c) \subseteq Elements(a) \union Elements(b)
    BY <1>3 DEF Elements
  <2>2. /\ \A i \in DOMAIN a : i \in DOMAIN c /\ c[i] = a[i]
        /\ \A i \in DOMAIN b : Len(a) + i \in DOMAIN c /\ c[Len(a) + i] = b[i]
    BY <1>1, <1>2
  <2>3. Elements(a) \union Elements(b) \subseteq Elements(c)
    BY <2>2, Zenon DEF Elements
  <2> QED BY <2>1, <2>3
<1>5. ASSUME Distinct(a), Distinct(b), Elements(a) \intersect Elements(b) = {}
      PROVE  Distinct(c)
  <2>1. SUFFICES ASSUME NEW i \in DOMAIN c, NEW j \in DOMAIN c, c[i] = c[j] PROVE i = j
    BY DEF Distinct
  <2>2. \A k \in DOMAIN a, l \in DOMAIN b : a[k] # b[l]
    BY <1>5 DEF Elements
  <2>3. CASE i \in DOMAIN a /\ c[i] = a[i]
    BY <1>3, <1>5, <2>1, <2>2, <2>3 DEF Distinct
  <2>4. CASE \E k \in DOMAIN b : i = Len(a) + k /\ c[i] = b[k]
    BY <1>3, <1>5, <2>1, <2>2, <2>4 DEF Distinct
  <2> QED BY <1>3, <2>3, <2>4
<1> QED BY <1>4, <1>5 DEF c

(***************************************************************************)
(* The screen, action by action.                                           *)
(***************************************************************************)

(* The facts about the types that these proofs keep needing.               *)
LEMMA ScreenFacts ==
  ASSUME ScreenInv
  PROVE  /\ session \in Sessions /\ session \in used /\ used \subseteq Sessions
         /\ transcript \in [Sessions -> Seq(Messages)]
         /\ None \notin Sessions
         /\ thread \in Seq(Messages) /\ history \in Seq(Messages)
         /\ drawnFor \in (Sessions \union {None}) \X BOOLEAN
         /\ reading \in Sessions \union {None}
         /\ resumed \in BOOLEAN /\ mixed \in BOOLEAN
BY DEF ScreenInv, TypeInv, TypeOK, QueuedLast, SessionTypeOK, StoreTypeOK, TurnTypeOK,
       ScreenTypeOK, PastTypeOK

(* What a step leaves alone.                                               *)
LEMMA ScreenFrame ==
  ASSUME ScreenInv,
         UNCHANGED <<session, transcript, sent, thread, mixed>>, UNCHANGED screenVars,
         used \subseteq used', phase' = "starting" => phase = "starting" /\ message' = message
  PROVE  SentOnce' /\ NoneTwice' /\ UsedForGood' /\ DrawnAsRead' /\ ThreadApart'
<1>1. UNCHANGED <<resumed, drawnFor, reading, history>>
  BY DEF screenVars
<1>2. SentOnce'
  BY DEF ScreenInv, SentOnce, Written
<1>3. NoneTwice'
  BY <1>1 DEF ScreenInv, NoneTwice
<1>4. UsedForGood'
  BY <1>1 DEF ScreenInv, UsedForGood
<1>5. DrawnAsRead'
  BY <1>1 DEF ScreenInv, DrawnAsRead
<1>6. ThreadApart'
  BY <1>1 DEF ScreenInv, ThreadApart, ThreadOfSession, DrawnApart, ToBeReadApart, Written,
              Rendered
<1> QED BY <1>2, <1>3, <1>4, <1>5, <1>6

(* With no live conversation there is nothing to mix.                      *)
LEMMA NoThread ==
  ASSUME thread' = <<>>
  PROVE  ThreadApart' /\ Elements(thread)' = {}
<1>1. Elements(thread)' = {}
  BY ElementsEmpty DEF Elements
<1> QED BY <1>1 DEF ThreadApart, ThreadOfSession, DrawnApart, ToBeReadApart

LEMMA ScreenSend ==
  ASSUME ScreenInv, NEW m \in Messages, Send(m)
  PROVE  SentOnce' /\ NoneTwice' /\ UsedForGood' /\ DrawnAsRead' /\ ThreadApart'
<1>1. /\ phase' = "starting" /\ message' = m /\ sent' = sent \union {m}
      /\ thread' = Append(thread, m) /\ m \notin sent
      /\ UNCHANGED <<session, used, transcript, resumed, drawnFor, reading, history, mixed>>
  BY DEF Send, sessionVars, screenVars
<1>2. Elements(thread') = Elements(thread) \union {m}
  BY <1>1, ScreenFacts, ElementsAppended
<1>3. m \notin Elements(thread) /\ ~Written(m)
  BY <1>1 DEF ScreenInv, SentOnce, Written
<1>4. Distinct(thread')
  BY <1>1, <1>3, ScreenFacts, ElementsAppended DEF ScreenInv, NoneTwice
<1>5. \A n : Written(n)' <=> Written(n)
  BY <1>1 DEF Written
<1>6. m \notin Elements(history)
  <2>1. CASE history = <<>>
    BY <2>1, ElementsEmpty
  <2>2. CASE history # <<>>
    <3>1. drawnFor[1] \in Sessions
      BY <2>2, ScreenFacts DEF ScreenInv, DrawnAsRead, UsedForGood
    <3>2. Elements(history) \subseteq Elements(transcript[drawnFor[1]])
      BY <2>2 DEF ScreenInv, DrawnAsRead
    <3> QED BY <1>3, <3>1, <3>2 DEF Written
  <2> QED BY <2>1, <2>2
<1>7. SentOnce'
  BY <1>1, <1>2, <1>3, <1>5 DEF ScreenInv, SentOnce
<1>8. NoneTwice'
  BY <1>1, <1>4 DEF ScreenInv, NoneTwice
<1>9. UsedForGood' /\ DrawnAsRead'
  BY <1>1 DEF ScreenInv, UsedForGood, DrawnAsRead
<1>10. ThreadApart'
  <2>1. ASSUME ~mixed PROVE ThreadOfSession' /\ ToBeReadApart'
    BY <1>1, <1>2, <1>3, <1>5, <2>1
       DEF ScreenInv, ThreadApart, ThreadOfSession, ToBeReadApart, Rendered
  <2>2. ASSUME ~mixed PROVE DrawnApart'
    BY <1>1, <1>2, <1>6, <2>2 DEF ScreenInv, ThreadApart, DrawnApart, Rendered
  <2> QED BY <1>1, <2>1, <2>2 DEF ThreadApart
<1> QED BY <1>7, <1>8, <1>9, <1>10

LEMMA ScreenOpenTurn ==
  ASSUME ScreenInv, OpenTurn
  PROVE  SentOnce' /\ NoneTwice' /\ UsedForGood' /\ DrawnAsRead' /\ ThreadApart'
<1>1. /\ phase = "starting" /\ phase' = "streaming"
      /\ transcript' = [transcript EXCEPT ![session] = Append(@, message)]
      /\ mixed' = (mixed \/ (resumed /\ (reading # None \/ drawnFor # <<session, TRUE>>)))
      /\ UNCHANGED <<session, used, sent, thread, resumed, drawnFor, reading, history>>
  BY DEF OpenTurn, sessionVars, screenVars
<1>2. message \in Messages /\ message \in sent /\ ~Written(message)
  BY <1>1 DEF ScreenInv, SentOnce, TypeInv, TypeOK, TurnTypeOK
<1>3. /\ transcript'[session] = Append(transcript[session], message)
      /\ transcript[session] \in Seq(Messages)
      /\ \A s \in Sessions \ {session} : transcript'[s] = transcript[s]
  BY <1>1, ScreenFacts
<1>4. /\ Elements(transcript'[session]) = Elements(transcript[session]) \union {message}
      /\ Distinct(transcript'[session])
  <2>1. message \notin Elements(transcript[session]) /\ Distinct(transcript[session])
    BY <1>2, ScreenFacts DEF ScreenInv, NoneTwice, Written
  <2> QED BY <1>2, <1>3, <2>1, ElementsAppended
<1>5. \A n : Written(n)' <=> Written(n) \/ n = message
  BY <1>3, <1>4, ScreenFacts DEF Written
<1>6. SentOnce'
  BY <1>1, <1>2, <1>3, <1>4, ScreenFacts DEF ScreenInv, SentOnce
<1>7. NoneTwice'
  BY <1>1, <1>3, <1>4 DEF ScreenInv, NoneTwice
<1>8. UsedForGood'
  BY <1>1, <1>3, ScreenFacts DEF ScreenInv, UsedForGood
<1>9. DrawnAsRead'
  <2>1. ASSUME NEW s \in Sessions
        PROVE  Elements(transcript[s]) \subseteq Elements(transcript'[s])
    BY <1>3, <1>4
  <2>2. drawnFor[1] \in Sessions \union {None}
    BY ScreenFacts
  <2> QED BY <1>1, <2>1, <2>2 DEF ScreenInv, DrawnAsRead
<1>10. ThreadApart'
  <2>1. ASSUME ~mixed' PROVE ThreadOfSession' /\ DrawnApart'
    BY <1>1, <1>4, <1>5, <2>1
       DEF ScreenInv, ThreadApart, ThreadOfSession, DrawnApart, Rendered
  <2>2. ASSUME ~mixed' PROVE ToBeReadApart'
    BY <1>1, <2>2, ScreenFacts DEF ToBeReadApart, Rendered
  <2> QED BY <2>1, <2>2 DEF ThreadApart
<1> QED BY <1>6, <1>7, <1>8, <1>9, <1>10

LEMMA ScreenRender ==
  ASSUME ScreenInv, Render
  PROVE  SentOnce' /\ NoneTwice' /\ UsedForGood' /\ DrawnAsRead' /\ ThreadApart'
<1>1. /\ ~Rendered /\ drawnFor' = <<session, resumed>> /\ history' = <<>>
      /\ reading' = IF resumed THEN session ELSE None
      /\ UNCHANGED <<session, used, transcript, sent, phase, message, thread, resumed, mixed>>
  BY DEF Render, sessionVars, storeVars, turnVars, past
<1>2. \A n : Written(n)' <=> Written(n)
  BY <1>1 DEF Written
<1>3. SentOnce'
  BY <1>1, <1>2 DEF ScreenInv, SentOnce
<1>4. NoneTwice'
  BY <1>1, ElementsEmpty DEF ScreenInv, NoneTwice
<1>5. UsedForGood' /\ DrawnAsRead'
  BY <1>1, ScreenFacts DEF ScreenInv, UsedForGood, DrawnAsRead
<1>6. ThreadApart'
  <2>1. Elements(history)' = {}
    BY <1>1, ElementsEmpty DEF Elements
  <2>2. ASSUME ~mixed PROVE ThreadOfSession'
    BY <1>1, <1>2, <2>2 DEF ScreenInv, ThreadApart, ThreadOfSession
  <2>3. ASSUME ~mixed PROVE ToBeReadApart'
    BY <1>1, <1>2, <2>3 DEF ScreenInv, ThreadApart, ToBeReadApart, Rendered
  <2> QED BY <1>1, <2>1, <2>2, <2>3 DEF ThreadApart, DrawnApart
<1> QED BY <1>3, <1>4, <1>5, <1>6

LEMMA ScreenArrives ==
  ASSUME ScreenInv, HistoryArrives
  PROVE  SentOnce' /\ NoneTwice' /\ UsedForGood' /\ DrawnAsRead' /\ ThreadApart'
<1>1. /\ reading # None /\ reading' = None
      /\ history' = transcript[reading] \/ history' = <<>>
      /\ UNCHANGED <<session, used, transcript, sent, phase, message, thread, resumed,
                     drawnFor, mixed>>
  BY DEF HistoryArrives, sessionVars, storeVars, turnVars, past
<1>2. reading \in Sessions /\ drawnFor = <<reading, TRUE>>
  BY <1>1, ScreenFacts DEF ScreenInv, DrawnAsRead
<1>3. /\ Elements(history') \subseteq Elements(transcript[reading])
      /\ Distinct(history')
  BY <1>1, <1>2, ElementsEmpty DEF ScreenInv, NoneTwice
<1>4. \A n : Written(n)' <=> Written(n)
  BY <1>1 DEF Written
<1>5. SentOnce'
  BY <1>1, <1>4 DEF ScreenInv, SentOnce
<1>6. NoneTwice'
  BY <1>1, <1>3 DEF ScreenInv, NoneTwice
<1>7. UsedForGood'
  BY <1>1 DEF ScreenInv, UsedForGood
<1>8. DrawnAsRead'
  BY <1>1, <1>2, <1>3, ScreenFacts DEF DrawnAsRead
<1>9. ThreadApart'
  <2>1. ASSUME ~mixed PROVE ThreadOfSession' /\ ToBeReadApart'
    BY <1>1, <1>4, <2>1 DEF ScreenInv, ThreadApart, ThreadOfSession, ToBeReadApart, Rendered
  <2>2. ASSUME ~mixed, Rendered PROVE Elements(history') \intersect Elements(thread) = {}
    <3>1. resumed
      <4>1. drawnFor[2] = TRUE
        BY <1>2
      <4>2. drawnFor[2] = resumed
        BY <2>2 DEF Rendered
      <4> QED BY <4>1, <4>2
    <3>2. \A m \in Elements(thread) : ~Written(m)
      BY <1>1, <2>2, <3>1 DEF ScreenInv, ThreadApart, ToBeReadApart
    <3> QED BY <1>2, <1>3, <3>2 DEF Written
  <2> QED BY <1>1, <2>1, <2>2 DEF ThreadApart, DrawnApart, Rendered
<1> QED BY <1>5, <1>6, <1>7, <1>8, <1>9

(* A fork has an id that nothing was drawn for.                            *)
LEMMA ScreenFork ==
  ASSUME ScreenInv, NEW s \in Sessions, ForkCurrent(s), thread' = thread,
         phase' = "starting" => phase = "starting" /\ message' = message
  PROVE  SentOnce' /\ NoneTwice' /\ UsedForGood' /\ DrawnAsRead' /\ ThreadApart'
<1>1. /\ s \notin used /\ session' = s /\ used' = used \union {s}
      /\ transcript' = [transcript EXCEPT ![s] = transcript[session]]
      /\ mixed' = (mixed \/ (resumed /\ thread # <<>>))
      /\ UNCHANGED <<sent, resumed, drawnFor, reading, history>>
  BY DEF ForkCurrent, Generated, SwitchTo, screenVars
<1>2. /\ transcript'[s] = transcript[session] /\ s # session
      /\ \A t \in Sessions \ {s} : transcript'[t] = transcript[t]
  BY <1>1, ScreenFacts
<1>3. transcript[s] = <<>> /\ Elements(transcript[s]) = {} /\ drawnFor[1] # s
  BY <1>1, ScreenFacts, ElementsEmpty DEF ScreenInv, UsedForGood
<1>4. \A n : Written(n)' <=> Written(n)
  BY <1>2, <1>3, ScreenFacts DEF Written
<1>5. SentOnce'
  BY <1>1, <1>2, <1>4, ScreenFacts DEF ScreenInv, SentOnce
<1>6. NoneTwice'
  BY <1>1, <1>2, ScreenFacts DEF ScreenInv, NoneTwice
<1>7. UsedForGood'
  BY <1>1, <1>2, ScreenFacts DEF ScreenInv, UsedForGood
<1>8. DrawnAsRead'
  <2>1. drawnFor[1] # None => transcript'[drawnFor[1]] = transcript[drawnFor[1]]
    BY <1>2, <1>3, ScreenFacts
  <2> QED BY <1>1, <2>1 DEF ScreenInv, DrawnAsRead
<1>9. ThreadApart'
  <2>1. ~Rendered'
    BY <1>1, <1>3 DEF Rendered
  <2>2. ASSUME ~mixed PROVE ThreadOfSession'
    BY <1>1, <1>2, <1>4, <2>2 DEF ScreenInv, ThreadApart, ThreadOfSession
  <2>3. ASSUME ~mixed' PROVE ToBeReadApart'
    BY <1>1, <2>3, ElementsEmpty DEF ToBeReadApart
  <2> QED BY <1>1, <2>1, <2>2, <2>3 DEF ThreadApart, DrawnApart
<1> QED BY <1>5, <1>6, <1>7, <1>8, <1>9

LEMMA ScreenRewind ==
  ASSUME ScreenInv, NEW s \in Sessions, Rewind(s)
  PROVE  SentOnce' /\ NoneTwice' /\ UsedForGood' /\ DrawnAsRead' /\ ThreadApart'
<1> DEFINE n == boundary[session] + nth - 1
<1>1. /\ s \notin used /\ session' = s /\ used' = used \union {s} /\ nth # 0
      /\ nth <= Len(Window(session))
      /\ transcript' = [transcript EXCEPT ![s] = SubSeq(transcript[session], 1, n)]
      /\ thread' = <<>> /\ phase' = "none"
      /\ UNCHANGED <<sent, resumed, drawnFor, reading, history>>
  BY DEF Rewind, Generated, SwitchTo, ForkBefore, ResetAgent, screenVars
<1>2. n \in Int /\ n <= Len(transcript[session])
  <2>1. StoreTypeOK /\ session \in Sessions
    BY ScreenFacts DEF ScreenInv, TypeInv, TypeOK
  <2>2. nth \in 1 .. Len(Window(session))
    <3>1. nth \in Nat
      BY LenProperties DEF ScreenInv, TypeInv, TypeOK, LadderTypeOK
    <3>2. Len(Window(session)) \in Nat
      BY <2>1, WindowOf, LenProperties
    <3> QED BY <1>1, <3>1, <3>2
  <2>3. boundary[session] + nth <= Len(transcript[session])
    BY <2>1, <2>2, WindowOf
  <2>4. boundary[session] \in Nat /\ Len(transcript[session]) \in Nat
    BY <2>1, LenProperties DEF StoreTypeOK
  <2> QED BY <2>2, <2>3, <2>4
<1> HIDE DEF n
<1>3. /\ transcript'[s] = SubSeq(transcript[session], 1, n)
      /\ \A t \in Sessions \ {s} : transcript'[t] = transcript[t]
  BY <1>1, ScreenFacts
<1>4. /\ Elements(transcript'[s]) \subseteq Elements(transcript[session])
      /\ Distinct(transcript'[s])
  <2>1. transcript[session] \in Seq(Messages) /\ Distinct(transcript[session])
    BY ScreenFacts DEF ScreenInv, NoneTwice
  <2> QED BY <1>2, <1>3, <2>1, ElementsOfPrefix
<1>5. ThreadApart' /\ Elements(thread') = {} /\ Distinct(thread')
  BY <1>1, NoThread, ElementsEmpty
<1>6. drawnFor[1] # s
  BY <1>1, ScreenFacts DEF ScreenInv, UsedForGood
<1>7. SentOnce'
  BY <1>1, <1>3, <1>4, <1>5, ScreenFacts DEF ScreenInv, SentOnce
<1>8. NoneTwice'
  BY <1>1, <1>3, <1>4, <1>5 DEF ScreenInv, NoneTwice
<1>9. UsedForGood'
  BY <1>1, <1>3, ScreenFacts DEF ScreenInv, UsedForGood
<1>10. DrawnAsRead'
  <2>1. drawnFor[1] # None => transcript'[drawnFor[1]] = transcript[drawnFor[1]]
    BY <1>3, <1>6, ScreenFacts
  <2> QED BY <1>1, <2>1 DEF ScreenInv, DrawnAsRead
<1> QED BY <1>5, <1>7, <1>8, <1>9, <1>10

(* Switches that leave the transcripts as they are: the conversation was   *)
(* reset, or the screen is mixed from now on.                              *)
LEMMA ScreenSwitch ==
  ASSUME ScreenInv, UNCHANGED <<transcript, sent>>,
         used \subseteq used',
         \/ UNCHANGED <<drawnFor, reading, history>>
         \/ drawnFor' = <<None, FALSE>> /\ reading' = None /\ history' = <<>>,
         thread' = <<>> \/ (thread' = thread /\ mixed'),
         phase' = "starting" => phase = "starting" /\ message' = message
  PROVE  SentOnce' /\ NoneTwice' /\ UsedForGood' /\ DrawnAsRead' /\ ThreadApart'
<1>1. /\ Elements(thread') \subseteq Elements(thread)
      /\ Distinct(thread') /\ Distinct(history')
  BY ElementsEmpty DEF ScreenInv, NoneTwice
<1>2. \A n : Written(n)' <=> Written(n)
  BY DEF Written
<1>3. SentOnce'
  BY <1>1, <1>2 DEF ScreenInv, SentOnce
<1>4. NoneTwice'
  BY <1>1 DEF ScreenInv, NoneTwice
<1>5. UsedForGood'
  <2>1. drawnFor'[1] = drawnFor[1] \/ drawnFor'[1] = None
    <3>1. CASE UNCHANGED <<drawnFor, reading, history>>
      BY <3>1
    <3>2. CASE drawnFor' = <<None, FALSE>>
      BY <3>2
    <3> QED BY <3>1, <3>2
  <2> QED BY <2>1 DEF ScreenInv, UsedForGood
<1>6. DrawnAsRead'
  BY DEF ScreenInv, DrawnAsRead
<1>7. ThreadApart'
  BY NoThread DEF ThreadApart
<1> QED BY <1>3, <1>4, <1>5, <1>6, <1>7

LEMMA ScreenInit == Init => ScreenInv
<1> SUFFICES ASSUME Init PROVE ScreenInv
  OBVIOUS
<1>1. TypeInv /\ None \notin Sessions
  BY TypeInit
<1>2. /\ phase = "none" /\ thread = <<>> /\ history = <<>> /\ reading = None
      /\ drawnFor = <<None, FALSE>>
      /\ used = {session} \union {s \in Sessions : transcript[s] # <<>>}
      /\ sent = UNION {Elements(transcript[s]) : s \in Sessions}
      /\ \A s \in Sessions : transcript[s] \in {<<>>} \union {<<m>> : m \in Messages}
  BY DEF Init
<1>3. SentOnce
  <2>1. \A s \in Sessions : Elements(transcript[s]) \subseteq sent
    BY <1>2, Zenon
  <2> QED BY <1>2, <2>1, ElementsEmpty DEF SentOnce
<1>4. NoneTwice
  <2>1. \A m : Distinct(<<m>>)
    BY DEF Distinct
  <2> QED BY <1>2, <2>1, ElementsEmpty DEF NoneTwice
<1>5. UsedForGood /\ DrawnAsRead
  BY <1>2 DEF UsedForGood, DrawnAsRead
<1>6. ThreadApart
  BY <1>2, ElementsEmpty DEF ThreadApart, ThreadOfSession, DrawnApart, ToBeReadApart
<1> QED BY <1>1, <1>3, <1>4, <1>5, <1>6 DEF ScreenInv

LEMMA ScreenStep == ScreenInv /\ [Next]_vars => ScreenInv'
<1> DEFINE Goal == SentOnce' /\ NoneTwice' /\ UsedForGood' /\ DrawnAsRead' /\ ThreadApart'
<1> SUFFICES ASSUME ScreenInv, [Next]_vars PROVE Goal
  BY TypeStep DEF ScreenInv
<1>1. ASSUME NEW m \in Messages, Send(m) PROVE Goal
  BY <1>1, ScreenSend
<1>2. CASE OpenTurn
  BY <1>2, ScreenOpenTurn
<1>3. CASE Render \/ HistoryArrives
  BY <1>3, ScreenRender, ScreenArrives
<1>4. ASSUME NEW s \in Sessions, New(s) PROVE Goal
  BY <1>4, ScreenSwitch DEF New, SwitchTo, ResetAgent, storeVars
<1>5. ASSUME NEW s \in Sessions, Fork(s) PROVE Goal
  BY <1>5, ScreenFork DEF Fork, turnVars
<1>6. ASSUME NEW s \in Sessions, Rewind(s) PROVE Goal
  BY <1>6, ScreenRewind
<1>7. CASE Interrupt
  <2>1. phase' = "none" /\ thread' = thread
    BY <1>7 DEF Interrupt, AbortTurn
  <2>2. ASSUME NEW s \in Sessions, ForkCurrent(s) PROVE Goal
    BY <2>1, <2>2, ScreenFork
  <2>3. CASE UNCHANGED <<sessionVars, storeVars, screenVars, awaits, ladder, sentSince,
                         moved, mixed, lostWrite>>
    BY <2>1, <2>3, ScreenFrame DEF sessionVars, storeVars
  <2> QED BY <1>7, <2>2, <2>3 DEF Interrupt
<1>8. CASE ResumeLands
  <2>1. /\ used \subseteq used' /\ UNCHANGED <<transcript, sent, thread, phase, message>>
        /\ UNCHANGED <<drawnFor, reading, history>>
        /\ mixed' = (mixed \/ thread # <<>>)
    BY <1>8 DEF ResumeLands, SwitchTo, storeVars, turnVars
  <2> QED BY <2>1, ScreenSwitch
<1>9. CASE ArchiveLands
  <2>1. /\ used \subseteq used' /\ UNCHANGED <<transcript, sent, thread, phase, message>>
        /\ UNCHANGED <<drawnFor, reading, history>>
        /\ mixed' = (mixed \/ thread # <<>>)
    BY <1>9 DEF ArchiveLands, SwitchTo, storeVars, turnVars, screenVars
  <2> QED BY <2>1, ScreenSwitch
<1>10. CASE Relaunch
  <2>1. /\ used \subseteq used' /\ thread' = <<>> /\ phase' = "none"
        /\ UNCHANGED <<transcript, sent>>
        /\ drawnFor' = <<None, FALSE>> /\ reading' = None /\ history' = <<>>
    BY <1>10 DEF Relaunch, ResetAgent, storeVars
  <2> QED BY <2>1, ScreenSwitch
<1>11. CASE TurnEnds
  BY <1>11, ScreenFrame DEF TurnEnds, AbortTurn, sessionVars, storeVars
<1>12. CASE Archive \/ Compact \/ \E s \in Sessions : Resume(s)
  BY <1>12, ScreenFrame DEF Archive, Compact, Resume, sessionVars, storeVars, turnVars, past
<1>13. CASE ResumeRefused \/ ArchiveFails \/ CompactLands \/ CompactFails
  BY <1>13, ScreenFrame DEF ResumeRefused, ArchiveFails, CompactLands, CompactFails,
     sessionVars, storeVars, turnVars, past
<1>14. CASE PrimeLands \/ PrimeFails \/ Prime \/ Advance
  BY <1>14, ScreenFrame DEF PrimeLands, PrimeFails, Prime, Advance, sessionVars, storeVars,
     turnVars, past
<1>15. CASE ResetLadder \/ RewindFails \/ RewindThrows
  BY <1>15, ScreenFrame DEF ResetLadder, RewindFails, RewindThrows, sessionVars, storeVars,
     turnVars
<1>16. CASE WriteSettles \/ WriteFails
  BY <1>16, ScreenFrame DEF WriteSettles, WriteFails, storeVars, turnVars
<1>17. CASE UNCHANGED vars
  BY <1>17, ScreenFrame DEF vars, code, past, sessionVars, storeVars, turnVars
<1> HIDE DEF Goal
<1> QED BY <1>1, <1>2, <1>3, <1>4, <1>5, <1>6, <1>7, <1>8, <1>9, <1>10, <1>11, <1>12,
           <1>13, <1>14, <1>15, <1>16, <1>17 DEF Next, Command, Key, Lands

LEMMA ScreenShows == ScreenInv => ScreenIsOfSession
<1> SUFFICES ASSUME ScreenInv, ~mixed, Rendered
             PROVE  /\ \A m \in Elements(Drawn) :
                         Written(m) => m \in Elements(transcript[session])
                    /\ Distinct(Drawn)
  BY DEF ScreenIsOfSession, DrawnOfSession, DrawnOnce, Written, Distinct
<1>1. /\ history \in Seq(Messages) /\ thread \in Seq(Messages)
      /\ Distinct(history) /\ Distinct(thread)
  BY ScreenFacts DEF ScreenInv, NoneTwice
<1>2. Elements(history) \intersect Elements(thread) = {} /\ ThreadOfSession
  BY DEF ScreenInv, ThreadApart, DrawnApart
<1>3. Elements(Drawn) = Elements(history) \union Elements(thread) /\ Distinct(Drawn)
  BY <1>1, <1>2, ElementsJoined DEF Drawn
<1>4. Elements(history) \subseteq Elements(transcript[session])
  <2>1. CASE history = <<>>
    BY <2>1, ElementsEmpty
  <2>2. CASE history # <<>>
    <3>1. drawnFor[1] = session
      BY DEF Rendered
    <3> QED BY <2>2, <3>1 DEF ScreenInv, DrawnAsRead
  <2> QED BY <2>1, <2>2
<1> QED BY <1>2, <1>3, <1>4 DEF ThreadOfSession

(* What is drawn is of the session on the screen, and drawn once, as long  *)
(* as no live conversation was left without a reset, by /resume or         *)
(* /archive, or met the history of a transcript it is in.                  *)
THEOREM ScreenKept == Spec => []ScreenIsOfSession
BY ScreenInit, ScreenStep, ScreenShows, PTL DEF Spec
=============================================================================
