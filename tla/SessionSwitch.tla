--------------------------- MODULE SessionSwitch ---------------------------
(***************************************************************************)
(* The session of a TUI: the id the next turn will use, the pointer file   *)
(* that remembers it, the turn that runs, the conversation on the screen   *)
(* and the ladder of backtrack - across everything that switches sessions: *)
(* /new, /fork, an interrupt, /resume and /archive, which await first, and *)
(* a confirmed rewind.                                                     *)
(*                                                                         *)
(* A step is what runs between two awaits of the one JavaScript thread.  A *)
(* transcript is the sequence of its users' messages, each a value of its  *)
(* own: what identifies a turn on the screen and in the ladder.            *)
(***************************************************************************)
EXTENDS Naturals, Sequences

CONSTANTS
  Sessions,   \* session ids; each is generated once
  Messages,   \* messages; each is sent once
  MaxWrites,  \* bound of the model: pointer writes waiting in the queue
  MaxAwaits,  \* bound of the model: commands that wait for the disk
  None        \* no session, no message

ASSUME NoneAssumption == None \notin Sessions \union Messages

VARIABLES
  session,    \* the id in TuiSession
  used,       \* the ids generated so far
  pointer,    \* .theokit/tui-session
  writes,     \* the writes queued behind it
  transcript, \* the users' turns of each session
  boundary,   \* how many of them precede its last compact_boundary
  phase,      \* of the turn: "none", "starting" up to getSessionId, "streaming"
  message,    \* what it sends
  writesTo,   \* the session it streams into
  thread,     \* agent.thread, the live conversation
  resumed,    \* the screen claims to continue a conversation
  drawnFor,   \* the session and `resumed` that useResumedHistory last saw
  reading,    \* the session whose history it is reading
  history,    \* the history it drew
  resuming,   \* the target of a /resume whose listing is awaited
  archiving,  \* a /archive of what was the current session is awaited
  compacting, \* the session being compacted
  priming,    \* the session whose previews were asked for
  previews,   \* the rungs of the ladder; none when it is closed
  nth,        \* the rung selected, counted from 1; 0 is SENTINEL
  sent        \* the messages sent so far

sessionVars == <<session, used, pointer, writes>>
storeVars == <<transcript, boundary, sent>>
turnVars == <<phase, message, writesTo, thread>>
screenVars == <<resumed, drawnFor, reading, history>>
awaits == <<resuming, archiving, compacting>>
ladder == <<priming, previews, nth>>
code == <<sessionVars, storeVars, turnVars, screenVars, awaits, ladder>>

(***************************************************************************)
(* History: whether the turn was left by a switch that may happen under    *)
(* it, whether a message was sent since /resume was typed, whether the     *)
(* session was switched or compacted since Esc asked for the previews,     *)
(* whether the screen holds turns of a conversation that was left, or may  *)
(* draw one twice, and whether the last write to settle was lost.          *)
(***************************************************************************)
VARIABLES left, sentSince, moved, mixed, lostWrite

past == <<left, sentSince, moved, mixed, lostWrite>>
vars == <<code, past>>

Elements(seq) == {seq[i] : i \in DOMAIN seq}

SessionTypeOK ==
  /\ session \in Sessions /\ used \subseteq Sessions
  /\ pointer \in Sessions \union {None} /\ writes \in Seq(Sessions)

StoreTypeOK ==
  /\ transcript \in [Sessions -> Seq(Messages)]
  /\ boundary \in [Sessions -> Nat] /\ sent \subseteq Messages

TurnTypeOK ==
  /\ phase \in {"none", "starting", "streaming"}
  /\ message \in Messages \union {None}
  /\ phase = "starting" => message # None
  /\ writesTo \in Sessions \union {None}
  /\ thread \in Seq(Messages)

ScreenTypeOK ==
  /\ resumed \in BOOLEAN
  /\ drawnFor \in (Sessions \union {None}) \X BOOLEAN
  /\ reading \in Sessions \union {None} /\ history \in Seq(Messages)

AwaitTypeOK ==
  /\ resuming \in Sessions \union {None} /\ archiving \in BOOLEAN
  /\ compacting \in Sessions \union {None}

LadderTypeOK ==
  /\ priming \in Sessions \union {None}
  /\ previews \in Seq(Messages) /\ nth \in 0 .. Len(previews)

PastTypeOK ==
  /\ left \in BOOLEAN /\ sentSince \in BOOLEAN /\ moved \in BOOLEAN
  /\ mixed \in BOOLEAN /\ lostWrite \in BOOLEAN

TypeOK ==
  /\ SessionTypeOK /\ StoreTypeOK /\ TurnTypeOK /\ ScreenTypeOK
  /\ AwaitTypeOK /\ LadderTypeOK /\ PastTypeOK

armed == previews # <<>>

(* The user turns after the last compaction.                               *)
Window(s) == SubSeq(transcript[s], boundary[s] + 1, Len(transcript[s]))

(* What a launch finds: sessions of earlier launches, and maybe a pointer. *)
Init ==
  /\ session \in Sessions
  /\ transcript \in [Sessions -> {<<>>} \union {<<m>> : m \in Messages}]
  /\ \A s, t \in Sessions : transcript[s] = transcript[t] => s = t \/ transcript[s] = <<>>
  /\ sent = UNION {Elements(transcript[s]) : s \in Sessions}
  /\ boundary = [s \in Sessions |-> 0]
  /\ \/ /\ pointer = session /\ resumed = TRUE /\ writes = <<>>
     \/ /\ pointer = None /\ resumed = FALSE /\ writes = <<session>>
        /\ transcript[session] = <<>>
  /\ used = {session} \union {s \in Sessions : transcript[s] # <<>>}
  /\ phase = "none" /\ message = None /\ writesTo = None /\ thread = <<>>
  /\ drawnFor = <<None, FALSE>> /\ reading = None /\ history = <<>>
  /\ resuming = None /\ archiving = FALSE /\ compacting = None
  /\ priming = None /\ previews = <<>> /\ nth = 0
  /\ left = FALSE /\ sentSince = FALSE /\ moved = FALSE /\ mixed = FALSE
  /\ lostWrite = FALSE
-----------------------------------------------------------------------------
(***************************************************************************)
(* What the commands share.                                                *)
(***************************************************************************)

(* Defect (B-031): one of the five callers sets the session and does not   *)
(* persist it.                                                             *)
SwitchTo_Unpersisted(s) ==
  /\ session' = s
  /\ used' = used \union {s}
  /\ UNCHANGED <<pointer, writes>>

(* The session is set, and its id queued behind the writes before it.      *)
SwitchTo(s) ==
  /\ Len(writes) < MaxWrites
  /\ session' = s
  /\ used' = used \union {s}
  /\ writes' = Append(writes, s)
  /\ UNCHANGED pointer

Generated(s) == s \in Sessions \ used

(* agent.abort and agent.reset, of the framework: no turn runs any more,   *)
(* and after a reset no conversation is left.                              *)
AbortTurn ==
  /\ phase' = "none" /\ message' = None /\ writesTo' = None
  /\ left' = FALSE
  /\ UNCHANGED thread

ResetAgent ==
  /\ phase' = "none" /\ message' = None /\ writesTo' = None
  /\ left' = FALSE
  /\ thread' = <<>>

MovesLadder == moved' = (moved \/ priming # None \/ armed)

CloseLadder == previews' = <<>> /\ nth' = 0 /\ moved' = FALSE /\ UNCHANGED priming

Waiting ==
  (IF resuming # None THEN 1 ELSE 0) + (IF archiving THEN 1 ELSE 0)
    + (IF compacting # None THEN 1 ELSE 0)
MayAwait == Waiting < MaxAwaits

LeavesTurn == left' = (left \/ phase = "streaming")

-----------------------------------------------------------------------------
(***************************************************************************)
(* A turn.                                                                 *)
(***************************************************************************)

(* What the store does with a message sent while a turn streams is the     *)
(* framework's, and not modelled.                                          *)
Send(m) ==
  /\ phase = "none" /\ m \notin sent /\ ~armed
  /\ phase' = "starting"
  /\ message' = m
  /\ sent' = sent \union {m}
  /\ thread' = Append(thread, m)
  /\ sentSince' = (resuming # None)
  /\ UNCHANGED <<sessionVars, transcript, boundary, writesTo, screenVars, awaits,
                 ladder, left, moved, mixed, lostWrite>>

(* The credential and the agent have been awaited, and the session is read.*)
OpenTurn ==
  /\ phase = "starting"
  /\ phase' = "streaming"
  /\ writesTo' = session
  /\ transcript' = [transcript EXCEPT ![session] = Append(@, message)]
  /\ mixed' = (mixed \/ (resumed /\ (reading # None \/ drawnFor # <<session, TRUE>>)))
  /\ UNCHANGED <<sessionVars, boundary, sent, message, thread, screenVars, awaits,
                 ladder, left, sentSince, moved, lostWrite>>

(* The turn ends, with an answer or an error, or could not be started.     *)
TurnEnds ==
  /\ phase # "none"
  /\ AbortTurn
  /\ UNCHANGED <<sessionVars, storeVars, screenVars, awaits, ladder, sentSince,
                 moved, mixed, lostWrite>>

-----------------------------------------------------------------------------
(***************************************************************************)
(* The screen.                                                             *)
(***************************************************************************)

Drawn == history \o thread
Rendered == drawnFor = <<session, resumed>>

(* Defect: a read for the session that was left is not cancelled.          *)
Render_NotCancelled ==
  /\ ~Rendered
  /\ drawnFor' = <<session, resumed>>
  /\ history' = <<>>
  /\ reading' = IF resumed /\ reading = None THEN session ELSE reading
  /\ UNCHANGED <<sessionVars, storeVars, turnVars, resumed, awaits, ladder, past>>

(* The effect of useResumedHistory runs when the session, or `resumed`,    *)
(* has changed.  It forgets the read it replaces.                          *)
Render ==
  /\ ~Rendered
  /\ drawnFor' = <<session, resumed>>
  /\ history' = <<>>
  /\ reading' = IF resumed THEN session ELSE None
  /\ UNCHANGED <<sessionVars, storeVars, turnVars, resumed, awaits, ladder, past>>

(* A transcript that cannot be read draws nothing.                         *)
HistoryArrives ==
  /\ reading # None
  /\ \/ history' = transcript[reading]
     \/ history' = <<>>
  /\ reading' = None
  /\ UNCHANGED <<sessionVars, storeVars, turnVars, resumed, drawnFor, awaits,
                 ladder, past>>

-----------------------------------------------------------------------------
(***************************************************************************)
(* Commands.                                                               *)
(***************************************************************************)

(* /new and /clear.                                                        *)
New(s) ==
  /\ Generated(s)
  /\ SwitchTo(s) /\ MovesLadder
  /\ ResetAgent
  /\ resumed' = FALSE
  /\ mixed' = FALSE
  /\ UNCHANGED <<storeVars, drawnFor, reading, history, awaits, ladder, sentSince,
                 lostWrite>>

(* forkCurrentSessionWith: without a transcript nothing is switched.       *)
ForkCurrent(s) ==
  /\ Generated(s) /\ transcript[session] # <<>>
  /\ transcript' = [transcript EXCEPT ![s] = transcript[session]]
  /\ boundary' = [boundary EXCEPT ![s] = boundary[session]]
  /\ SwitchTo(s) /\ MovesLadder
  /\ mixed' = (mixed \/ (resumed /\ thread # <<>>))
  /\ UNCHANGED <<sent, screenVars, awaits, ladder, sentSince, lostWrite>>

(* /fork asks for no turn to end.                                          *)
Fork(s) ==
  /\ ForkCurrent(s)
  /\ LeavesTurn
  /\ UNCHANGED turnVars

(* Esc, or Ctrl-C, while a turn runs: it is aborted and the session forked, *)
(* unless there is no transcript yet, or the copy fails.                   *)
Interrupt ==
  /\ phase # "none"
  /\ AbortTurn
  /\ \/ \E s \in Sessions : ForkCurrent(s)
     \/ UNCHANGED <<sessionVars, storeVars, screenVars, awaits, ladder, sentSince,
                     moved, mixed, lostWrite>>

(* Defect: what streams is asked when the command is typed and not used.   *)
Resume_WhileStreaming(s) ==
  /\ resuming = None /\ MayAwait
  /\ resuming' = s
  /\ sentSince' = FALSE
  /\ UNCHANGED <<sessionVars, storeVars, turnVars, screenVars, archiving,
                 compacting, ladder, left, moved, mixed, lostWrite>>

(* /resume: `streaming` is the one of the render the command was typed in, *)
(* and the listing is awaited.                                             *)
Resume(s) ==
  /\ phase = "none" /\ resuming = None /\ MayAwait
  /\ resuming' = s
  /\ sentSince' = FALSE
  /\ UNCHANGED <<sessionVars, storeVars, turnVars, screenVars, archiving,
                 compacting, ladder, left, moved, mixed, lostWrite>>

ResumeOver == resuming' = None /\ sentSince' = FALSE /\ UNCHANGED <<archiving, compacting>>

(* The listing holds the sessions a turn was run in.                       *)
ResumeLands ==
  /\ resuming # None /\ resuming # session
  /\ transcript[resuming] # <<>>
  /\ ResumeOver
  /\ SwitchTo(resuming) /\ MovesLadder
  /\ resumed' = TRUE
  /\ mixed' = (mixed \/ thread # <<>>)
  /\ left' = (left \/ (phase = "streaming" /\ sentSince))
  /\ UNCHANGED <<storeVars, turnVars, drawnFor, reading, history, ladder, lostWrite>>

(* The session is not listed, or already the current one.  (A listing that *)
(* rejects rejects the whole command, unhandled: see Relaunch.)            *)
ResumeRefused ==
  /\ resuming # None
  /\ ResumeOver
  /\ UNCHANGED <<sessionVars, storeVars, turnVars, screenVars, ladder, left, moved,
                 mixed, lostWrite>>

(* /archive of the current session.  That of another one switches nothing. *)
Archive ==
  /\ ~archiving /\ MayAwait
  /\ archiving' = TRUE
  /\ UNCHANGED <<sessionVars, storeVars, turnVars, screenVars, resuming, compacting,
                 ladder, past>>

(* resetSession, of whichever session is current by now.                   *)
ArchiveLands ==
  /\ archiving
  /\ archiving' = FALSE
  /\ \E s \in Sessions : Generated(s) /\ SwitchTo(s)
  /\ MovesLadder
  /\ mixed' = (mixed \/ thread # <<>>)
  /\ LeavesTurn
  /\ UNCHANGED <<storeVars, turnVars, screenVars, resuming, compacting, ladder,
                 sentSince, lostWrite>>

ArchiveFails ==
  /\ archiving
  /\ archiving' = FALSE
  /\ UNCHANGED <<sessionVars, storeVars, turnVars, screenVars, resuming, compacting,
                 ladder, past>>

Compact ==
  /\ compacting = None /\ MayAwait
  /\ compacting' = session
  /\ UNCHANGED <<sessionVars, storeVars, turnVars, screenVars, resuming, archiving,
                 ladder, past>>

(* A boundary is appended to the transcript.                               *)
CompactLands ==
  /\ compacting # None
  /\ compacting' = None
  /\ boundary' = [boundary EXCEPT ![compacting] = Len(transcript[compacting])]
  /\ MovesLadder
  /\ UNCHANGED <<sessionVars, transcript, sent, turnVars, screenVars, resuming,
                 archiving, ladder, left, sentSince, mixed, lostWrite>>

CompactFails ==
  /\ compacting # None
  /\ compacting' = None
  /\ UNCHANGED <<sessionVars, storeVars, turnVars, screenVars, resuming, archiving,
                 ladder, past>>
-----------------------------------------------------------------------------
(***************************************************************************)
(* The ladder.                                                             *)
(***************************************************************************)

(* Esc with nothing to dismiss.  (A bound of the model: the previews are   *)
(* read once at a time.)                                                   *)
Prime ==
  /\ phase = "none" /\ ~armed /\ priming = None
  /\ priming' = session
  /\ moved' = FALSE
  /\ UNCHANGED <<sessionVars, storeVars, turnVars, screenVars, awaits, previews,
                 nth, left, sentSince, mixed, lostWrite>>

(* Defect (B-036): the previews are those of the whole transcript.         *)
PrimeLands_WholeTranscript ==
  /\ priming # None
  /\ previews' = transcript[priming] /\ nth' = 0
  /\ priming' = None
  /\ UNCHANGED <<sessionVars, storeVars, turnVars, screenVars, awaits, past>>

(* No previous message, and no ladder, where the window is empty.          *)
PrimeLands ==
  /\ priming # None
  /\ previews' = Window(priming) /\ nth' = 0
  /\ priming' = None
  /\ UNCHANGED <<sessionVars, storeVars, turnVars, screenVars, awaits, past>>

PrimeFails ==
  /\ priming # None
  /\ priming' = None /\ moved' = FALSE
  /\ UNCHANGED <<sessionVars, storeVars, turnVars, screenVars, awaits, previews,
                 nth, left, sentSince, mixed, lostWrite>>

(* Esc again: the newest turn first, the oldest again and again.           *)
StepBacktrack ==
  IF nth = 0 THEN Len(previews) ELSE IF nth = 1 THEN 1 ELSE nth - 1

Advance ==
  /\ phase = "none" /\ armed
  /\ nth' = StepBacktrack
  /\ UNCHANGED <<sessionVars, storeVars, turnVars, screenVars, awaits, priming,
                 previews, past>>

(* Any other key.                                                          *)
ResetLadder ==
  /\ armed
  /\ CloseLadder
  /\ UNCHANGED <<sessionVars, storeVars, turnVars, screenVars, awaits, left,
                 sentSince, mixed, lostWrite>>

(* forkSessionBeforeUserTurn: what precedes the nth turn of the window.    *)
ForkBefore(s) ==
  /\ transcript' = [transcript EXCEPT ![s] =
       SubSeq(transcript[session], 1, boundary[session] + nth - 1)]
  /\ boundary' = [boundary EXCEPT ![s] = boundary[session]]

(* Enter.  The rewind is of the session that is current by now; it awaits  *)
(* a microtask only, which no key and no file operation comes before.      *)
Rewind(s) ==
  /\ armed /\ nth # 0
  /\ nth <= Len(Window(session)) /\ Generated(s)
  /\ ForkBefore(s)
  /\ SwitchTo(s)
  /\ ResetAgent
  /\ CloseLadder
  /\ mixed' = FALSE
  /\ UNCHANGED <<sent, screenVars, awaits, sentSince, lostWrite>>

(* No such turn.                                                           *)
RewindFails ==
  /\ armed /\ nth # 0
  /\ nth > Len(Window(session))
  /\ CloseLadder
  /\ UNCHANGED <<sessionVars, storeVars, turnVars, screenVars, awaits, left,
                 sentSince, mixed, lostWrite>>

(* The copy fails: the ladder closes in the same way.                      *)
RewindThrows ==
  /\ armed /\ nth # 0
  /\ CloseLadder
  /\ UNCHANGED <<sessionVars, storeVars, turnVars, screenVars, awaits, left,
                 sentSince, mixed, lostWrite>>

-----------------------------------------------------------------------------
(***************************************************************************)
(* The disk, and the end of the process.                                   *)
(***************************************************************************)

WriteSettles ==
  /\ writes # <<>>
  /\ pointer' = Head(writes)
  /\ writes' = Tail(writes)
  /\ lostWrite' = FALSE
  /\ UNCHANGED <<session, used, storeVars, turnVars, screenVars, awaits, ladder,
                 left, sentSince, moved, mixed>>

(* A write that fails is reported, and the next one runs.                  *)
WriteFails ==
  /\ writes # <<>>
  /\ writes' = Tail(writes)
  /\ lostWrite' = TRUE
  /\ UNCHANGED <<session, used, pointer, storeVars, turnVars, screenVars, awaits,
                 ladder, left, sentSince, moved, mixed>>

(* The process ends - it may at any point, and does when the listing of a  *)
(* /resume rejects - and the TUI is launched again.                        *)
Relaunch ==
  /\ \/ /\ pointer # None
        /\ session' = pointer /\ used' = used \union {pointer}
        /\ resumed' = TRUE /\ writes' = <<>>
     \/ /\ pointer = None
        /\ \E s \in Sessions :
             Generated(s) /\ session' = s /\ used' = used \union {s} /\ writes' = <<s>>
        /\ resumed' = FALSE
  /\ ResetAgent
  /\ drawnFor' = <<None, FALSE>> /\ reading' = None /\ history' = <<>>
  /\ resuming' = None /\ archiving' = FALSE /\ compacting' = None
  /\ priming' = None /\ previews' = <<>> /\ nth' = 0
  /\ sentSince' = FALSE /\ moved' = FALSE /\ mixed' = FALSE /\ lostWrite' = FALSE
  /\ UNCHANGED <<pointer, storeVars>>

(* A command is typed after the render of what went before it, and its     *)
(* first letter closes the ladder.                                         *)
Command ==
  /\ Rendered /\ ~armed
  /\ \/ \E m \in Messages : Send(m)
     \/ \E s \in Sessions : New(s) \/ Fork(s) \/ Resume(s)
     \/ Archive \/ Compact

Key ==
  /\ Rendered
  /\ \/ Interrupt \/ Prime \/ Advance \/ ResetLadder
     \/ RewindFails \/ RewindThrows
     \/ \E s \in Sessions : Rewind(s)

Lands ==
  \/ ResumeLands \/ ResumeRefused \/ ArchiveLands \/ ArchiveFails
  \/ CompactLands \/ CompactFails \/ PrimeLands \/ PrimeFails

Next ==
  \/ Command \/ Key \/ Lands
  \/ OpenTurn \/ TurnEnds \/ Render \/ HistoryArrives
  \/ WriteSettles \/ WriteFails \/ Relaunch

Spec == Init /\ [][Next]_vars

-----------------------------------------------------------------------------
(* A turn streams into the session on the screen, unless the operator      *)
(* forked or archived it under the turn, or sent the turn while a /resume  *)
(* was still listing.  (Six ways to switch, of which two abort the turn,   *)
(* one asks whether there is one, and one asked before it awaited.)        *)
TurnIsOnScreen == phase = "streaming" /\ writesTo # session => left

(* A rewind cuts the transcript at the very turn the ladder shows, unless  *)
(* the session was switched, or compacted, since Esc asked for the ladder; *)
(* otherwise it does not fail.  (The turns are numbered in one transcript  *)
(* and looked up in another read of it, with turns appended in between.)   *)
RewindCutsWhatItShows ==
  [][(\E s \in Sessions : Rewind(s)) \/ RewindFails =>
       \/ moved
       \/ /\ session' # session
          /\ transcript[session][Len(transcript'[session']) + 1] = previews[nth]]_vars

(* The pointer file, once what is queued is written, names the session on  *)
(* the screen, whichever of the six switched it last.                      *)
PointerFollows ==
  ~lostWrite => session = IF writes = <<>> THEN pointer ELSE writes[Len(writes)]

(* No turn is drawn twice: from the transcript, and from the live          *)
(* conversation.                                                           *)
DrawnOnce == Rendered => \A i, j \in DOMAIN Drawn : Drawn[i] = Drawn[j] => i = j

(* "Leaving the previous session's turns on screen under the new one's     *)
(* greeting attributes work to a conversation that did not contain it":    *)
(* a turn on the screen is in the transcript of the session, if in any.    *)
DrawnOfSession ==
  Rendered =>
    \A m \in Elements(Drawn) :
      (\E s \in Sessions : m \in Elements(transcript[s])) =>
        m \in Elements(transcript[session])

(* What is drawn is of the session on the screen, and drawn once - as long *)
(* as no live conversation was left without a reset, by /resume or         *)
(* /archive, or met the history of a transcript it is in.                  *)
ScreenIsOfSession == ~mixed => DrawnOfSession /\ DrawnOnce
=============================================================================
