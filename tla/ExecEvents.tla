----------------------------- MODULE ExecEvents -----------------------------
(***************************************************************************)
(* What a headless turn prints (cli/src/runtime/events.ts), the hold that  *)
(* its first chunks are under until it is known that the session is free   *)
(* (session-busy.ts), and the text of a failure                            *)
(* (shared/src/turn-error.ts, retry-record.ts).                            *)
(*                                                                         *)
(* A chunk is named by its type; "write" is a tool call that names a path  *)
(* (changed-paths.ts), "finish" carries the tokens the model spent and     *)
(* "unused" is a finish that carries none, "busy" is the error whose code  *)
(* is session_busy.  A message is the number of its deltas.  What is       *)
(* printed is a pair of streams, [out, err], of items [what, n].           *)
(***************************************************************************)
EXTENDS Naturals, SequencesExt

Structural == {"start", "finish", "unused"}
Tools == {"read", "write"}
Content == Tools \union {"text", "output", "error"}
Chunks == Structural \union Content \union {"busy"}

IsError(chunk) == chunk \in {"error", "busy"}

Out(what, n) == [out |-> <<[what |-> what, n |-> n]>>, err |-> <<>>]
Err(what, n) == [out |-> <<>>, err |-> <<[what |-> what, n |-> n]>>]
Nothing == [out |-> <<>>, err |-> <<>>]
a ++ b == [out |-> a.out \o b.out, err |-> a.err \o b.err]

-----------------------------------------------------------------------------
(* The processors.  `message` is the text since the last cut, `open`       *)
(* whether the turn of the JSONL fold is, `wrote` whether a path was       *)
(* named.                                                                  *)
NewProcessor(json) ==
  [json |-> json, message |-> 0, errorSeen |-> FALSE, used |-> FALSE, wrote |-> FALSE,
   open |-> TRUE]

(* foldTurnLifecycle: a turn opens once and closes once.                   *)
Opened(json) == IF json THEN Out("thread.started", 0) ++ Out("turn.started", 0) ELSE Nothing

Observe(p, chunk) ==
  IF ~p.open THEN Nothing
  ELSE CASE chunk \in Tools -> Out("item.started", 0)
         [] chunk = "output" -> Out("item.completed", 0)
         [] IsError(chunk) -> Out("turn.failed", 0)
         [] OTHER -> Nothing

(* onChunk and process; `attempts` are those an error was reported after.  *)
Heard_NoCut(p, chunk) ==
  CASE chunk = "text" -> [p EXCEPT !.message = @ + 1]
    [] chunk \in Tools -> [p EXCEPT !.wrote = @ \/ chunk = "write"]
    [] IsError(chunk) -> [p EXCEPT !.errorSeen = TRUE, !.open = FALSE]
    [] chunk \in {"finish", "unused"} -> [p EXCEPT !.used = chunk = "finish"]
    [] OTHER -> p

Heard(p, chunk) ==
  CASE chunk = "text" -> [p EXCEPT !.message = @ + 1]
    [] chunk \in Tools -> [p EXCEPT !.message = 0, !.wrote = @ \/ chunk = "write"]
    [] IsError(chunk) -> [p EXCEPT !.errorSeen = TRUE, !.open = FALSE]
    [] chunk \in {"finish", "unused"} -> [p EXCEPT !.used = chunk = "finish"]
    [] OTHER -> p

Said(p, chunk, attempts) ==
  IF p.json THEN Observe(p, chunk)
  ELSE CASE chunk \in Tools ->
              (IF p.message > 0 THEN Err("preamble", p.message) ELSE Nothing) ++ Err("tool", 0)
         [] chunk = "output" -> Err("done", 0)
         [] IsError(chunk) -> Err("ERROR", attempts)
         [] OTHER -> Nothing

(* A sequence of chunks, handed over one after the other.                  *)
HeardAll(p, chunks) ==
  LET after[i \in 0..Len(chunks)] == IF i = 0 THEN p ELSE Heard(after[i - 1], chunks[i])
  IN after[Len(chunks)]

(* finish, and turnDiff: what git answers about the paths of the turn.     *)
Finished(p, status) ==
  [p EXCEPT !.errorSeen = @ \/ status = "error", !.open = FALSE]

FinalWords(p, status, diff) ==
  IF p.json
  THEN IF ~p.open THEN Nothing
       ELSE Out(IF status = "error" \/ p.errorSeen THEN "turn.failed" ELSE "turn.completed", 0)
  ELSE (IF p.message > 0 THEN Out("final", p.message) ELSE Nothing)
         ++ (IF p.wrote /\ diff # "same" THEN Err(diff, 0) ELSE Nothing)
         ++ Err(IF status = "error" \/ p.errorSeen THEN "status=error" ELSE "status=finished", 0)

(* silentEmptyTurnDiagnostic.                                              *)
EmptyTurn(p, status) ==
  status = "finished" /\ ~p.errorSeen /\ p.message = 0 /\ ~p.used

-----------------------------------------------------------------------------
(* consumeDetectingContention: a pass holds its structural chunks until    *)
(* the first of content, unless it is told to emit, and never hands over   *)
(* the chunk that says the session is another process's.                   *)
NewPass(emit) == [emit |-> emit, held |-> <<>>, released |-> FALSE, contended |-> FALSE]

Taken(pass, chunk) ==
  CASE chunk = "busy" -> [pass EXCEPT !.contended = TRUE]
    [] ~pass.released /\ ~pass.emit /\ chunk \in Structural -> [pass EXCEPT !.held = Append(@, chunk)]
    [] OTHER -> [pass EXCEPT !.released = TRUE, !.held = <<>>]

HandedOver(pass, chunk) ==
  IF chunk = "busy" \/ (~pass.released /\ ~pass.emit /\ chunk \in Structural) THEN <<>>
  ELSE Append(pass.held, chunk)

(* What is still held when the stream has ended.                           *)
LeftOver(pass) == IF pass.contended THEN <<>> ELSE pass.held

-----------------------------------------------------------------------------
(* createRetryRecord: the highest attempt of the turn.                     *)
Highest(attempts, attempt) == IF attempt > attempts THEN attempt ELSE attempts

(* turnErrorText names the attempts when there was more than one.          *)
AttemptsNamed(attempts) == IF attempts > 1 THEN attempts ELSE 0
=============================================================================
