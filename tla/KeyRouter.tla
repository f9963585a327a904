----------------------------- MODULE KeyRouter -----------------------------
(***************************************************************************)
(* What a keypress means, given what is on the screen                      *)
(* (tui/src/terminal-io): the layers of input-router.ts in their order,    *)
(* the ladder Escape goes down, and the keys a file binds                  *)
(* (keybindings.ts).                                                       *)
(*                                                                         *)
(* A key is "ctrl-c", "ctrl-o", "escape", "return", "letter" (any key that *)
(* means nothing here) or one a file may bind.  A state of the keyboard is *)
(* the record of KeyboardState; the actions are those of KeyAction.        *)
(***************************************************************************)
EXTENDS Integers, SequencesExt

SENTINEL == -1

(* readOne and loadKeybindings: an entry of the file is [key, action]; the *)
(* keys that terminals need, those the router claims, and what is not      *)
(* ctrl and a letter are not bound, nor is an action nobody exposes.       *)
Rebindable == {"toggle-verbose", "interrupt-turn", "quit"}
Reserved == {"ctrl-c", "ctrl-d", "ctrl-m"}
ClaimedByRouter == {"ctrl-o", "ctrl-c"}
CtrlLetters == {"ctrl-d", "ctrl-g", "ctrl-m", "ctrl-o", "ctrl-c"}

Bindings(file) ==
  SelectSeq(file, LAMBDA entry : /\ entry.key \in CtrlLetters \ (Reserved \union ClaimedByRouter)
                                 /\ entry.action \in Rebindable)

(* boundAction: the first that matches.                                    *)
BoundAction(key, bindings) ==
  LET hits == SelectSeq(bindings, LAMBDA b : b.key = key)
  IN IF hits = <<>> THEN <<>> ELSE <<hits[1].action>>

-----------------------------------------------------------------------------
(* stepBacktrack, for a ladder that has a rung.                            *)
StepBacktrack(nth, total) ==
  IF nth = SENTINEL THEN total - 1 ELSE IF nth = 0 THEN 0 ELSE nth - 1

RouteEscape(s) ==
  IF s.mode = "progress" THEN <<"close-progress">>
  ELSE IF s.diff THEN <<"close-diff">>
  ELSE IF s.usage THEN <<"close-usage">>
  ELSE IF s.help THEN <<"close-help">>
  ELSE IF s.goal THEN <<"pause-goal">>
  ELSE IF s.streaming THEN <<"interrupt-turn">>
  ELSE IF ~s.armed THEN IF s.text THEN <<>> ELSE <<"prime-backtrack">>
  ELSE IF s.total <= 0 THEN <<"reset-backtrack">> ELSE <<"advance-backtrack">>

RouteCtrlC(s) ==
  IF s.streaming THEN <<"interrupt-turn">>
  ELSE IF s.exitArmed THEN <<"quit">> ELSE <<"arm-exit">>

RouteInComposer(key, s, bindings) ==
  IF s.armed /\ key = "return" THEN <<"confirm-backtrack">>
  ELSE (IF s.armed THEN <<"reset-backtrack">> ELSE <<>>)
         \o CASE key = "ctrl-o" -> <<"toggle-verbose">>
              [] key = "ctrl-c" -> RouteCtrlC(s)
              [] BoundAction(key, bindings) # <<>> -> BoundAction(key, bindings)
              [] OTHER -> IF s.exitArmed THEN <<"disarm-exit">> ELSE <<>>

RouteInDemo(key, s) ==
  CASE key = "escape" -> <<"close-demo">>
    [] key = "ctrl-c" -> IF s.exitArmed THEN <<"quit">> ELSE <<"arm-exit">>
    [] OTHER -> <<>>

(* Defect: a key goes past an approval.                                    *)
Layer_PastApproval(s) ==
  CASE s.question -> "open-question"
    [] ~s.question /\ s.demo -> "demo"
    [] ~s.question /\ ~s.demo /\ (~s.trusted \/ s.login \/ s.rotating) -> "gated"
    [] OTHER -> "composer"

(* LAYERS: the first whose condition holds claims the key.                 *)
Layer(s) ==
  CASE s.question -> "open-question"
    [] ~s.question /\ s.demo -> "demo"
    [] ~s.question /\ ~s.demo /\ (~s.trusted \/ s.approval \/ s.login \/ s.rotating) -> "gated"
    [] OTHER -> "composer"

RouteKey(key, s, bindings) ==
  CASE Layer(s) = "open-question" ->
         IF key = "ctrl-c" THEN <<"abandon-question", "interrupt-turn">> ELSE <<>>
    [] Layer(s) = "demo" -> RouteInDemo(key, s)
    [] Layer(s) = "gated" -> <<>>
    [] OTHER -> IF key = "escape" THEN RouteEscape(s) ELSE RouteInComposer(key, s, bindings)
=============================================================================
