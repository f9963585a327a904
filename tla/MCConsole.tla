----------------------------- MODULE MCConsole -----------------------------
EXTENDS Console

Fresh == [gate |-> "none", sandbox |-> "workspace-write", turns |-> 0, messages |-> 0,
          approvals |-> 0, questions |-> 0, shells |-> 0, switches |-> 0, awaits |-> 0,
          edits |-> 0, surfaces |-> 0, keys |-> 0]

(* Approvals; questions of several sessions; shells; the screen.           *)
MCLaunches ==
  {[Fresh EXCEPT !.turns = 2, !.messages = 1, !.approvals = 3, !.switches = 1],
   [Fresh EXCEPT !.turns = 2, !.questions = 3, !.switches = 2, !.awaits = 1],
   [Fresh EXCEPT !.turns = 3, !.shells = 2, !.switches = 1, !.awaits = 1, !.edits = 2],
   [Fresh EXCEPT !.gate = "trust", !.turns = 1, !.approvals = 1, !.questions = 1,
                 !.switches = 1, !.surfaces = 1, !.keys = 3]}

MCBindingsFile ==
  <<[key |-> "ctrl-o", action |-> "quit"], [key |-> "ctrl-g", action |-> "interrupt-turn"],
    [key |-> "ctrl-d", action |-> "quit"], [key |-> "ctrl-g", action |-> "quit"]>>

MCModes == <<"read-only", "workspace-write", "danger-full-access">>
=============================================================================
