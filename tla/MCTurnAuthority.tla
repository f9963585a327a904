-------------------------- MODULE MCTurnAuthority --------------------------
EXTENDS TurnAuthority

Doc(values) == [kind |-> "object", values |-> values, profile |-> "", profiles |-> Nothing]

Hook(matcher) == [event |-> "PreToolUse", command |-> "lint", matcher |-> matcher, timeout |-> 5]
Late == [event |-> "PreToolUse", command |-> "report", matcher |-> "", timeout |-> 5]

Start == [event |-> "SessionStart", command |-> "greet", matcher |-> "", timeout |-> 5]

MCDocumentsOf(file) ==
  CASE file = "~/.theokit" ->
         {NoFile, Doc([sandbox_mode |-> "danger-full-access", approval_policy |-> "never"]),
          [Doc([approval_policy |-> "never"]) EXCEPT !.profile = "lab",
             !.profiles = [lab |-> [sandbox_mode |-> "read-only"]]]}
    [] file = ".theocode" ->
         {NoFile, Doc([hooks |-> <<Hook("apply_patch"), Late>>]),
          Doc([sandbox_mode |-> "danger-full-access", skills |-> {"deploy"}, memory |-> TRUE])}
    [] file = ".theokit.local" ->
         {NoFile, Doc([sandbox_mode |-> "read-only"]), Doc([hooks |-> <<Late, Start>>])}
    [] OTHER -> {NoFile}

MCStartingDisks ==
  {[f \in Files |-> IF f = "~/.claude" THEN Doc([approval_policy |-> "never"]) ELSE NoFile],
   [f \in Files |-> CASE f = "~/.claude" -> Doc([sandbox_mode |-> "danger-full-access",
                                                 approval_policy |-> "never"])
                      [] f = ".theocode" -> Doc([sandbox_mode |-> "read-only",
                                                 hooks |-> <<Hook("apply_patch"), Hook(""), Late>>])
                      [] OTHER -> NoFile]}
=============================================================================
