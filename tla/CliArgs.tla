------------------------------ MODULE CliArgs ------------------------------
(***************************************************************************)
(* The command line of `theocode` (cli/src/runtime/args.ts): what a line   *)
(* of flags and words is read as, or why it is refused.                    *)
(*                                                                         *)
(* A line is [flags, bad, approval, config, words, tty, unknown]: the      *)
(* flags given, those of them whose value is no number of the kind asked   *)
(* for, the value of --approval ("" : not given), the pairs of -c, the     *)
(* positionals, whether stdin is a terminal, and whether node's parseArgs  *)
(* refuses it.  A word is one of the names below, "id" (of the shape of a  *)
(* session id) or any other word.                                          *)
(***************************************************************************)
EXTENDS Naturals, SequencesExt

(* A name that SUBCOMMANDS, a plain object, inherits from Object.          *)
Inherited == {"constructor"}
SessionActions == {"gc", "list", "archive", "rename", "delete", "fork"}

(* The options that stand for a `-c` pair.                                 *)
Sugar == {"sandbox", "approval", "effort"}

(* SCOPED_FLAGS: the words a line must begin with to be given the flag.    *)
ScopedFlags_Three == [f \in {"last"} |-> <<"resume">>]

ScopedFlags ==
  [f \in {"last", "uncommitted", "base", "commit", "max-turns", "token-budget", "apply",
          "all-projects", "keep", "max-age-days"} |->
     IF f = "last" THEN <<"resume">>
     ELSE IF f \in {"uncommitted", "base", "commit"} THEN <<"review">>
     ELSE IF f \in {"max-turns", "token-budget"} THEN <<"goal">>
     ELSE <<"sessions", "gc">>]

Word(line, i) == IF i <= Len(line.words) THEN line.words[i] ELSE ""
After(line, n) == SubSeq(line.words, n + 1, Len(line.words))

(* A result has a mode, the flags it carries the value of, and what the    *)
(* mode needs.                                                             *)
Result(mode, carried) ==
  [mode |-> mode, carried |-> carried, resume |-> "", prompt |-> "", stdin |-> "none",
   action |-> "", overrides |-> <<>>]
Error == Result("error", {})

-----------------------------------------------------------------------------
(* flagAppliedToNoCommand.                                                 *)
Misapplied(line) ==
  \/ \E f \in line.flags \intersect DOMAIN ScopedFlags : ~IsPrefix(ScopedFlags[f], line.words)
  \/ /\ Word(line, 1) \in {"review", "sessions"}
     /\ line.flags \intersect {"model", "output-last-message"} # {}

ModeToPolicy(approval) ==
  CASE approval = "suggest" -> "on-request"
    [] approval = "full-auto" -> "never"
    [] OTHER -> approval

(* collectOverrides: the sugar first, so that a -c of the same key, which  *)
(* comes after it, is the one that is kept.                                *)
SugarPair(line, option, key, value) ==
  IF option \in line.flags THEN <<[key |-> key, value |-> value]>> ELSE <<>>

Overrides(line) ==
  SugarPair(line, "sandbox", "sandbox_mode", "given")
    \o SugarPair(line, "approval", "approval_policy", ModeToPolicy(line.approval))
    \o SugarPair(line, "effort", "reasoning_effort", "given")
    \o line.config

(* cliOverridesLayer: a pair is a path and a value; one that would make a  *)
(* value of a branch, or a branch of a value, of the same line is refused, *)
(* as a path of the prototype is.  A key here is a path of one or two.     *)
Branch(key) == IF key = "profile.sandbox" THEN "profile" ELSE ""
OverridesFail(pairs) ==
  \/ \E i \in DOMAIN pairs : pairs[i].key \in {"", "__proto__"} \/ pairs[i].value = "no-equals"
  \/ \E i, j \in DOMAIN pairs : Branch(pairs[i].key) # "" /\ pairs[j].key = Branch(pairs[i].key)

-----------------------------------------------------------------------------
(* The subcommands.                                                        *)
Common == {"json", "cd"}
AsConfig == Sugar \union {"config"}
Given(line, carried) == line.flags \intersect carried

ParseReview(line) ==
  IF Cardinality(line.flags \intersect {"uncommitted", "base", "commit"}) > 1 THEN Error
  ELSE [Result("review", Given(line, Common \union AsConfig
                   \union {"uncommitted", "base", "commit", "skip-git-repo-check"}))
          EXCEPT !.overrides = Overrides(line)]

(* parseSessions: nothing that is configuration; an action of the list.    *)
ParseSessions(line) ==
  LET action == Word(line, 2)
  IN IF line.flags \intersect AsConfig # {} \/ action \notin SessionActions THEN Error
     ELSE IF action = "gc"
     THEN IF line.bad \intersect {"keep", "max-age-days"} # {} THEN Error
          ELSE [Result("sessions", Given(line, Common \union
                         {"apply", "all-projects", "keep", "max-age-days"})) EXCEPT !.action = "gc"]
     ELSE IF action # "list" /\ Word(line, 3) = "" THEN Error
     ELSE IF action = "rename" /\ Word(line, 4) = "" THEN Error
     ELSE [Result("sessions", Given(line, Common)) EXCEPT !.action = action]

ParseGoal(line) ==
  IF Len(line.words) < 2 \/ line.bad \intersect {"max-turns", "token-budget"} # {} THEN Error
  ELSE [Result("goal", Given(line, Common \union AsConfig \union
                 {"model", "skip-git-repo-check", "max-turns", "token-budget"}))
          EXCEPT !.overrides = Overrides(line), !.prompt = Word(line, 2)]

(* resolveResume, resolveInput and parseResumeOrPrompt.                    *)
PromptWords(line) ==
  IF Word(line, 1) # "resume" THEN line.words
  ELSE After(line, IF "last" \in line.flags THEN 1 ELSE 2)

ParseResumeOrPrompt(line) ==
  LET resumes == Word(line, 1) = "resume"
      words == PromptWords(line)
  IN IF resumes /\ (IF "last" \in line.flags THEN Word(line, 2) = "id" ELSE Word(line, 2) = "")
     THEN Error
     ELSE IF words = <<>> /\ line.tty THEN Error
     ELSE [Result(IF resumes THEN "resume" ELSE "run",
                  Given(line, Common \union AsConfig \union
                          {"model", "output-last-message", "skip-git-repo-check", "last"}))
             EXCEPT !.resume = IF ~resumes THEN "" ELSE IF "last" \in line.flags THEN "last"
                               ELSE "id",
                    !.prompt = IF words \in {<<>>, <<"-">>} THEN "" ELSE words[1],
                    !.stdin = CASE words = <<>> -> "required"
                                [] words = <<"-">> -> "forced"
                                [] OTHER -> IF line.tty THEN "none" ELSE "append",
                    !.overrides = Overrides(line)]

(* parseExecArgs, in the order of its returns.                             *)
ParseExecArgs(line) ==
  IF line.unknown THEN Error
  ELSE IF "version" \in line.flags THEN Result("version", line.flags)
  ELSE IF "help" \in line.flags THEN Result("help", line.flags)
  ELSE IF Misapplied(line) \/ line.approval = "auto-edit" THEN Error
  ELSE CASE Word(line, 1) = "review" -> ParseReview(line)
         [] Word(line, 1) = "sessions" -> ParseSessions(line)
         [] Word(line, 1) = "doctor" -> Result("doctor", Given(line, Common))
         [] Word(line, 1) = "migrate-config" -> Result("migrate-config", Given(line, {"cd"}))
         [] Word(line, 1) = "goal" -> ParseGoal(line)
         [] Word(line, 1) \in Inherited -> Result("none", {})
         [] OTHER -> ParseResumeOrPrompt(line)
=============================================================================
