--------------------------- MODULE MCHeadlessRun ---------------------------
(***************************************************************************)
(* The starts of HeadlessRun for TLC: every shape of command line in one   *)
(* plain place, and one plain run in many places.                          *)
(***************************************************************************)
EXTENDS HeadlessRun

Line(flags, words) ==
  [flags |-> flags, bad |-> {}, approval |-> "", config |-> <<>>, words |-> words,
   tty |-> FALSE, unknown |-> FALSE]

NoKeys == [p \in ProviderNames |-> ""]
Bare == [keys |-> NoKeys, pin |-> ""]
WithKey(p, key) == [keys |-> [NoKeys EXCEPT ![p] = key], pin |-> ""]
Pinned(p) == [WithKey("anthropic", "anthropic") EXCEPT !.pin = p]

OpenAI == [route |-> "openai", name |-> "m"]
ChatGPT == [route |-> "openai-chatgpt", name |-> "m"]

ShortDocs ==
  [base |-> 2, style |-> "none", trusted |-> TRUE, userAgents |-> 0, userRules |-> <<>>,
   chain |-> <<1>>, rules |-> <<>>, surface |-> 0]

Plain == [env |-> Bare, store |-> OAuth, operator |-> "away", asked |-> OpenAI,
          config |-> OpenAI, docs |-> ShortDocs, chunks |-> 0]

(* The command lines.                                                      *)
SomeFlags ==
  {{}, {"json"}, {"last"}, {"apply"}, {"keep"}, {"base"}, {"base", "commit"}, {"max-turns"},
   {"model", "cd"}, {"sandbox", "approval"}, {"skip-git-repo-check"}, {"version"}, {"help"}}
SomeWords ==
  {<<>>, <<"hello">>, <<"-">>, <<"resume">>, <<"resume", "id">>, <<"resume", "hello">>,
   <<"review">>, <<"goal">>, <<"goal", "hello">>, <<"sessions">>, <<"sessions", "gc">>,
   <<"sessions", "list">>, <<"sessions", "rename", "id">>, <<"sessions", "rename", "id", "hello">>,
   <<"sessions", "delete", "id">>, <<"doctor">>, <<"migrate-config">>, <<"constructor">>}

Pairs ==
  {<<[key |-> "model", value |-> "given"]>>, <<[key |-> "model", value |-> "no-equals"]>>,
   <<[key |-> "approval_policy", value |-> "never"]>>,
   <<[key |-> "profile", value |-> "given"], [key |-> "profile.sandbox", value |-> "given"]>>}

CommandLines ==
  {Line(flags, words) : flags \in SomeFlags, words \in SomeWords}
    \union {[Line({"approval"}, words) EXCEPT !.approval = approval] :
              words \in {<<"hello">>, <<"review">>},
              approval \in {"suggest", "full-auto", "auto-edit", "never"}}
    \union {[Line({"config"}, words) EXCEPT !.config = pairs] :
              words \in {<<"hello">>, <<"review">>, <<"sessions", "list">>}, pairs \in Pairs}
    \union {[Line({flag}, words) EXCEPT !.bad = {flag}] :
              flag \in {"keep", "max-turns"}, words \in {<<"sessions", "gc">>, <<"goal", "hello">>}}
    \union {[Line({}, <<>>) EXCEPT !.tty = TRUE], [Line({}, <<"hello">>) EXCEPT !.unknown = TRUE]}

(* The places.                                                             *)
CredentialPlaces ==
  {[Plain EXCEPT !.env = env, !.store = store, !.operator = operator, !.asked = asked,
                 !.config = config] :
     env \in {Bare, WithKey("anthropic", "anthropic"), WithKey("openrouter", "anthropic"),
              Pinned("openai")},
     store \in {NoCredential, Refused, OAuth, Api("openai", "openrouter"),
                Api("anthropic", "anthropic")},
     operator \in {"away", "near"}, asked \in {OpenAI, ChatGPT}, config \in {OpenAI, ChatGPT}}

DocumentPlaces ==
  {[Plain EXCEPT !.docs = docs] :
     docs \in [base : {2}, style : {"none", "keep", "replace"}, trusted : BOOLEAN,
               userAgents : {0, 3}, userRules : {<<>>, <<2, 4>>, <<5, 5, 5>>},
               chain : {<<>>, <<4, 9>>}, rules : {<<>>, <<3>>, <<4, 9, 2>>}, surface : {0, 6}]}

Run == Line({}, <<"hello">>)
RunOn == Line({"model"}, <<"hello">>)

Places ==
  {[line |-> l, machine |-> m] : l \in {Run, RunOn}, m \in CredentialPlaces}
    \union {[line |-> Run, machine |-> m] : m \in DocumentPlaces}

(* The lines whose turns are followed to some length.                      *)
Turn(flags, words, chunks) ==
  [line |-> Line(flags, words), machine |-> [Plain EXCEPT !.chunks = chunks]]

Turns ==
  {Turn({}, <<"resume", "id">>, 3), Turn({"json"}, <<"resume", "id">>, 2),
   Turn({"last"}, <<"resume", "hello">>, 1), Turn({"output-last-message"}, <<"hello">>, 1)}

MCStarts == Places \union Turns \union {[line |-> l, machine |-> Plain] : l \in CommandLines}
=============================================================================
