------------------------ MODULE TurnAuthorityProofs ------------------------
(***************************************************************************)
(* What holds of a turn's authority for any files, stores, servers and     *)
(* skills: that the loaded configuration is the files', that the agent of  *)
(* a turn is the one its files, its trust and its switches make, that a    *)
(* repository tightens only and reaches nothing where it is not trusted,   *)
(* that no hook runs unasked, and that what is approved by itself is       *)
(* confined.                                                               *)
(***************************************************************************)
EXTENDS TurnAuthority, FiniteSetTheorems, TLAPS

-----------------------------------------------------------------------------
(* The configuration that is loaded.                                       *)

(* What is loaded was read after an edit there was.                        *)
Dated == edits \in Nat /\ loadedAt \in Nat /\ loadedAt <= edits

LoadedInv == Dated /\ LoadedIsCurrent

(* Once trust is granted the project is read.                              *)
LEMMA TrustedReads ==
  ASSUME NEW S PROVE TrustAll \/ IsTrusted(TrustDir(S))
BY DEF IsTrusted, TrustDir

LEMMA InputFrame ==
  ASSUME UNCHANGED <<disk, toml, store>>
  PROVE  UNCHANGED <<Input, Resolvable, EffectiveConfig>>
BY DEF Input, Resolvable, EffectiveConfig

LEMMA LoadedStep == LoadedInv /\ [Next]_vars => LoadedInv'
<1> SUFFICES ASSUME LoadedInv, [Next]_vars PROVE LoadedInv'
  OBVIOUS
<1>0. ASSUME UNCHANGED <<disk, toml, edits, store, running, loaded, loadedAt>> PROVE LoadedInv'
  BY <1>0, InputFrame DEF LoadedInv, Dated, LoadedIsCurrent
<1>1. CASE Launch
  <2>1. UNCHANGED <<disk, toml, edits, store>> /\ loaded' = EffectiveConfig /\ loadedAt' = edits
    BY <1>1 DEF Launch, files, grants
  <2> QED  BY <2>1, InputFrame DEF LoadedInv, Dated, LoadedIsCurrent
<1>2. CASE Exit
  <2>1. Dated'
    <3>1. edits' = edits /\ loadedAt' = 0 /\ edits \in Nat
      BY <1>2 DEF Exit, files, LoadedInv, Dated
    <3> QED  BY <3>1 DEF Dated
  <2>2. LoadedIsCurrent'
    BY <1>2 DEF Exit, LoadedIsCurrent
  <2> QED  BY <2>1, <2>2 DEF LoadedInv
<1>3. CASE TrustPersisted
  <2> DEFINE in == [Input EXCEPT !.project = TRUE]
  <2>1. UNCHANGED <<disk, toml, edits, running>> /\ Input' = Input /\ store' = TrustDir(store)
    BY <1>3 DEF TrustPersisted, files, Input
  <2>2. (TrustAll \/ IsTrusted(store')) = TRUE
    BY <2>1, TrustedReads
  <2>3. Resolvable' = ~ConfigError(in) /\ EffectiveConfig' = LoadConfig(in)
    BY <2>1, <2>2 DEF Resolvable, EffectiveConfig
  <2>4. CASE ConfigError(in)
    BY <1>3, <2>1, <2>3, <2>4 DEF TrustPersisted, LoadedInv, Dated, LoadedIsCurrent
  <2>5. CASE ~ConfigError(in)
    BY <1>3, <2>1, <2>3, <2>5 DEF TrustPersisted, LoadedInv, Dated, LoadedIsCurrent
  <2> QED  BY <2>4, <2>5
<1>4. CASE (\E file \in Files : EditFile(file)) \/ (\E scope \in OldFormat : Migrate(scope))
  <2>1. edits' = edits + 1 /\ loadedAt' = loadedAt
    BY <1>4 DEF EditFile, Migrate, session
  <2> QED  BY <2>1 DEF LoadedInv, Dated, LoadedIsCurrent
<1>5. CASE Render \/ Trust \/ TrustFails \/ ApproveHook \/ RefuseHook \/ ApprovalMode
  BY <1>0, <1>5 DEF Render, Trust, TrustFails, ApproveHook, RefuseHook, ApprovalMode, files, grants
<1>6. CASE (\E arg \in Modes \union {"confirm", ""} : Sandbox(arg)) \/ Send \/ TurnEnds
             \/ (\E tool \in Calls : CallTool(tool)) \/ AutoApprove \/ Decide \/ CallReturns
  BY <1>0, <1>6 DEF Sandbox, Send, TurnEnds, CallTool, AutoApprove, Decide, CallReturns,
                    files, grants, session
<1>7. CASE UNCHANGED vars
  BY <1>0, <1>7 DEF vars, files, grants, session
<1> QED  BY <1>1, <1>2, <1>3, <1>4, <1>5, <1>6, <1>7 DEF Next

(* A session works with what its files say, as long as nobody edited them  *)
(* since it read them: granting trust reads them again.                    *)
THEOREM LoadedHolds == Spec => []LoadedInv
<1>1. Init => LoadedInv
  <2>1. Init => Dated
    <3>1. Init => edits = 0 /\ loadedAt = 0
      BY DEF Init
    <3> QED  BY <3>1 DEF Dated
  <2>2. Init => LoadedIsCurrent
    BY DEF Init, LoadedIsCurrent
  <2> QED  BY <2>1, <2>2 DEF LoadedInv
<1> QED  BY <1>1, LoadedStep, PTL DEF Spec

THEOREM LoadedStaysCurrent == Spec => []LoadedIsCurrent
<1>1. LoadedInv => LoadedIsCurrent
  BY DEF LoadedInv
<1> QED  BY <1>1, LoadedHolds, PTL

-----------------------------------------------------------------------------
(* The agent of the turn under way.                                        *)

(* It is the one that its files, which nobody edits meanwhile, its trust   *)
(* and its switches make; and only a turn has calls.                       *)
TurnInv ==
  turn # NoTurn =>
    /\ turn.agent = BuildChatAgent(Input, turn.allows, turn.use)
    /\ ~BuildFails(Input, turn.allows, turn.use)
    /\ turn.allows \in {Capabilities, {}}

CardInv == card # NoCard => turn # NoTurn /\ card = [tool |-> card.tool, settled |-> card.settled]

LEMMA TurnStep == TurnInv /\ [Next]_vars => TurnInv'
<1> SUFFICES ASSUME TurnInv, [Next]_vars PROVE TurnInv'
  OBVIOUS
<1>0. ASSUME UNCHANGED <<disk, toml, turn>> PROVE TurnInv'
  <2>1. Input' = Input
    BY <1>0 DEF Input
  <2> QED  BY <1>0, <2>1 DEF TurnInv
<1>1. CASE Send
  <2> DEFINE allows == Allows(store, TrustAll)
  <2>1. Input' = Input
    BY <1>1 DEF Send, files, Input
  <2>2. allows \in {Capabilities, {}}
    BY DEF Allows
  <2>3. CASE BuildFails(Input, allows, Use)
    BY <1>0, <1>1, <2>3 DEF Send, files
  <2>4. CASE ~BuildFails(Input, allows, Use)
    <3>1. turn' = [state |-> "running", allows |-> allows, use |-> Use,
                   agent |-> BuildChatAgent(Input, allows, Use)]
      BY <1>1, <2>4 DEF Send
    <3>2. turn'.allows = allows /\ turn'.use = Use
          /\ turn'.agent = BuildChatAgent(Input, allows, Use)
      BY <3>1
    <3> QED  BY <2>1, <2>2, <2>4, <3>2 DEF TurnInv
  <2> QED  BY <2>3, <2>4
<1>2. CASE Exit \/ TurnEnds \/ (\E file \in Files : EditFile(file))
             \/ (\E scope \in OldFormat : Migrate(scope))
  <2>1. turn' = NoTurn
    BY <1>2 DEF Exit, TurnEnds, EditFile, Migrate
  <2> QED  BY <2>1 DEF TurnInv
<1>3. CASE Launch \/ Render \/ Trust \/ TrustPersisted \/ TrustFails \/ ApproveHook \/ RefuseHook
             \/ ApprovalMode
  BY <1>0, <1>3 DEF Launch, Render, Trust, TrustPersisted, TrustFails, ApproveHook, RefuseHook,
                    ApprovalMode, files
<1>4. CASE (\E arg \in Modes \union {"confirm", ""} : Sandbox(arg))
             \/ (\E tool \in Calls : CallTool(tool)) \/ AutoApprove \/ Decide \/ CallReturns
  BY <1>0, <1>4 DEF Sandbox, CallTool, AutoApprove, Decide, CallReturns, files
<1>5. CASE UNCHANGED vars
  BY <1>0, <1>5 DEF vars, files
<1> QED  BY <1>1, <1>2, <1>3, <1>4, <1>5 DEF Next

LEMMA CardStep == CardInv /\ [Next]_vars => CardInv'
<1> SUFFICES ASSUME CardInv, [Next]_vars, card' # NoCard
             PROVE  turn' # NoTurn /\ card' = [tool |-> card'.tool, settled |-> card'.settled]
  BY DEF CardInv
<1> USE DEF CardInv
<1>1. CASE Send
  <2>1. turn' = turn \/ turn' # NoTurn
    BY <1>1 DEF Send, NoTurn
  <2> QED  BY <1>1, <2>1 DEF Send
<1>2. ASSUME NEW tool \in Calls, CallTool(tool)
      PROVE  turn' # NoTurn /\ card' = [tool |-> card'.tool, settled |-> card'.settled]
  BY <1>2 DEF CallTool
<1>3. CASE AutoApprove \/ Decide
  <2>1. card # NoCard /\ turn' = turn /\ \E how \in {"auto", "operator"} :
          card' = [card EXCEPT !.settled = how]
    BY <1>3 DEF AutoApprove, Decide, Waits
  <2> QED  BY <2>1
<1>4. CASE Exit \/ TurnEnds \/ CallReturns
  BY <1>4 DEF Exit, TurnEnds, CallReturns
<1>5. CASE Launch \/ Render \/ Trust \/ TrustPersisted \/ TrustFails \/ ApproveHook \/ RefuseHook
             \/ ApprovalMode
  BY <1>5 DEF Launch, Render, Trust, TrustPersisted, TrustFails, ApproveHook, RefuseHook,
              ApprovalMode
<1>6. CASE (\E arg \in Modes \union {"confirm", ""} : Sandbox(arg))
             \/ (\E file \in Files : EditFile(file)) \/ (\E scope \in OldFormat : Migrate(scope))
  BY <1>6 DEF Sandbox, EditFile, Migrate
<1>7. CASE UNCHANGED vars
  BY <1>7 DEF vars
<1> QED  BY <1>1, <1>2, <1>3, <1>4, <1>5, <1>6, <1>7 DEF Next

(* The turn under way has the agent that the files, the trust it was given *)
(* and the switches it was sent with make.                                 *)
THEOREM TurnIsBuilt == Spec => [](TurnInv /\ CardInv)
<1>1. Init => TurnInv /\ CardInv
  BY DEF Init, TurnInv, CardInv
<1> QED  BY <1>1, TurnStep, CardStep, PTL DEF Spec

(* What a directory's trust grants and what the configuration is read with *)
(* are one.                                                                *)
LEMMA PostureReads ==
  ASSUME NEW S
  PROVE  ("projectConfig" \in Allows(S, TrustAll)) = (TrustAll \/ IsTrusted(S))
BY DEF Allows, Capabilities

TurnConfig(in, allows) == LoadConfig([in EXCEPT !.project = "projectConfig" \in allows])

LEMMA AgentParts ==
  \A in, allows, use :
    /\ use.sandbox = "" =>
         BuildChatAgent(in, allows, use).sandbox = TurnConfig(in, allows).sandbox_mode
    /\ BuildChatAgent(in, allows, use).hooks =
         BuildHookHandlers(TurnConfig(in, allows).hooks, "hooks" \in allows, use.approved)
<1> TAKE in, allows, use
<1> DEFINE cfg == TurnConfig(in, allows)
           own == WithSandboxMode(cfg, use)
<1>1. /\ BuildChatAgent(in, allows, use).sandbox = own.sandbox_mode
      /\ BuildChatAgent(in, allows, use).hooks =
           BuildHookHandlers(own.hooks, "hooks" \in allows, use.approved)
  BY DEF BuildChatAgent, TurnConfig
<1>2. own.hooks = cfg.hooks
  BY DEF WithSandboxMode, TurnConfig, LoadConfig, SchemaKeys
<1>3. use.sandbox = "" => own.sandbox_mode = cfg.sandbox_mode
  BY DEF WithSandboxMode
<1> QED  BY <1>1, <1>2, <1>3

LEMMA ConfinedStep ==
  ASSUME LoadedInv, TurnInv, CardInv, [Next]_vars,
         card # card', card'.tool \notin {"", "apply_patch"}, card'.settled = "auto",
         turn.use.sandbox = "", turn.allows = Allows(store, TrustAll), loadedAt = edits
  PROVE  Enforced(turn.agent.sandbox)
<1>1. AutoApprove
  <2>1. ASSUME NEW tool \in Calls, CallTool(tool) PROVE FALSE
    BY <2>1 DEF CallTool
  <2>2. ~Decide
    BY DEF Decide, Waits, CardInv
  <2>3. ~Exit /\ ~CallReturns
    <3>1. NoCard.tool = ""
      BY DEF NoCard
    <3> QED  BY <3>1 DEF Exit, CallReturns
  <2>4. card' # card
    OBVIOUS
  <2> QED  BY <2>1, <2>2, <2>3, <2>4
           DEF Next, Launch, Render, Trust, TrustPersisted, TrustFails, ApproveHook, RefuseHook,
               ApprovalMode, Sandbox, Send, TurnEnds, EditFile, Migrate, vars
<1>2. card # NoCard /\ card' = [card EXCEPT !.settled = "auto"] /\ running
  BY <1>1 DEF AutoApprove, Waits
<1>3. card'.tool = card.tool
  BY <1>2 DEF CardInv
<1>4. Enforced(loaded.sandbox_mode)
  BY <1>1, <1>3 DEF AutoApprove, ShouldAutoApprove
<1>5. turn # NoTurn
  BY <1>2 DEF CardInv
<1>6. ("projectConfig" \in turn.allows) = (TrustAll \/ IsTrusted(store))
  BY PostureReads
<1>7. Resolvable /\ EffectiveConfig = TurnConfig(Input, turn.allows)
  BY <1>5, <1>6 DEF TurnInv, BuildFails, Resolvable, EffectiveConfig, TurnConfig
<1>8. loaded = EffectiveConfig
  BY <1>2, <1>7 DEF LoadedInv, LoadedIsCurrent
<1>9. turn.agent.sandbox = loaded.sandbox_mode
  <2>1. turn.agent = BuildChatAgent(Input, turn.allows, turn.use)
    BY <1>5 DEF TurnInv
  <2>2. turn.use.sandbox = "" =>
          BuildChatAgent(Input, turn.allows, turn.use).sandbox
            = TurnConfig(Input, turn.allows).sandbox_mode
    BY AgentParts
  <2> QED  BY <1>7, <1>8, <2>1, <2>2
<1> QED  BY <1>4, <1>9

(* What full-auto approves by itself runs where the platform confines it,  *)
(* as long as the files, the trust and /sandbox are those of the           *)
(* configuration that decided it.                                          *)
THEOREM AutoApprovedStaysConfined == Spec => AutoApprovedIsConfined
<1>1. LoadedInv /\ TurnInv /\ CardInv /\ [Next]_vars =>
        [card # card' /\ card'.tool \notin {"", "apply_patch"} /\ card'.settled = "auto"
         /\ turn.use.sandbox = "" /\ turn.allows = Allows(store, TrustAll) /\ loadedAt = edits
         => Enforced(turn.agent.sandbox)]_vars
  BY ConfinedStep
<1> QED  BY <1>1, LoadedHolds, TurnIsBuilt, PTL DEF Spec, AutoApprovedIsConfined

-----------------------------------------------------------------------------
(* The files.                                                              *)

(* A set of numbers has a least one: of the intervals below its members,   *)
(* one holds no other.                                                     *)
LEMMA HasMin ==
  ASSUME NEW S \in SUBSET Nat, S # {}
  PROVE  Min(S) \in S /\ \A y \in S : Min(S) <= y
<1> DEFINE below == {1 .. n : n \in S}
<1>1. below \subseteq FiniteSubsetsOf(Nat) /\ below # {}
  <2>1. \A n \in S : IsFiniteSet(1 .. n)
    BY FS_Interval
  <2>2. \A n \in S : (1 .. n) \in FiniteSubsetsOf(Nat)
    BY <2>1 DEF FiniteSubsetsOf
  <2>3. PICK n \in S : TRUE
    OBVIOUS
  <2>4. (1 .. n) \in below
    OBVIOUS
  <2> QED  BY <2>2, <2>4
<1>2. PICK b \in below : \A c \in below : ~(<<c, b>> \in StrictSubsetOrdering(Nat))
  <2> HIDE DEF below
  <2> QED  BY <1>1, FS_StrictSubsetOrderingWellFounded, WFMin
<1>3. PICK n \in S : b = 1 .. n
  OBVIOUS
<1>4. ASSUME NEW m \in S, m < n PROVE FALSE
  <2>1. (1 .. m) \subseteq (1 .. n) /\ n \in 1 .. n /\ n \notin 1 .. m /\ (1 .. m) \in below
    BY <1>4
  <2>2. (1 .. m) # (1 .. n) /\ (1 .. m) \in SUBSET Nat /\ (1 .. n) \in SUBSET Nat
    BY <2>1
  <2>3. <<1 .. m, 1 .. n>> \in StrictSubsetOrdering(Nat)
    BY <2>1, <2>2 DEF StrictSubsetOrdering
  <2> QED  BY <1>2, <1>3, <2>1, <2>3
<1>5. \A m \in S : n <= m
  BY <1>4
<1> QED  BY <1>5 DEF Min

LEMMA HasMax4 ==
  ASSUME NEW S \in SUBSET (1 .. 4), S # {}
  PROVE  Max(S) \in S
<1>1. \E x \in S : \A y \in S : x >= y
  <2>1. CASE 4 \in S
    BY <2>1
  <2>2. CASE 4 \notin S /\ 3 \in S
    BY <2>2
  <2>3. CASE 4 \notin S /\ 3 \notin S /\ 2 \in S
    BY <2>3
  <2>4. CASE 4 \notin S /\ 3 \notin S /\ 2 \notin S
    <3>1. PICK x \in S : TRUE
      OBVIOUS
    <3>2. \A y \in S : y = 1
      BY <2>4
    <3> QED  BY <3>1, <3>2
  <2> QED  BY <2>1, <2>2, <2>3, <2>4
<1> QED  BY <1>1 DEF Max

LEMMA CandidateFiles ==
  ASSUME NEW scope \in Scopes
  PROVE  /\ DOMAIN Candidates[scope] \subseteq 1 .. 3
         /\ \A i \in DOMAIN Candidates[scope] : Candidates[scope][i].file \in Files
<1> USE DEF Files, ProjectFiles
<1>1. CASE scope = "user"
  <2>1. Candidates[scope] = << Candidate("~/.theokit", FALSE, "ours"),
                               Candidate("~/.theocode", FALSE, "ours"),
                               Candidate("~/.claude", TRUE, "inert") >>
    BY <1>1 DEF Candidates
  <2>2. DOMAIN Candidates[scope] = 1 .. 3
    BY <2>1
  <2>3. /\ Candidates[scope][1].file = "~/.theokit"
        /\ Candidates[scope][2].file = "~/.theocode"
        /\ Candidates[scope][3].file = "~/.claude"
    BY <2>1 DEF Candidate
  <2>4. \A i \in 1 .. 3 : i = 1 \/ i = 2 \/ i = 3
    OBVIOUS
  <2> QED  BY <2>2, <2>3, <2>4
<1>2. CASE scope = "project"
  <2>1. Candidates[scope] = << Candidate(".theokit", FALSE, "refuse"),
                               Candidate(".theocode", FALSE, "ours"),
                               Candidate(".claude", TRUE, "sdk") >>
    BY <1>2 DEF Candidates
  <2>2. DOMAIN Candidates[scope] = 1 .. 3
    BY <2>1
  <2>3. /\ Candidates[scope][1].file = ".theokit"
        /\ Candidates[scope][2].file = ".theocode"
        /\ Candidates[scope][3].file = ".claude"
    BY <2>1 DEF Candidate
  <2>4. \A i \in 1 .. 3 : i = 1 \/ i = 2 \/ i = 3
    OBVIOUS
  <2> QED  BY <2>2, <2>3, <2>4
<1>3. CASE scope = "project_local"
  <2>1. Candidates[scope] = << Candidate(".theokit.local", FALSE, "refuse"),
                               Candidate(".claude.local", TRUE, "sdk") >>
    BY <1>3 DEF Candidates
  <2>2. DOMAIN Candidates[scope] = 1 .. 2
    BY <2>1
  <2>3. /\ Candidates[scope][1].file = ".theokit.local"
        /\ Candidates[scope][2].file = ".claude.local"
    BY <2>1 DEF Candidate
  <2>4. \A i \in 1 .. 2 : i = 1 \/ i = 2
    OBVIOUS
  <2> QED  BY <2>2, <2>3, <2>4
<1> QED  BY <1>1, <1>2, <1>3 DEF Scopes

LEMMA FirstIsFile ==
  ASSUME NEW d, NEW scope \in Scopes, Found(d, scope) # {}
  PROVE  First(d, scope).file \in Files
<1>1. Found(d, scope) \subseteq DOMAIN Candidates[scope] /\ DOMAIN Candidates[scope] \subseteq Nat
  BY CandidateFiles DEF Found
<1>2. Min(Found(d, scope)) \in DOMAIN Candidates[scope]
  BY <1>1, HasMin
<1> QED  BY <1>2, CandidateFiles DEF First

(* The files hold what the schema accepts, or are refused when read.       *)
FilesInv == DOMAIN disk = Files /\ \A file \in Files : InSchema(disk[file])

LEMMA FilesStep == FilesInv /\ [Next]_vars => FilesInv'
<1> SUFFICES ASSUME FilesInv, [Next]_vars PROVE FilesInv'
  OBVIOUS
<1>1. ASSUME NEW file \in Files, NEW doc \in DocumentsOf(file),
             disk' = [disk EXCEPT ![file] = doc]
      PROVE  FilesInv'
  BY <1>1, DocumentsAssumption DEF FilesInv
<1>2. ASSUME NEW file \in Files, EditFile(file) PROVE FilesInv'
  BY <1>1, <1>2 DEF EditFile
<1>3. ASSUME NEW scope \in OldFormat, Migrate(scope) PROVE FilesInv'
  <2>1. "~/.theokit" \in Files /\ ".theokit" \in Files
    BY DEF Files, ProjectFiles
  <2> QED  BY <1>1, <1>3, <2>1 DEF Migrate
<1>4. CASE UNCHANGED disk
  BY <1>4 DEF FilesInv
<1>5. CASE Launch \/ Exit \/ Render \/ Trust \/ TrustPersisted \/ TrustFails \/ ApproveHook
             \/ RefuseHook \/ ApprovalMode
  BY <1>4, <1>5 DEF Launch, Exit, Render, Trust, TrustPersisted, TrustFails, ApproveHook,
                    RefuseHook, ApprovalMode, files
<1>6. CASE (\E arg \in Modes \union {"confirm", ""} : Sandbox(arg)) \/ Send \/ TurnEnds
             \/ (\E tool \in Calls : CallTool(tool)) \/ AutoApprove \/ Decide \/ CallReturns
  BY <1>4, <1>6 DEF Sandbox, Send, TurnEnds, CallTool, AutoApprove, Decide, CallReturns, files
<1>7. CASE UNCHANGED vars
  BY <1>4, <1>7 DEF vars, files
<1> QED  BY <1>2, <1>3, <1>5, <1>6, <1>7 DEF Next

LEMMA FilesHold == Spec => []FilesInv
<1>1. Init => FilesInv
  BY StartAssumption DEF Init, FilesInv
<1> QED  BY <1>1, FilesStep, PTL DEF Spec

-----------------------------------------------------------------------------
(* The layers of the configuration.                                        *)

NoFlags(in) == in.cli.values = Nothing /\ in.cli.profile = "" /\ in.cli.profiles = Nothing
FilesValid(in) == \A file \in Files : InSchema(in.disk[file])

LEMMA NothingIsValid == Valid(Nothing) /\ DOMAIN Nothing = {}
BY DEF Valid, Nothing

LEMMA DefaultsAreValid == Valid(Defaults)
<1>1. \A key \in DOMAIN Permissiveness : key = "sandbox_mode" \/ key = "approval_policy"
  BY DEF Permissiveness
<1>2. /\ Permissiveness.sandbox_mode[2] = "workspace-write"
      /\ Permissiveness.approval_policy[2] = "on-request"
      /\ 2 \in DOMAIN Permissiveness.sandbox_mode /\ 2 \in DOMAIN Permissiveness.approval_policy
  BY DEF Permissiveness
<1>3. /\ "workspace-write" \in Range(Permissiveness.sandbox_mode)
      /\ "on-request" \in Range(Permissiveness.approval_policy)
  BY <1>2 DEF Range
<1>4. Defaults.sandbox_mode = "workspace-write" /\ Defaults.approval_policy = "on-request"
        /\ Defaults.hooks = <<>>
  BY DEF Defaults
<1>5. Defaults.hooks \in Seq(Range(Defaults.hooks))
  BY <1>4
<1> QED  BY <1>1, <1>3, <1>4, <1>5 DEF Valid

(* What a scope sets is valid, where the configuration can be read.        *)
LEMMA SettingsAreValid ==
  ASSUME NEW in, FilesValid(in), ~ConfigError(in), NEW scope \in Scopes
  PROVE  /\ Valid(Settings(in, scope).values)
         /\ \A name \in DOMAIN Settings(in, scope).profiles :
              Valid(Settings(in, scope).profiles[name])
<1>1. CASE ~IsSet(in, scope)
  BY <1>1, NothingIsValid DEF Settings
<1>2. CASE IsSet(in, scope)
  <2> DEFINE c == First(in.disk, scope)
             doc == in.disk[c.file]
  <2>1. c.file \in Files /\ ~Rejected(doc, c)
    BY <1>2, FirstIsFile DEF IsSet, ConfigError
  <2>2. \A table \in {doc.values} \union Range(doc.profiles) : Valid(table)
    BY <2>1 DEF FilesValid, InSchema, Rejected
  <2>3. Settings(in, scope) = Translate(doc, c)
    BY <1>2 DEF Settings
  <2> HIDE DEF doc, c
  <2>4. Valid(Translate(doc, c).values)
    <3>1. \A key \in DOMAIN Translate(doc, c).values :
            key \in DOMAIN doc.values /\ Translate(doc, c).values[key] = doc.values[key]
      BY DEF Translate
    <3>2. Valid(doc.values)
      BY <2>2
    <3> QED  BY <3>1, <3>2 DEF Valid
  <2>5. Translate(doc, c).profiles \in {doc.profiles, Nothing}
    BY DEF Translate
  <2>6. \A name \in DOMAIN doc.profiles : Valid(doc.profiles[name])
    BY <2>2 DEF Range
  <2> QED  BY <2>3, <2>4, <2>5, <2>6, NothingIsValid
<1> QED  BY <1>1, <1>2

LEMMA ProfileIsValid ==
  ASSUME NEW in, FilesValid(in), ~ConfigError(in), NoFlags(in)
  PROVE  Valid(Profile(in))
<1> DEFINE layers == ProfileLayers(in)
           name == ProfileName(layers)
<1>1. CASE name = ""
  BY <1>1, NothingIsValid DEF Profile
<1>2. CASE name # ""
  <2>1. Defining(layers, name) # {}
    BY <1>2 DEF ConfigError, Undefined
  <2>2. DOMAIN layers = 1 .. 4
    BY DEF ProfileLayers
  <2>3. Defining(layers, name) \in SUBSET (1 .. 4)
    BY <2>2 DEF Defining
  <2>4. PICK i \in 1 .. 4 : i \in Defining(layers, name) /\ i = Max(Defining(layers, name))
    BY <2>1, <2>3, HasMax4
  <2>5. Profile(in) = layers[i].profiles[name] /\ name \in DOMAIN layers[i].profiles
    BY <1>2, <2>4 DEF Profile, Defining
  <2>6. \A n \in DOMAIN layers[i].profiles : Valid(layers[i].profiles[n])
    <3>1. /\ layers[1] = Settings(in, "user") /\ layers[2] = Settings(in, "project")
          /\ layers[3] = Settings(in, "project_local") /\ layers[4] = in.cli
      BY DEF ProfileLayers
    <3>2. i \in {1, 2, 3} => layers[i] \in {Settings(in, scope) : scope \in Scopes}
      BY <3>1 DEF Scopes
    <3>3. i = 4 => DOMAIN layers[i].profiles = {}
      BY <3>1, NothingIsValid DEF NoFlags
    <3>4. i \in {1, 2, 3} \/ i = 4
      OBVIOUS
    <3> HIDE DEF layers
    <3> QED  BY <3>2, <3>3, <3>4, SettingsAreValid
  <2> HIDE DEF layers, name
  <2> QED  BY <2>5, <2>6
<1> QED  BY <1>1, <1>2

LayerNames == {"defaults", "user", "project", "project_local", "profile", "env", "cli"}

LEMMA LayersAreValid ==
  ASSUME NEW in, FilesValid(in), ~ConfigError(in), NoFlags(in), NEW l \in LayerNames
  PROVE  Valid(PerLayer(in)[l])
<1>1. CASE l = "env"
  <2>1. PerLayer(in).env = [k \in DOMAIN in.env \intersect EnvKeys |-> in.env[k]]
    BY DEF PerLayer
  <2>2. "hooks" \notin EnvKeys
    BY DEF EnvKeys
  <2> QED  BY <1>1, <2>1, <2>2 DEF ConfigError, Valid
<1>2. CASE l # "env"
  <2>1. PerLayer(in)[l] \in {Defaults, Settings(in, "user").values, Settings(in, "project").values,
                             Settings(in, "project_local").values, Profile(in), Nothing}
    <3>1. /\ PerLayer(in).defaults = Defaults
          /\ PerLayer(in).user = Settings(in, "user").values
          /\ PerLayer(in).project = Settings(in, "project").values
          /\ PerLayer(in).project_local = Settings(in, "project_local").values
          /\ PerLayer(in).profile = Profile(in)
          /\ PerLayer(in).cli = Nothing
      BY DEF PerLayer, NoFlags
    <3> QED  BY <1>2, <3>1 DEF LayerNames
  <2> QED  BY <2>1, NothingIsValid, DefaultsAreValid, SettingsAreValid, ProfileIsValid DEF Scopes
<1> QED  BY <1>1, <1>2

-----------------------------------------------------------------------------
(* The security floor.                                                     *)

LEMMA OpennessIsRank ==
  ASSUME NEW key \in DOMAIN Permissiveness, NEW v \in Range(Permissiveness[key])
  PROVE  Openness(key, v) \in 1 .. 3
<1>1. DOMAIN Permissiveness[key] = 1 .. 3
  BY DEF Permissiveness
<1>2. \E i \in 1 .. 3 : Permissiveness[key][i] = v
  BY <1>1 DEF Range
<1> QED  BY <1>2 DEF Openness

(* Without a flag, the floor is no more open than the operator's own say:  *)
(* it is the least open of what was said, which that is one of.            *)
LEMMA FloorTightens ==
  ASSUME NEW per, NEW key \in DOMAIN Permissiveness,
         \A l \in LayerNames : Valid(per[l]),
         key \notin DOMAIN per.cli, key \in DOMAIN per.defaults
  PROVE  Openness(key, ApplySecurityFloor(per, key)) <= Openness(key, Baseline(per, key))
<1> DEFINE tighter == {Baseline(per, key)}
                        \union {per[l][key] : l \in {l \in CannotLoosen : key \in DOMAIN per[l]}}
           open == {Openness(key, v) : v \in tighter}
<1>1. \A l \in LayerNames : key \in DOMAIN per[l] => per[l][key] \in Range(Permissiveness[key])
  BY DEF Valid
<1>2. Baseline(per, key) \in Range(Permissiveness[key])
  BY <1>1 DEF Baseline, LayerNames
<1>3. \A v \in tighter : v \in Range(Permissiveness[key])
  BY <1>1, <1>2 DEF CannotLoosen, LayerNames
<1>4. \A v \in tighter : Openness(key, v) \in 1 .. 3
  BY <1>3, OpennessIsRank
<1>5. ApplySecurityFloor(per, key) =
        CHOOSE v \in tighter : \A w \in tighter : Openness(key, v) <= Openness(key, w)
  BY DEF ApplySecurityFloor
<1>6. Baseline(per, key) \in tighter
  OBVIOUS
<1> HIDE DEF tighter
<1>7. open \in SUBSET Nat /\ open # {}
  BY <1>4, <1>6
<1>8. Min(open) \in open /\ \A o \in open : Min(open) <= o
  <2> HIDE DEF open
  <2> QED  BY <1>7, HasMin
<1>9. PICK v \in tighter : \A w \in tighter : Openness(key, v) <= Openness(key, w)
  BY <1>8
<1> QED  BY <1>5, <1>6, <1>9

(* The operator's own say is the same whatever is read of the project.     *)
LEMMA OwnSay ==
  ASSUME NEW p, NEW q, NEW key
  PROVE  Baseline(PerLayer([Input EXCEPT !.project = p]), key)
           = Baseline(PerLayer([Input EXCEPT !.project = q]), key)
<1> DEFINE a == [Input EXCEPT !.project = p]
           b == [Input EXCEPT !.project = q]
<1>1. a.disk = disk /\ b.disk = disk
  BY DEF Input
<1>2. Settings(a, "user") = Settings(b, "user")
  BY <1>1 DEF Settings, IsSet, Read
<1>3. /\ PerLayer(a).defaults = PerLayer(b).defaults
      /\ PerLayer(a).user = PerLayer(b).user
  BY <1>2 DEF PerLayer
<1> QED  BY <1>3 DEF Baseline

(* What is read of the files tightens the operator's own say only.         *)
LEMMA ReadTightens ==
  ASSUME FilesInv, NEW p, NEW key \in DOMAIN Permissiveness,
         ~ConfigError([Input EXCEPT !.project = p])
  PROVE  Openness(key, LoadConfig([Input EXCEPT !.project = p])[key])
           <= Openness(key, Baseline(PerLayer([Input EXCEPT !.project = FALSE]), key))
<1> DEFINE in == [Input EXCEPT !.project = p]
           per == PerLayer(in)
<1>1. in.disk = disk /\ in.cli = NoCli
  BY DEF Input
<1> HIDE DEF in
<1>2. FilesValid(in) /\ NoFlags(in)
  <2>1. FilesValid(in)
    BY <1>1 DEF FilesInv, FilesValid
  <2>2. NoCli.values = Nothing /\ NoCli.profile = "" /\ NoCli.profiles = Nothing
    BY DEF NoCli
  <2> QED  BY <1>1, <2>1, <2>2 DEF NoFlags
<1>3. \A l \in LayerNames : Valid(per[l])
  BY <1>2, LayersAreValid DEF in
<1>4. key = "sandbox_mode" \/ key = "approval_policy"
  BY DEF Permissiveness
<1>5. per.cli = Nothing /\ per.defaults = Defaults
  BY <1>2 DEF PerLayer, NoFlags
<1>6. key \notin DOMAIN per.cli /\ key \in DOMAIN per.defaults
  BY <1>4, <1>5, NothingIsValid DEF Defaults
<1>7. Openness(key, ApplySecurityFloor(per, key)) <= Openness(key, Baseline(per, key))
  <2> HIDE DEF per
  <2> QED  BY <1>3, <1>6, FloorTightens
<1>8. LoadConfig(in)[key] = ApplySecurityFloor(per, key)
  BY <1>4 DEF LoadConfig, SchemaKeys
<1>9. Baseline(per, key) = Baseline(PerLayer([Input EXCEPT !.project = FALSE]), key)
  BY OwnSay DEF in
<1> QED  BY <1>7, <1>8, <1>9 DEF in

(* Whatever a repository, a profile or the environment sets, the sandbox   *)
(* and the approval policy are no more permissive than the operator's own  *)
(* file says, or the default, and a turn without /sandbox runs in that.    *)
THEOREM RepositoryOnlyTightens == Spec => []RepositoryTightensOnly
<1>1. FilesInv /\ TurnInv => RepositoryTightensOnly
  <2> SUFFICES ASSUME FilesInv, TurnInv PROVE RepositoryTightensOnly
    OBVIOUS
  <2> DEFINE own == PerLayer([Input EXCEPT !.project = FALSE])
  <2>1. ASSUME Resolvable, NEW key \in DOMAIN Permissiveness
        PROVE  Openness(key, EffectiveConfig[key]) <= Openness(key, Baseline(own, key))
    BY <2>1, ReadTightens DEF Resolvable, EffectiveConfig
  <2>2. ASSUME turn # NoTurn, turn.use.sandbox = ""
        PROVE  Openness("sandbox_mode", turn.agent.sandbox)
                 <= Openness("sandbox_mode", Baseline(own, "sandbox_mode"))
    <3>1. /\ turn.agent = BuildChatAgent(Input, turn.allows, turn.use)
          /\ ~ConfigError([Input EXCEPT !.project = "projectConfig" \in turn.allows])
      BY <2>2 DEF TurnInv, BuildFails
    <3>2. turn.agent.sandbox
            = LoadConfig([Input EXCEPT !.project = "projectConfig" \in turn.allows])["sandbox_mode"]
      <4>1. turn.agent.sandbox = TurnConfig(Input, turn.allows).sandbox_mode
        <5>1. turn.use.sandbox = "" =>
                BuildChatAgent(Input, turn.allows, turn.use).sandbox
                  = TurnConfig(Input, turn.allows).sandbox_mode
          BY AgentParts
        <5> QED  BY <2>2, <3>1, <5>1
      <4> QED  BY <4>1 DEF TurnConfig
    <3>3. "sandbox_mode" \in DOMAIN Permissiveness
      BY DEF Permissiveness
    <3> QED  BY <3>1, <3>2, <3>3, ReadTightens
  <2> QED  BY <2>1, <2>2 DEF RepositoryTightensOnly
<1> QED  BY <1>1, FilesHold, TurnIsBuilt, PTL

-----------------------------------------------------------------------------
(* A directory that is not trusted.                                        *)

LEMMA UserFiles ==
  \A i \in DOMAIN Candidates["user"] : Candidates["user"][i].file \in Files \ ProjectFiles
<1>1. Candidates["user"] = << Candidate("~/.theokit", FALSE, "ours"),
                              Candidate("~/.theocode", FALSE, "ours"),
                              Candidate("~/.claude", TRUE, "inert") >>
  BY DEF Candidates
<1>2. DOMAIN Candidates["user"] = 1 .. 3
  BY <1>1
<1>3. /\ Candidates["user"][1].file = "~/.theokit"
      /\ Candidates["user"][2].file = "~/.theocode"
      /\ Candidates["user"][3].file = "~/.claude"
  BY <1>1 DEF Candidate
<1>4. \A i \in 1 .. 3 : i = 1 \/ i = 2 \/ i = 3
  OBVIOUS
<1> QED  BY <1>2, <1>3, <1>4 DEF Files, ProjectFiles

(* The files that are not the repository's decide what is read without it. *)
LEMMA ProjectUnread ==
  ASSUME NEW a, NEW b, a.project = FALSE, b.project = FALSE,
         \A file \in Files \ ProjectFiles : a.disk[file] = b.disk[file],
         a.env = b.env, a.cli = b.cli
  PROVE  LoadConfig(a) = LoadConfig(b)
<1>1. \A scope \in {"project", "project_local"} : ~IsSet(a, scope) /\ ~IsSet(b, scope)
  BY DEF IsSet, Read
<1>2. \A scope \in {"project", "project_local"} : Settings(a, scope) = Settings(b, scope)
  BY <1>1 DEF Settings
<1>3. Found(a.disk, "user") = Found(b.disk, "user")
  BY UserFiles DEF Found
<1>4. Settings(a, "user") = Settings(b, "user")
  <2>1. IsSet(a, "user") <=> IsSet(b, "user")
    BY <1>3 DEF IsSet, Read
  <2>2. First(a.disk, "user") = First(b.disk, "user")
    BY <1>3 DEF First
  <2>3. ASSUME IsSet(a, "user")
        PROVE  a.disk[First(a.disk, "user").file] = b.disk[First(b.disk, "user").file]
    <3>1. Found(a.disk, "user") # {} /\ Found(a.disk, "user") \subseteq DOMAIN Candidates["user"]
      BY <2>3 DEF IsSet, Found
    <3>2. DOMAIN Candidates["user"] \subseteq Nat
      BY CandidateFiles DEF Scopes
    <3>3. Min(Found(a.disk, "user")) \in DOMAIN Candidates["user"]
      BY <3>1, <3>2, HasMin
    <3>4. First(a.disk, "user").file \in Files \ ProjectFiles
      BY <3>3, UserFiles DEF First
    <3> QED  BY <2>2, <3>4
  <2> QED  BY <2>1, <2>2, <2>3 DEF Settings
<1>5. ProfileLayers(a) = ProfileLayers(b)
  BY <1>2, <1>4 DEF ProfileLayers
<1>6. Profile(a) = Profile(b)
  BY <1>5 DEF Profile
<1>7. PerLayer(a) = PerLayer(b)
  BY <1>2, <1>4, <1>6 DEF PerLayer
<1> QED  BY <1>7 DEF LoadConfig

(* A turn reads its files through its configuration only.                  *)
LEMMA BuiltFromConfig ==
  \A a, b, allows, use :
    TurnConfig(a, allows) = TurnConfig(b, allows)
      => BuildChatAgent(a, allows, use) = BuildChatAgent(b, allows, use)
<1> SUFFICES ASSUME NEW a, NEW b, NEW allows, NEW use,
                    TurnConfig(a, allows) = TurnConfig(b, allows)
             PROVE  BuildChatAgent(a, allows, use) = BuildChatAgent(b, allows, use)
  OBVIOUS
<1> DEFINE ca == LoadConfig([a EXCEPT !.project = "projectConfig" \in allows])
           cb == LoadConfig([b EXCEPT !.project = "projectConfig" \in allows])
<1>1. ca = cb
  BY DEF TurnConfig
<1> HIDE DEF ca, cb
<1> QED  BY <1>1 DEF BuildChatAgent, ca, cb

LEMMA UntrustedParts ==
  ASSUME NEW in, NEW use
  PROVE  /\ BuildChatAgent(in, {}, use).mcp = PersonalMcp
         /\ BuildChatAgent(in, {}, use).skills = OperatorSkills
         /\ BuildChatAgent(in, {}, use).sources = {"user"}
         /\ BuildChatAgent(in, {}, use).document = <<"user">>
<1>1. McpScopes({}).servers = PersonalMcp
  BY DEF McpScopes
<1>2. \A cfg : Skills({}, cfg) = OperatorSkills
  BY DEF Skills
<1>3. SettingSources({}) = {"user"}
  BY DEF SettingSources, ProjectSourceAllowed
<1>4. ProjectDocument({}) = <<"user">>
  BY DEF ProjectDocument
<1> QED  BY <1>1, <1>2, <1>3, <1>4 DEF BuildChatAgent

(* The agent of a turn in a directory that is not trusted is the one it    *)
(* would have if the repository held none of the files.                    *)
THEOREM UntrustedIsUnread == Spec => []NothingFromUntrusted
<1>1. TurnInv => NothingFromUntrusted
  <2> SUFFICES ASSUME TurnInv, turn # NoTurn, turn.allows = {} PROVE NothingFromUntrusted
    BY DEF NothingFromUntrusted
  <2> DEFINE masked == [f \in Files |-> IF f \in ProjectFiles THEN NoFile ELSE disk[f]]
             a == [Input EXCEPT !.project = "projectConfig" \in {}]
             b == [[Input EXCEPT !.disk = masked] EXCEPT !.project = "projectConfig" \in {}]
  <2>1. turn.agent = BuildChatAgent(Input, {}, turn.use)
    BY DEF TurnInv
  <2>2. ("projectConfig" \in {}) = FALSE
    OBVIOUS
  <2>3. /\ a.project = FALSE /\ b.project = FALSE /\ a.disk = disk /\ b.disk = masked
        /\ a.env = b.env /\ a.cli = b.cli
    BY <2>2 DEF Input
  <2>4. \A file \in Files \ ProjectFiles : a.disk[file] = b.disk[file]
    BY <2>3
  <2>5. LoadConfig(a) = LoadConfig(b)
    <3> HIDE DEF a, b
    <3> QED  BY <2>3, <2>4, ProjectUnread
  <2>6. TurnConfig(Input, {}) = TurnConfig([Input EXCEPT !.disk = masked], {})
    BY <2>5 DEF TurnConfig
  <2>7. BuildChatAgent(Input, {}, turn.use) = BuildChatAgent([Input EXCEPT !.disk = masked], {}, turn.use)
    <3> HIDE DEF masked
    <3> QED  BY <2>6, BuiltFromConfig
  <2> QED  BY <2>1, <2>7, UntrustedParts DEF NothingFromUntrusted
<1> QED  BY <1>1, TurnIsBuilt, PTL

-----------------------------------------------------------------------------
(* The hooks.                                                              *)

IsArray(s) == s \in Seq(Range(s))

LEMMA ConcatIsArray ==
  ASSUME NEW s, NEW t, IsArray(s), IsArray(t)
  PROVE  IsArray(s \o t)
<1> DEFINE S == Range(s) \union Range(t)
           u == s \o t
<1>1. s \in Seq(S) /\ t \in Seq(S)
  BY DEF IsArray
<1>2. u \in Seq(S)
  <2> HIDE DEF S
  <2> QED  BY <1>1
<1> HIDE DEF u, S
<1>3. Len(u) \in Nat /\ DOMAIN u = 1 .. Len(u) /\ u = [i \in 1 .. Len(u) |-> u[i]]
  BY <1>2
<1>4. \A i \in 1 .. Len(u) : u[i] \in Range(u)
  BY <1>3 DEF Range
<1>5. u \in [1 .. Len(u) -> Range(u)]
  BY <1>3, <1>4
<1>6. u \in Seq(Range(u))
  BY <1>3, <1>5
<1> QED  BY <1>6 DEF IsArray, u

LEMMA HooksAreArray ==
  ASSUME NEW in, FilesValid(in), ~ConfigError(in), NoFlags(in)
  PROVE  IsArray(LoadConfig(in).hooks)
<1> DEFINE per == PerLayer(in)
           of(layer) == IF "hooks" \in DOMAIN per[layer] THEN per[layer]["hooks"] ELSE <<>>
<1>1. LoadConfig(in).hooks = Accumulate(per, "hooks")
  BY DEF LoadConfig, SchemaKeys, Permissiveness, Fold, Accumulating
<1>2. \A l \in LayerNames : Valid(per[l])
  BY LayersAreValid
<1> HIDE DEF per
<1>3. IsArray(<<>>)
  BY DEF IsArray
<1>4. \A l \in LayerNames : IsArray(of(l))
  BY <1>2, <1>3 DEF Valid, IsArray
<1>5. Accumulate(per, "hooks") = of("defaults") \o of("user") \o of("project") \o of("project_local")
                                   \o of("profile") \o of("env") \o of("cli")
  BY DEF Accumulate
<1> HIDE DEF of
<1>6. /\ IsArray(of("defaults")) /\ IsArray(of("user")) /\ IsArray(of("project"))
      /\ IsArray(of("project_local")) /\ IsArray(of("profile")) /\ IsArray(of("env"))
      /\ IsArray(of("cli"))
  BY <1>4 DEF LayerNames
<1>7. IsArray(of("defaults") \o of("user") \o of("project"))
  BY <1>6, ConcatIsArray
<1>8. IsArray(of("defaults") \o of("user") \o of("project") \o of("project_local") \o of("profile"))
  BY <1>6, <1>7, ConcatIsArray
<1>9. IsArray(of("defaults") \o of("user") \o of("project") \o of("project_local") \o of("profile")
                \o of("env") \o of("cli"))
  BY <1>6, <1>8, ConcatIsArray
<1> QED  BY <1>1, <1>5, <1>9

(* The hook a fingerprint is taken from has the command and the event.     *)
LEMMA OriginMatches ==
  ASSUME NEW hooks, IsArray(hooks), NEW h \in Range(hooks)
  PROVE  Origin(hooks, h).command = h.command /\ Origin(hooks, h).event = h.event
<1> DEFINE S == {i \in DOMAIN hooks : hooks[i].command = h.command /\ hooks[i].event = h.event}
<1>1. S \in SUBSET Nat /\ S # {}
  BY DEF IsArray, Range
<1>2. Min(S) \in S
  <2> HIDE DEF S
  <2> QED  BY <1>1, HasMin
<1> QED  BY <1>2 DEF Origin

(* No hook was said no to and yes; and none of either is asked about.      *)
GateInv ==
  /\ DOMAIN consent = {"trusted", "reviewed", "declined", "pending", "stale"}
  /\ consent.stale \in BOOLEAN
  /\ approved \intersect consent.declined = {}
  /\ ~consent.stale =>
       Places \subseteq Nat /\ \A i \in Places : consent.pending[i] \notin approved \union consent.declined

LEMMA FreshGate ==
  ASSUME NEW t
  PROVE  /\ DOMAIN InitialState(t) = {"trusted", "reviewed", "declined", "pending", "stale"}
         /\ InitialState(t).stale = TRUE /\ InitialState(t).declined = {}
BY DEF InitialState

LEMMA AskedIsOpen ==
  ASSUME GateInv, Shows("hooks-gate")
  PROVE  Asked \notin approved \union consent.declined
<1>1. Places # {} /\ ~consent.stale
  BY DEF Shows, Slot
<1>2. Places \in SUBSET Nat
  BY <1>1 DEF GateInv
<1>3. Min(Places) \in Places
  BY <1>1, <1>2, HasMin
<1> QED  BY <1>1, <1>3 DEF GateInv, Asked

LEMMA PendingIsOpen ==
  ASSUME FilesInv, NEW declined
  PROVE  LET p == ComputePendingHooks(declined)
         IN  DOMAIN p \subseteq Nat /\ \A i \in DOMAIN p : p[i] \notin approved \union declined
<1> DEFINE in == [Input EXCEPT !.project = TrustAll \/ IsTrusted(store)]
           hooks == EffectiveConfig.hooks
           open == {i \in DOMAIN hooks : hooks[i] \notin approved \union declined}
<1>1. CASE ~Resolvable \/ ParseError(hooks)
  <2>1. ComputePendingHooks(declined) = <<>>
    BY <1>1 DEF ComputePendingHooks
  <2> QED  BY <2>1
<1>2. CASE ~(~Resolvable \/ ParseError(hooks))
  <2>1. ComputePendingHooks(declined) = [i \in open |-> hooks[i]]
    BY <1>2 DEF ComputePendingHooks
  <2>2. in.disk = disk /\ in.cli = NoCli
    BY DEF Input
  <2>3. ~ConfigError(in) /\ hooks = LoadConfig(in).hooks
    BY <1>2 DEF Resolvable, EffectiveConfig
  <2> HIDE DEF in
  <2>4. FilesValid(in)
    BY <2>2 DEF FilesInv, FilesValid
  <2>5. NoCli.values = Nothing /\ NoCli.profile = "" /\ NoCli.profiles = Nothing
    BY DEF NoCli
  <2>6. NoFlags(in)
    BY <2>2, <2>5 DEF NoFlags
  <2>7. IsArray(hooks)
    BY <2>3, <2>4, <2>6, HooksAreArray
  <2> HIDE DEF hooks
  <2>8. DOMAIN hooks \subseteq Nat
    BY <2>7 DEF IsArray
  <2> QED  BY <2>1, <2>8
<1> QED  BY <1>1, <1>2

LEMMA GateStep == FilesInv /\ GateInv /\ [Next]_vars => GateInv'
<1> SUFFICES ASSUME FilesInv, GateInv, [Next]_vars PROVE GateInv'
  OBVIOUS
<1>0. ASSUME UNCHANGED <<approved, consent>> PROVE GateInv'
  BY <1>0 DEF GateInv, Places
<1>1. CASE Launch \/ Exit
  <2>1. approved' = approved /\ \E t : consent' = InitialState(t)
    BY <1>1 DEF Launch, Exit, grants
  <2> QED  BY <2>1, FreshGate DEF GateInv
<1>2. CASE Render
  <2> DEFINE p == ComputePendingHooks(consent.declined)
  <2>1. approved' = approved /\ consent' = [consent EXCEPT !.pending = p, !.stale = FALSE]
    BY <1>2 DEF Render, grants
  <2>2. DOMAIN p \subseteq Nat /\ \A i \in DOMAIN p : p[i] \notin approved \union consent.declined
    BY PendingIsOpen
  <2> HIDE DEF p
  <2>3. /\ DOMAIN consent' = DOMAIN consent /\ consent'.pending = p /\ consent'.stale = FALSE
        /\ consent'.declined = consent.declined
    BY <2>1 DEF GateInv
  <2> QED  BY <2>1, <2>2, <2>3 DEF GateInv, Places
<1>3. CASE ApproveHook
  <2>1. /\ Asked \notin consent.declined /\ approved' = approved \union {Asked}
        /\ consent' = [consent EXCEPT !.stale = TRUE, !.reviewed = ReviewedAfter]
    BY <1>3, AskedIsOpen DEF ApproveHook
  <2>2. DOMAIN consent' = DOMAIN consent /\ consent'.stale = TRUE
          /\ consent'.declined = consent.declined
    BY <2>1 DEF GateInv
  <2> QED  BY <2>1, <2>2 DEF GateInv
<1>4. CASE RefuseHook
  <2>1. /\ Asked \notin approved /\ approved' = approved
        /\ consent' = [consent EXCEPT !.declined = @ \union {Asked}, !.stale = TRUE,
                                      !.reviewed = ReviewedAfter]
    BY <1>4, AskedIsOpen DEF RefuseHook, grants
  <2>2. DOMAIN consent' = DOMAIN consent /\ consent'.stale = TRUE
          /\ consent'.declined = consent.declined \union {Asked}
    BY <2>1 DEF GateInv
  <2> QED  BY <2>1, <2>2 DEF GateInv
<1>5. CASE Trust
  <2>1. approved' = approved /\ consent' = [consent EXCEPT !.trusted = TRUE, !.stale = TRUE]
    BY <1>5 DEF Trust, grants
  <2>2. DOMAIN consent' = DOMAIN consent /\ consent'.stale = TRUE
          /\ consent'.declined = consent.declined
    BY <2>1 DEF GateInv
  <2> QED  BY <2>1, <2>2 DEF GateInv
<1>6. CASE TrustFails
  <2>1. approved' = approved /\ consent' = [consent EXCEPT !.trusted = FALSE]
    BY <1>6 DEF TrustFails, grants
  <2>2. /\ DOMAIN consent' = DOMAIN consent /\ consent'.stale = consent.stale
        /\ consent'.declined = consent.declined /\ consent'.pending = consent.pending
    BY <2>1 DEF GateInv
  <2> QED  BY <2>1, <2>2 DEF GateInv, Places
<1>7. CASE TrustPersisted \/ ApprovalMode \/ (\E arg \in Modes \union {"confirm", ""} : Sandbox(arg))
             \/ (\E file \in Files : EditFile(file)) \/ (\E scope \in OldFormat : Migrate(scope))
  BY <1>0, <1>7 DEF TrustPersisted, ApprovalMode, Sandbox, EditFile, Migrate, grants, session
<1>8. CASE Send \/ TurnEnds \/ (\E tool \in Calls : CallTool(tool)) \/ AutoApprove \/ Decide
             \/ CallReturns
  BY <1>0, <1>8 DEF Send, TurnEnds, CallTool, AutoApprove, Decide, CallReturns, grants, session
<1>9. CASE UNCHANGED vars
  BY <1>0, <1>9 DEF vars, grants, session
<1> QED  BY <1>1, <1>2, <1>3, <1>4, <1>5, <1>6, <1>7, <1>8, <1>9 DEF Next

(* A hook runs in a turn only if the operator said yes to its command, its *)
(* event, and no hook that was said no to is approved.                     *)
THEOREM HooksWereApproved == Spec => []HooksAreApproved
<1>1. Init => GateInv
  BY FreshGate DEF Init, GateInv
<1>2. FilesInv /\ TurnInv /\ GateInv => HooksAreApproved
  <2> SUFFICES ASSUME FilesInv, TurnInv, GateInv PROVE HooksAreApproved
    OBVIOUS
  <2>1. SessionStartHooks(loaded.hooks, IsTrusted(store), approved) \subseteq approved \ consent.declined
    BY DEF SessionStartHooks, GateInv
  <2>2. ASSUME turn # NoTurn, NEW h \in turn.agent.hooks
        PROVE  \E a \in turn.use.approved : a.command = h.command /\ a.event = h.event
    <3> DEFINE hooks == TurnConfig(Input, turn.allows).hooks
               in == [Input EXCEPT !.project = "projectConfig" \in turn.allows]
    <3>1. /\ turn.agent = BuildChatAgent(Input, turn.allows, turn.use)
          /\ ~ConfigError(in)
      BY <2>2 DEF TurnInv, BuildFails
    <3>2. BuildChatAgent(Input, turn.allows, turn.use).hooks =
            BuildHookHandlers(hooks, "hooks" \in turn.allows, turn.use.approved)
      <4>1. \A a, allows, use :
              BuildChatAgent(a, allows, use).hooks =
                BuildHookHandlers(TurnConfig(a, allows).hooks, "hooks" \in allows, use.approved)
        BY AgentParts
      <4> QED  BY <4>1
    <3>3. h \in Range(hooks) /\ Origin(hooks, h) \in turn.use.approved
      <4> HIDE DEF hooks
      <4> QED  BY <2>2, <3>1, <3>2 DEF BuildHookHandlers, Delegated
    <3>4. in.disk = disk /\ in.cli = NoCli
      BY DEF Input
    <3>5. hooks = LoadConfig(in).hooks
      BY DEF TurnConfig
    <3> HIDE DEF in
    <3>6. FilesValid(in)
      BY <3>4 DEF FilesInv, FilesValid
    <3>7. NoCli.values = Nothing /\ NoCli.profile = "" /\ NoCli.profiles = Nothing
      BY DEF NoCli
    <3>8. NoFlags(in)
      BY <3>4, <3>7 DEF NoFlags
    <3>9. IsArray(hooks)
      BY <3>1, <3>5, <3>6, <3>8, HooksAreArray
    <3> HIDE DEF hooks
    <3> QED  BY <3>3, <3>9, OriginMatches
  <2> QED  BY <2>1, <2>2 DEF HooksAreApproved
<1> QED  BY <1>1, <1>2, GateStep, FilesHold, TurnIsBuilt, PTL DEF Spec
=============================================================================
