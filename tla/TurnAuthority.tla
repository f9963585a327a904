--------------------------- MODULE TurnAuthority ---------------------------
(***************************************************************************)
(* What a turn of the terminal session may do, and who said so: the trust  *)
(* and hook gates, the configuration the session loaded and the one every  *)
(* turn reads again, /sandbox and /approval, and the approval card.        *)
(*                                                                         *)
(* A file is edited between turns only: an agent is built whole before its *)
(* turn and reads none of these files again.                               *)
(***************************************************************************)
EXTENDS AgentBuild, TLC

CONSTANTS
  DocumentsOf(_),   \* what may be written in a file
  StartingDisks,    \* the files, and the lists of old, a first launch finds
  StartingStores,
  OldFormat,        \* the scopes with a config.toml
  Env,              \* the environment's layer, and whether it trusts all
  TrustAll,
  Kernel,           \* whether the platform can confine a command
  Search,           \* whether there is a search provider; /memory on or off
  Memory,
  Calls,            \* the tools a turn calls
  MaxEdits          \* how often a file is edited

(* Every file holds what the schema accepts, or is refused when it is read. *)
ASSUME DocumentsAssumption ==
  \A file \in Files : \A doc \in DocumentsOf(file) : InSchema(doc)
ASSUME StartAssumption ==
  \A start \in StartingDisks :
    DOMAIN start = Files /\ \A file \in Files : InSchema(start[file])

Modes == Range(Permissiveness.sandbox_mode)
ApprovalModes == <<"suggest", "auto-edit", "full-auto">>

VARIABLES
  disk, toml, edits,    \* the configuration's files
  store, approved,      \* the trust store, the hooks approved in this directory
  running,              \* whether a session runs
  loaded, loadedAt,     \* SESSION.cfg(), and after which edit it was read
  approval,             \* the approval mode of the screen
  consent, granting,    \* the gates' state, and whether trustDir is under way
  override, armed,      \* the session's sandbox, and the loosening to confirm
  unconfirmed,          \* whether a loosening was applied at once
  turn, card            \* the agent of the turn under way, the call that waits

files == <<disk, toml, edits>>
grants == <<store, approved>>
switches == <<override, armed, unconfirmed>>
session == <<running, loaded, loadedAt, approval, consent, granting>>
vars == <<files, grants, session, switches, turn, card>>

NoTurn == [state |-> "none"]
NoCard == [tool |-> ""]
NoCli == [values |-> Nothing, profile |-> "", profiles |-> Nothing]

Input == [disk |-> disk, toml |-> toml, project |-> TRUE, env |-> Env, cli |-> NoCli]

(* resolveEffectiveConfig: with the posture the store gives now.           *)
Resolvable == ~ConfigError([Input EXCEPT !.project = TrustAll \/ IsTrusted(store)])
EffectiveConfig == LoadConfig([Input EXCEPT !.project = TrustAll \/ IsTrusted(store)])

(* resolveSandboxPosture of the framework.                                 *)
Enforced(mode) == Kernel /\ mode # "danger-full-access"

-----------------------------------------------------------------------------
(* The gates (tui/src/consent).                                            *)

(* computePendingHooks: what is left to ask, each at its place among the   *)
(* hooks, or nothing when there is no configuration to read it from.       *)
ComputePendingHooks(declined) ==
  LET hooks == EffectiveConfig.hooks
      open == {i \in DOMAIN hooks : hooks[i] \notin approved \union declined}
  IN IF ~Resolvable \/ ParseError(hooks) THEN <<>> ELSE [i \in open |-> hooks[i]]

Places == DOMAIN consent.pending
Asked == consent.pending[Min(Places)]

InitialState(trusted) ==
  [trusted |-> trusted, reviewed |-> FALSE, declined |-> {}, pending |-> <<>>, stale |-> TRUE]

(* The memo of the pending hooks is computed in the render after one of    *)
(* its inputs changed.                                                     *)
Render ==
  /\ running /\ consent.stale
  /\ consent' = [consent EXCEPT !.pending = ComputePendingHooks(consent.declined),
                                !.stale = FALSE]
  /\ UNCHANGED <<files, grants, running, loaded, loadedAt, approval, granting, switches, turn, card>>

(* INPUT_LAYERS: the first of them that applies is what the operator sees. *)
Slot ==
  IF consent.trusted /\ ~consent.reviewed /\ Places # {} THEN "hooks-gate"
  ELSE IF ~consent.trusted THEN "trust-gate"
  ELSE IF card # NoCard THEN "approval"
  ELSE "conversation"

Shows(slot) == running /\ ~consent.stale /\ Slot = slot

(* Yes: the store is written in the background, the screen is trusted now. *)
Trust ==
  /\ Shows("trust-gate")
  /\ granting' = TRUE
  /\ consent' = [consent EXCEPT !.trusted = TRUE, !.stale = TRUE]
  /\ UNCHANGED <<files, grants, running, loaded, loadedAt, approval, switches, turn, card>>

TrustPersisted_NotReloaded ==
  /\ granting
  /\ granting' = FALSE
  /\ store' = TrustDir(store)
  /\ UNCHANGED <<files, approved, running, loaded, loadedAt, approval, consent,
                 switches, turn, card>>

(* trustDir is done: the session's configuration is read again, or kept    *)
(* when that fails.                                                        *)
TrustPersisted ==
  /\ granting
  /\ granting' = FALSE
  /\ store' = TrustDir(store)
  /\ LET in == [Input EXCEPT !.project = TRUE]
     IN IF ConfigError(in) THEN UNCHANGED <<loaded, loadedAt, approval>>
        ELSE /\ loaded' = LoadConfig(in) /\ loadedAt' = edits
             /\ approval' = ApprovalModeFor(loaded'.approval_policy)
  /\ UNCHANGED <<files, approved, running, consent, switches, turn, card>>

TrustFails ==
  /\ granting
  /\ granting' = FALSE
  /\ consent' = [consent EXCEPT !.trusted = FALSE]
  /\ UNCHANGED <<files, grants, running, loaded, loadedAt, approval, switches, turn, card>>

(* applyHookDecision, on the first of the pending: approve writes in the   *)
(* same task as the key press, refuse keeps the hook inert.                *)
ReviewedAfter == IF Cardinality(Places) <= 1 THEN TRUE ELSE consent.reviewed

ApproveHook ==
  /\ Shows("hooks-gate")
  /\ approved' = approved \union {Asked}
  /\ consent' = [consent EXCEPT !.stale = TRUE, !.reviewed = ReviewedAfter]
  /\ UNCHANGED <<files, store, running, loaded, loadedAt, approval, granting, switches, turn, card>>

RefuseHook ==
  /\ Shows("hooks-gate")
  /\ consent' = [consent EXCEPT !.declined = @ \union {Asked},
                                !.stale = TRUE, !.reviewed = ReviewedAfter]
  /\ UNCHANGED <<files, grants, running, loaded, loadedAt, approval, granting, switches, turn, card>>

-----------------------------------------------------------------------------
(* The session's commands.                                                 *)

SandboxLabel(mode) == "sandbox:" \o mode
ParseSandboxMode(text) == IF text \in Modes THEN text ELSE ""
IsLoosening(from, to) == Openness("sandbox_mode", to) > Openness("sandbox_mode", from)

(* The mode a /sandbox without confirmation compares with: what            *)
(* interpretCommand passes is the label of the loaded configuration.       *)
Current == ParseSandboxMode(SandboxLabel(loaded.sandbox_mode))

(* The mode the next turn would run in.                                    *)
InForce == IF override = "" THEN loaded.sandbox_mode ELSE override

SandboxSet(mode, asked) ==
  /\ override' = mode
  /\ unconfirmed' = (unconfirmed \/ (IsLoosening(InForce, mode) /\ ~asked))

(* handleSandbox: a mode, `confirm`, or anything else, which only disarms. *)
Sandbox(arg) ==
  /\ Shows("conversation")
  /\ IF arg \in Modes /\ Current # "" /\ IsLoosening(Current, arg)
     THEN armed' = arg /\ UNCHANGED <<override, unconfirmed>>
     ELSE /\ armed' = ""
          /\ CASE arg \in Modes -> SandboxSet(arg, FALSE)
               [] arg = "confirm" /\ armed # "" -> SandboxSet(armed, TRUE)
               [] OTHER -> UNCHANGED <<override, unconfirmed>>
  /\ UNCHANGED <<files, grants, session, turn, card>>

NextApprovalMode(mode) ==
  LET i == CHOOSE i \in DOMAIN ApprovalModes : ApprovalModes[i] = mode
  IN ApprovalModes[(i % 3) + 1]

ApprovalMode ==
  /\ Shows("conversation")
  /\ approval' \in {NextApprovalMode(approval)} \union Range(ApprovalModes)
  /\ UNCHANGED <<files, grants, running, loaded, loadedAt, consent, granting, switches, turn, card>>

-----------------------------------------------------------------------------
(* A turn (chat-transport.ts): the agent is built from the disk, or the    *)
(* turn fails; each call of a gated tool waits for a decision.             *)

Use ==
  [sandbox |-> override, memory |-> Memory, surface |-> "interactive", extra |-> {},
   search |-> Search, model |-> "served", approved |-> approved]

Send ==
  /\ Shows("conversation") /\ turn = NoTurn
  /\ LET allows == Allows(store, TrustAll)
     IN IF BuildFails(Input, allows, Use) THEN UNCHANGED turn
        ELSE turn' = [state |-> "running", allows |-> allows, use |-> Use,
                      agent |-> BuildChatAgent(Input, allows, Use)]
  /\ UNCHANGED <<files, grants, session, switches, card>>

CallTool(tool) ==
  /\ turn # NoTurn /\ card = NoCard /\ tool \in turn.agent.approvals
  /\ card' = [tool |-> tool, settled |-> ""]
  /\ UNCHANGED <<files, grants, session, switches, turn>>

ShouldAutoApprove_Unconfined(tool) ==
  approval = "full-auto" \/ (approval = "auto-edit" /\ tool = "apply_patch")

(* shouldAutoApprove, with the posture of the configuration loaded.        *)
ShouldAutoApprove(tool) ==
  \/ approval = "auto-edit" /\ tool = "apply_patch"
  \/ approval = "full-auto" /\ Enforced(loaded.sandbox_mode)

Waits == card # NoCard /\ card.settled = ""

AutoApprove ==
  /\ running /\ Waits /\ ShouldAutoApprove(card.tool)
  /\ card' = [card EXCEPT !.settled = "auto"]
  /\ UNCHANGED <<files, grants, session, switches, turn>>

Decide ==
  /\ Shows("approval") /\ Waits
  /\ card' = [card EXCEPT !.settled = "operator"]
  /\ UNCHANGED <<files, grants, session, switches, turn>>

CallReturns ==
  /\ card # NoCard /\ card.settled # ""
  /\ card' = NoCard
  /\ UNCHANGED <<files, grants, session, switches, turn>>

TurnEnds ==
  /\ turn # NoTurn /\ card = NoCard
  /\ turn' = NoTurn
  /\ UNCHANGED <<files, grants, session, switches, card>>

-----------------------------------------------------------------------------
(* The process and the files.                                              *)

Init ==
  /\ disk \in StartingDisks /\ toml = OldFormat /\ edits = 0
  /\ store \in StartingStores /\ approved = {}
  /\ running = FALSE /\ loaded = Defaults /\ loadedAt = 0 /\ approval = "suggest"
  /\ consent = InitialState(FALSE) /\ granting = FALSE
  /\ override = "" /\ armed = "" /\ unconfirmed = FALSE
  /\ turn = NoTurn /\ card = NoCard

(* createTuiSession and the first render; a configuration that cannot be   *)
(* read starts no session.                                                 *)
Launch ==
  /\ ~running /\ Resolvable
  /\ running' = TRUE
  /\ loaded' = EffectiveConfig /\ loadedAt' = edits
  /\ approval' = ApprovalModeFor(loaded'.approval_policy)
  /\ consent' = InitialState(TrustAll \/ IsTrusted(store))
  /\ UNCHANGED <<files, grants, granting, switches, turn, card>>

(* The process ends, by /quit, by "No, quit" or by a crash, and its memory *)
(* with it: the switches, what was declined, a trustDir under way.         *)
Exit ==
  /\ running
  /\ running' = FALSE /\ loaded' = Defaults /\ loadedAt' = 0 /\ approval' = "suggest"
  /\ consent' = InitialState(FALSE) /\ granting' = FALSE
  /\ override' = "" /\ armed' = "" /\ unconfirmed' = FALSE
  /\ turn' = NoTurn /\ card' = NoCard
  /\ UNCHANGED <<files, grants>>

EditFile(file) ==
  /\ edits < MaxEdits /\ turn = NoTurn
  /\ \E doc \in DocumentsOf(file) \ {disk[file]} : disk' = [disk EXCEPT ![file] = doc]
  /\ edits' = edits + 1
  /\ UNCHANGED <<toml, grants, session, switches, turn, card>>

(* theocode migrate-config: the settings beside the old file, which stays. *)
Migrate(scope) ==
  LET file == IF scope = "user" THEN "~/.theokit" ELSE ".theokit"
  IN /\ CanMigrate(disk, toml, scope, file)
     /\ \E doc \in DocumentsOf(file) \ {NoFile} : disk' = [disk EXCEPT ![file] = doc]
     /\ edits < MaxEdits /\ turn = NoTurn /\ edits' = edits + 1
     /\ UNCHANGED <<toml, grants, session, switches, turn, card>>

Next ==
  \/ Launch \/ Exit \/ Render
  \/ Trust \/ TrustPersisted \/ TrustFails
  \/ ApproveHook \/ RefuseHook
  \/ \E arg \in Modes \union {"confirm", ""} : Sandbox(arg)
  \/ ApprovalMode
  \/ Send \/ TurnEnds
  \/ \E tool \in Calls : CallTool(tool)
  \/ AutoApprove \/ Decide \/ CallReturns
  \/ \E file \in Files : EditFile(file)
  \/ \E scope \in OldFormat : Migrate(scope)

Spec == Init /\ [][Next]_vars

-----------------------------------------------------------------------------
(* Whatever a repository, a profile or the environment sets, the sandbox   *)
(* and the approval policy are no more permissive than the operator's own  *)
(* file says, or the default when it says nothing (security-floor.ts); and *)
(* a turn of a session without /sandbox runs in that sandbox.              *)
RepositoryTightensOnly ==
  LET own == PerLayer([Input EXCEPT !.project = FALSE])
      cfg == EffectiveConfig
  IN /\ Resolvable =>
          \A key \in DOMAIN Permissiveness :
            Openness(key, cfg[key]) <= Openness(key, Baseline(own, key))
     /\ turn # NoTurn /\ turn.use.sandbox = "" =>
          Openness("sandbox_mode", turn.agent.sandbox)
            <= Openness("sandbox_mode", Baseline(own, "sandbox_mode"))

(* The agent of a turn in a directory that is not trusted is the one it    *)
(* would have if the repository held none of the files: no setting, hook,  *)
(* server, skill, role or instruction of it (trust-posture.ts).            *)
NothingFromUntrusted ==
  turn # NoTurn /\ turn.allows = {} =>
    /\ turn.agent = BuildChatAgent([Input EXCEPT !.disk = [f \in Files |-> IF f \in ProjectFiles
                                                                        THEN NoFile ELSE disk[f]]],
                                   {}, turn.use)
    /\ turn.agent.mcp = PersonalMcp /\ turn.agent.skills = OperatorSkills
    /\ turn.agent.sources = {"user"} /\ turn.agent.document = <<"user">>

(* A hook runs in a turn only if the operator said yes to its command,     *)
(* its event, and no hook that was said no to is approved (hook-trust.ts). *)
HooksAreApproved ==
  /\ turn # NoTurn =>
       \A h \in turn.agent.hooks :
         \E a \in turn.use.approved : a.command = h.command /\ a.event = h.event
  /\ running => SessionStartHooks(loaded.hooks, IsTrusted(store), approved)
                  \subseteq approved \ consent.declined

(* The configuration a session works with is what its files say, as long   *)
(* as nobody edited them since it read them: granting trust reads it again.*)
LoadedIsCurrent ==
  running /\ loadedAt = edits /\ Resolvable => loaded = EffectiveConfig

(* What full-auto approves by itself runs where the platform confines it,  *)
(* when neither the files, nor the trust, nor /sandbox changed between the *)
(* configuration that was loaded and the one the turn was built with.      *)
AutoApprovedIsConfined ==
  [][card # card' /\ card'.tool \notin {"", "apply_patch"} /\ card'.settled = "auto"
     /\ turn.use.sandbox = "" /\ turn.allows = Allows(store, TrustAll) /\ loadedAt = edits
     => Enforced(turn.agent.sandbox)]_vars

(* "Loosening needs an explicit confirmation; tightening does not."        *)
LooseningConfirmed == ~unconfirmed

=============================================================================
