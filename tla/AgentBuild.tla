----------------------------- MODULE AgentBuild -----------------------------
(***************************************************************************)
(* The agent a turn is given (agent/src/chat/chat.ts): buildChatAgent, with *)
(* the directory's posture, the configuration and what the session switched *)
(* on or off.  It is built again for every turn, from the disk.             *)
(*                                                                          *)
(* `in` is the input of LoadConfig; `use` is what is given beside it:       *)
(*   sandbox, memory   the session's switches ("" : none; TRUE : not off)   *)
(*   surface, extra    "interactive" or "headless", and its own tools       *)
(*   search            whether a search provider is configured              *)
(*   model             "", "served" or "unserved": the model asked for      *)
(*   approved          the hooks the operator approved in this directory    *)
(***************************************************************************)
EXTENDS ConfigLayers

CONSTANTS
  PersonalMcp,      \* MCP servers of the operator, and of the repository
  ProjectMcp,
  OperatorSkills    \* the operator's own skills

ReadTools == {"current_time", "read_file", "view_image", "list_dir", "grep",
               "repo_status", "git_diff"}
WriteTools == {"apply_patch", "edit_file", "delegate_to_team"}
ShellTools == {"run_shell", "interactive_shell", "write_stdin", "update_plan", "analyst"}

RegistryTools == ReadTools \union {"apply_patch", "edit_file", "run_shell"}

-----------------------------------------------------------------------------
(* Trust.  isTrusted: a grant in the framework's store, or in one of the   *)
(* two lists of before it; trustDir moves the list it is next to.          *)

Stores == {"framework", "list", "list of the default root"}
IsTrusted(store) == store # {}
TrustDir(store) == (store \ {"list"}) \union {"framework"}

(* resolveTrustPosture: every capability of a directory goes together.     *)
Capabilities == {"projectConfig", "agentsMd", "hooks", "memory", "mcp", "skills",
                 "customCommands", "subagents"}
Allows(store, env) == IF env \/ IsTrusted(store) THEN Capabilities ELSE {}

ProjectSourceAllowed(allows) == {"subagents", "hooks"} \subseteq allows

SettingSources(allows) ==
  {"user"} \union (IF ProjectSourceAllowed(allows) THEN {"project", "claudeCode"} ELSE {})

-----------------------------------------------------------------------------
(* Hooks.  An identity is [event, command, matcher, timeout].              *)

SurfaceEvent == "SessionStart"

(* parseHooks: one entry that cannot be read and none is; here one whose   *)
(* matcher is no regular expression.                                       *)
ParseError(hooks) == \E i \in DOMAIN hooks : hooks[i].matcher = "("

Delegated(hooks) == {h \in Range(hooks) : h.event # SurfaceEvent}

Origin_ByEvent(hooks, h) == hooks[Min({i \in DOMAIN hooks : hooks[i].event = h.event})]

(* The fingerprint the framework is given for a delegated hook: of the     *)
(* first with its command and event.                                       *)
Origin(hooks, h) ==
  hooks[Min({i \in DOMAIN hooks : hooks[i].command = h.command /\ hooks[i].event = h.event})]

BuildHookHandlers(hooks, trusted, approved) ==
  IF trusted
  THEN {h \in Delegated(hooks) : Origin(hooks, h) \in approved}
  ELSE {}

(* sessionStartSpecs and runSessionStartHooks: by the hook's own.          *)
SessionStartHooks(hooks, trusted, approved) ==
  IF trusted /\ ~ParseError(hooks)
  THEN {h \in Range(hooks) : h.event = SurfaceEvent /\ h \in approved}
  ELSE {}

-----------------------------------------------------------------------------
(* The parts of the build.                                                 *)

McpScopes(allows) ==
  [servers |-> PersonalMcp \union (IF "mcp" \in allows THEN ProjectMcp ELSE {}),
   ofProject |-> IF "mcp" \in allows THEN ProjectMcp \ PersonalMcp ELSE {},
   withheld |-> IF "mcp" \in allows THEN {} ELSE ProjectMcp]

WithSandboxMode(cfg, use) ==
  IF use.sandbox = "" THEN cfg ELSE [cfg EXCEPT !.sandbox_mode = use.sandbox]

BaseTools(use) ==
  ReadTools \union {"web_fetch"} \union (IF use.search THEN {"web_search"} ELSE {})

WithWriteTools(policy) == IF policy.writes THEN WriteTools ELSE {}

WithShellTools == ShellTools

Approvals(policy, use) ==
  WithWriteTools(policy)
    \union {"run_shell", "interactive_shell", "write_stdin", "web_fetch"}
    \union (IF use.search THEN {"web_search"} ELSE {})

ProfileTools(use) == IF use.surface = "interactive" THEN {"request_user_input"} ELSE {}

Skills(allows, cfg) == (IF "skills" \in allows THEN cfg.skills ELSE {}) \union OperatorSkills

MemoryEnabled(allows, cfg, use) == "memory" \in allows /\ cfg.memory /\ use.memory

(* projectDocument: the operator's instructions, then the repository's.    *)
ProjectDocument(allows) ==
  <<"user">> \o (IF "agentsMd" \in allows THEN <<"project">> ELSE <<>>)

(* chatContext and the chain of buildChatAgent.                            *)
BuildFails(in, allows, use) ==
  \/ ConfigError([in EXCEPT !.project = "projectConfig" \in allows])
  \/ use.model = "unserved"
  \/ ParseError(LoadConfig([in EXCEPT !.project = "projectConfig" \in allows]).hooks)

BuildChatAgent(in, allows, use) ==
  LET resolved == LoadConfig([in EXCEPT !.project = "projectConfig" \in allows])
      cfg == WithSandboxMode(resolved, use)
      policy == SandboxWritePolicy(cfg.sandbox_mode)
  IN [sandbox |-> cfg.sandbox_mode,
      writeRoot |-> IF policy.allowAbsolute THEN "/" ELSE "cwd",
      tools |-> BaseTools(use) \union WithWriteTools(policy) \union WithShellTools
                  \union ProfileTools(use) \union use.extra,
      approvals |-> Approvals(policy, use),
      mcp |-> McpScopes(allows).servers,
      skills |-> Skills(allows, cfg),
      sources |-> SettingSources(allows),
      memory |-> MemoryEnabled(allows, cfg, use),
      document |-> ProjectDocument(allows),
      hooks |-> BuildHookHandlers(cfg.hooks, "hooks" \in allows, use.approved),
      vetoed |-> {"shell"}]

-----------------------------------------------------------------------------
(* Delegation: a member of the team of delegate_to_team, and the analyst.  *)
(* A role is [tools, effort, sandbox]: the tools it names, whether it      *)
(* names an effort ("", "known", "unknown") and a sandbox of its own.      *)

TeamRoles == {"explorer", "worker"}

(* discoverRoles: the operator's, under those of a trusted repository.     *)
DiscoverRoles(mine, theirs, allows) ==
  IF "subagents" \in allows
  THEN [r \in DOMAIN mine \union DOMAIN theirs |->
          IF r \in DOMAIN theirs THEN theirs[r] ELSE mine[r]]
  ELSE mine

RoleFails(roles, role) ==
  \/ role \notin DOMAIN roles
  \/ roles[role].effort = "unknown"
  \/ ~(roles[role].tools \subseteq RegistryTools)

RoleAgent(roles, role, parent, allows) ==
  [tools |-> roles[role].tools,
   sandbox |-> parent.sandbox, writeRoot |-> parent.writeRoot,
   sources |-> IF "subagents" \in allows THEN {"project", "claudeCode"} ELSE {},
   hooks |-> {h \in parent.hooks : h.event = "PreToolUse"},
   vetoed |-> parent.vetoed]

AnalystTools == {"read_file", "list_dir", "grep"}

(* A team is built whole or not at all.                                    *)
TeamBuilds(roles) == \A role \in TeamRoles : ~RoleFails(roles, role)
=============================================================================
