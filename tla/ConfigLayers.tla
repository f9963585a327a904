---------------------------- MODULE ConfigLayers ----------------------------
(***************************************************************************)
(* What a configuration resolves to (agent/src/config): which file of each *)
(* scope is read, what is taken out of it, and how the seven layers are    *)
(* folded.  A file is [kind, values, profile, profiles]: `values` and each *)
(* of `profiles` map the keys it sets; a key's value is abstract except    *)
(* for the two the security floor orders and for `hooks`, a sequence.      *)
(***************************************************************************)
EXTENDS Naturals, SequencesExt

Layers == <<"defaults", "user", "project", "project_local", "profile", "env", "cli">>

(* CONFIG_SCHEMA_KEYS, of which the keys a turn's authority depends on.    *)
SchemaKeys == {"sandbox_mode", "approval_policy", "hooks", "skills", "memory"}

(* ENV_BY_KEY: the keys with an environment variable of their own.         *)
EnvKeys == SchemaKeys \ {"hooks", "skills"}

Accumulating == {"hooks"}

Permissiveness ==
  [sandbox_mode |-> <<"read-only", "workspace-write", "danger-full-access">>,
   approval_policy |-> <<"untrusted", "on-request", "never">>]

CannotLoosen == {"project", "project_local", "profile", "env"}

Defaults ==
  [sandbox_mode |-> "workspace-write", approval_policy |-> "on-request",
   hooks |-> <<>>, skills |-> {}, memory |-> FALSE]

-----------------------------------------------------------------------------
(* Files.                                                                  *)

Nothing == <<>>
NoFile == [kind |-> "absent", values |-> Nothing, profile |-> "", profiles |-> Nothing]

(* settingsCandidates: the files of a scope, ours before theirs, each with *)
(* who runs the hooks in it.                                               *)
Candidate(file, foreign, delivery) ==
  [file |-> file, foreign |-> foreign, delivery |-> delivery]

Candidates ==
  [user |-> << Candidate("~/.theokit", FALSE, "ours"),
               Candidate("~/.theocode", FALSE, "ours"),
               Candidate("~/.claude", TRUE, "inert") >>,
   project |-> << Candidate(".theokit", FALSE, "refuse"),
                  Candidate(".theocode", FALSE, "ours"),
                  Candidate(".claude", TRUE, "sdk") >>,
   project_local |-> << Candidate(".theokit.local", FALSE, "refuse"),
                        Candidate(".claude.local", TRUE, "sdk") >>]

Scopes == {"user", "project", "project_local"}
ProjectFiles == {".theokit", ".theocode", ".claude", ".theokit.local", ".claude.local"}
Files == {"~/.theokit", "~/.theocode", "~/.claude"} \union ProjectFiles

(* firstSettings: the first candidate of the scope that is there, or none. *)
Found(disk, scope) ==
  {i \in DOMAIN Candidates[scope] : disk[Candidates[scope][i].file].kind # "absent"}

First(disk, scope) ==
  Candidates[scope][Min(Found(disk, scope))]

(* The two enumerations of the schema, and `hooks`, an array of anything:   *)
(* whatever else a file holds, that is refused where it is read.           *)
Valid(table) ==
  /\ \A key \in DOMAIN Permissiveness \intersect DOMAIN table :
       table[key] \in Range(Permissiveness[key])
  /\ "hooks" \in DOMAIN table => table.hooks \in Seq(Range(table.hooks))

InSchema(doc) ==
  doc.kind = "malformed" \/ \A table \in {doc.values} \union Range(doc.profiles) : Valid(table)

(* readSettingsIfPresent, normaliseHooks and the strict schema.  A key of  *)
(* nobody's is tolerated in a foreign file and a typo in one of ours.      *)
Rejected(doc, c) ==
  \/ doc.kind = "malformed"
  \/ doc.kind = "typo" /\ ~c.foreign
  \/ /\ "hooks" \in DOMAIN doc.values
     /\ c.delivery = "refuse" \/ (c.delivery = "ours" /\ doc.kind = "flat-hooks")

(* translateSettings: the keys of a foreign file that are ours, without    *)
(* the hooks that are somebody else's to run; `profile` is not among the   *)
(* keys it knows.                                                          *)
Translate(doc, c) ==
  LET keys == IF c.delivery \in {"sdk", "inert"} THEN DOMAIN doc.values \ {"hooks"}
              ELSE DOMAIN doc.values
  IN [values |-> [k \in keys |-> doc.values[k]],
      profile |-> IF c.foreign THEN "" ELSE doc.profile,
      profiles |-> IF c.foreign THEN Nothing ELSE doc.profiles]

-----------------------------------------------------------------------------
(* loadConfig.  `in` is [disk, toml, project, env, cli]: the files, the    *)
(* scopes with a config.toml of the old format, whether the directory's    *)
(* posture lets the project be read, and the two layers that are no files. *)

Read_Local(in, scope) == scope \in {"user", "project_local"} \/ in.project

Read(in, scope) == scope = "user" \/ in.project

IsSet(in, scope) == Read(in, scope) /\ Found(in.disk, scope) # {}

Settings(in, scope) ==
  IF ~IsSet(in, scope) THEN [values |-> Nothing, profile |-> "", profiles |-> Nothing]
  ELSE Translate(in.disk[First(in.disk, scope).file], First(in.disk, scope))

(* refuseStrandedToml, per scope: one that has not moved to settings.json. *)
Stranded(in, scope) == scope \in in.toml /\ Read(in, scope) /\ ~IsSet(in, scope)

(* chosenProfile: the last layer that names one; the tables are merged per *)
(* name.                                                                   *)
ProfileLayers(in) ==
  <<Settings(in, "user"), Settings(in, "project"), Settings(in, "project_local"), in.cli>>

Naming(layers) == {i \in DOMAIN layers : layers[i].profile # ""}
ProfileName(layers) == IF Naming(layers) = {} THEN "" ELSE layers[Max(Naming(layers))].profile

Defining(layers, name) == {i \in DOMAIN layers : name \in DOMAIN layers[i].profiles}

Profile(in) ==
  LET layers == ProfileLayers(in)
      name == ProfileName(layers)
  IN IF name = "" THEN Nothing ELSE layers[Max(Defining(layers, name))].profiles[name]

Undefined(in) ==
  LET layers == ProfileLayers(in)
      name == ProfileName(layers)
  IN name # "" /\ Defining(layers, name) = {}

ConfigError(in) ==
  \/ \E s \in Scopes : IsSet(in, s) /\ Rejected(in.disk[First(in.disk, s).file], First(in.disk, s))
  \/ \E s \in {"user", "project"} : Stranded(in, s)
  \/ Undefined(in)
  \/ \E k \in DOMAIN in.env \intersect DOMAIN Permissiveness :
        in.env[k] \notin Range(Permissiveness[k])

(* envLayer reads no key but those with a variable.                        *)
PerLayer(in) ==
  [defaults |-> Defaults, user |-> Settings(in, "user").values,
   project |-> Settings(in, "project").values,
   project_local |-> Settings(in, "project_local").values,
   profile |-> Profile(in),
   env |-> [k \in DOMAIN in.env \intersect EnvKeys |-> in.env[k]],
   cli |-> in.cli.values]

(* foldLayers: the last layer that sets a key, or all of them together.    *)
Setting(per, key) == {i \in DOMAIN Layers : key \in DOMAIN per[Layers[i]]}

Accumulate(per, key) ==
  LET of(layer) == IF key \in DOMAIN per[layer] THEN per[layer][key] ELSE <<>>
  IN of("defaults") \o of("user") \o of("project") \o of("project_local")
       \o of("profile") \o of("env") \o of("cli")

Fold(per, key) ==
  IF key \in Accumulating THEN Accumulate(per, key)
  ELSE per[Layers[Max(Setting(per, key))]][key]

Openness(key, value) == CHOOSE i \in 1 .. 3 : Permissiveness[key][i] = value

Baseline(per, key) ==
  IF key \in DOMAIN per.user THEN per.user[key] ELSE per.defaults[key]

ApplySecurityFloor_LastWins(per, key) == Fold(per, key)

(* applySecurityFloor: the operator's flag wins; of the rest, a layer that *)
(* cannot loosen only tightens what the user's file, or the default, says. *)
ApplySecurityFloor(per, key) ==
  LET tighter == {Baseline(per, key)}
                   \union {per[l][key] : l \in {l \in CannotLoosen : key \in DOMAIN per[l]}}
  IN IF key \in DOMAIN per.cli THEN per.cli[key]
     ELSE CHOOSE v \in tighter : \A w \in tighter : Openness(key, v) <= Openness(key, w)

LoadConfig(in) ==
  LET per == PerLayer(in)
  IN [k \in SchemaKeys |-> IF k \in DOMAIN Permissiveness THEN ApplySecurityFloor(per, k)
                           ELSE Fold(per, k)]

-----------------------------------------------------------------------------
(* What two values of the configuration stand for.                         *)

ApprovalModeFor(policy) == IF policy = "never" THEN "full-auto" ELSE "suggest"

SandboxWritePolicy(mode) ==
  [writes |-> mode # "read-only", allowAbsolute |-> mode = "danger-full-access"]

(* migrateConfigFile writes beside the old file, and never over a new one. *)
CanMigrate(disk, toml, scope, file) ==
  scope \in toml /\ disk[file].kind = "absent"
=============================================================================
