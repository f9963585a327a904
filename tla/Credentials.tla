---------------------------- MODULE Credentials ----------------------------
(***************************************************************************)
(* Which credential a turn is sent with and which model id it is built on  *)
(* (agent/src/auth): resolution over the environment and the store, the    *)
(* refresh of an OAuth token, the route a ChatGPT sign-in needs, and what  *)
(* login and logout write.                                                 *)
(*                                                                         *)
(* A credential is [kind, provider, key]; a key is named by the prefix it  *)
(* begins with.  An environment is [keys, pin]: the keys it declares, by   *)
(* provider ("" : none), and THEOCODE_PROVIDER.  The store is the file of  *)
(* credentialHome: a credential, NoCredential when there is no file, or    *)
(* Refused when it cannot be read as one.  A model id is [route, name].    *)
(***************************************************************************)
EXTENDS SequencesExt

(* DESCRIPTORS, in the order the framework consults them.                  *)
Providers == <<"openrouter", "anthropic", "openai">>
ProviderNames == Range(Providers)

NoCredential == [kind |-> "none", provider |-> "", key |-> ""]
Refused == [kind |-> "refused", provider |-> "", key |-> ""]
Api(provider, key) == [kind |-> "api", provider |-> provider, key |-> key]
OAuth == [kind |-> "oauth", provider |-> "openai", key |-> "token"]

Usable(cred) == cred.kind \in {"api", "oauth"}

(* "sk-" begins every prefix of the table: the key of another provider     *)
(* passes for one of openai's.                                             *)
StartsAs(key, provider) == key = provider \/ (provider = "openai" /\ key \in ProviderNames)

(* assertPairMatches.                                                      *)
PairMatches(cred) == cred.kind = "oauth" \/ StartsAs(cred.key, cred.provider)

(* inferProvider: the longest prefix first.                                *)
InferProvider(key) == IF key \in ProviderNames THEN key ELSE ""

(* storeLocationOnly keeps where the store is and no key.                  *)
StoreLocationOnly(env) == [keys |-> [p \in ProviderNames |-> ""], pin |-> ""]

(* resolveCredential: the environment before the file, and THEOCODE_PROVIDER *)
(* over both.                                                              *)
ResolveCredential(env, store) ==
  LET asked == {i \in DOMAIN Providers : /\ env.keys[Providers[i]] # ""
                                         /\ env.pin \in {"", Providers[i]}}
      first == Providers[Min(asked)]
      declared == Api(first, env.keys[first])
  IN IF asked # {} THEN IF PairMatches(declared) THEN declared ELSE Refused
     ELSE IF Usable(store) /\ ~(PairMatches(store) /\ env.pin \in {"", store.provider})
     THEN Refused ELSE store

(* resolveFreshCredential: only an OAuth credential of openai is renewed.  *)
(* A renewal that fails for a reason that may pass leaves the one that was *)
(* read; any other failure is the caller's.                                *)
ResolveFresh(env, store, renewal) ==
  LET resolved == ResolveCredential(env, store)
  IN IF resolved = OAuth /\ renewal = "refused" THEN Refused ELSE resolved

IsChatGPT(model) == model.route = "openai-chatgpt"

(* resolveCredentialForModel: an id of the ChatGPT route is for the sign-in *)
(* of the store, whatever keys the environment declares.                   *)
ResolveForModel_StoreOnly(model, env, store, renewal) ==
  ResolveFresh(StoreLocationOnly(env), store, renewal)

ResolveForModel(model, env, store, renewal) ==
  ResolveFresh(IF IsChatGPT(model) THEN StoreLocationOnly(env) ELSE env, store, renewal)

(* routeToCredential: a ChatGPT sign-in is served by a provider of its own. *)
RouteToCredential(cred, model) ==
  IF cred = OAuth THEN [model EXCEPT !.route = "openai-chatgpt"] ELSE model

-----------------------------------------------------------------------------
(* login, oauthDeviceLogin and logout over the store file.  A login is     *)
(* refused where one is in the way and is not to be replaced; the device   *)
(* login looks before the minutes it waits for the operator, and its write *)
(* does not look again.                                                    *)
InTheWay(store, overwrite) == store # NoCredential /\ ~overwrite

Writable(cred) == cred.key # "" /\ PairMatches(cred)

Login(store, key, given, overwrite) ==
  LET provider == IF given # "" THEN given ELSE InferProvider(key)
      cred == Api(provider, key)
  IN IF key = "" \/ provider = "" \/ InTheWay(store, overwrite) \/ ~Writable(cred)
     THEN store ELSE cred

DeviceLogin(storeThen, storeNow, overwrite) ==
  IF InTheWay(storeThen, overwrite) THEN storeNow ELSE OAuth

Logout(store) == NoCredential
=============================================================================
