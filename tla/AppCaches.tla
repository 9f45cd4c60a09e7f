------------------------------ MODULE AppCaches ------------------------------
(***************************************************************************)
(* What the server keeps in memory of what it stores: the security and the *)
(* policy settings, the single sign-on settings with the provider built    *)
(* from them, and the certificate authority.  A change is written to the   *)
(* database first and to the copy in memory after; a start-up loads every  *)
(* copy.  Nothing orders the two writes of two requests.                   *)
(*                                                                         *)
(* A settings page is one value; of the single sign-on settings the model  *)
(* keeps the switch, the secret, and one value for issuer, client and      *)
(* redirect, which the provider is matched by.                             *)
(***************************************************************************)
EXTENDS Naturals

CONSTANTS
  Values,      \* values of the security page and of the policy page
  EnvValue,    \* the one the environment gives
  Idents,      \* issuer, client id and redirect URL of a provider
  Secrets,     \* client secrets
  EnvOIDC,     \* single sign-on settings the environment gives
  Requests,    \* concurrent requests
  MaxRequests, \* bound on the requests served
  MaxCAs,      \* bound on the authorities ever generated
  MaxFaults,   \* bound on restarts and failed statements
  None         \* no row, an empty value

OIDC == [on : BOOLEAN, ident : Idents, secret : Secrets \cup {None}]

ASSUME AppCachesAssumption ==
  /\ EnvValue \in Values /\ EnvOIDC \in OIDC
  /\ MaxRequests \in Nat /\ MaxCAs \in Nat /\ MaxFaults \in Nat
  /\ None \notin Values /\ None \notin Secrets /\ None \notin OIDC

VARIABLES
  stored,   \* app_settings and app_ca
  mem,      \* the copies in memory
  provider, \* the cached provider, None when there is none
  req,      \* req[r]: the handler serving request r
  cas,      \* authorities generated so far
  served,   \* requests taken up so far
  faults,   \* restarts and failed statements so far
  stale,    \* history: copies left older than the row by crossed writes or a failed load
  typed,    \* history: the client secret last typed and saved
  lost,     \* history: a save with a blank secret was overtaken, or could not read the old one
  late      \* history: the cached provider was stored after the settings it was built from changed

cacheVars == <<stored, mem, provider, req, cas, served, faults, stale, typed, lost, late>>

-----------------------------------------------------------------------------
Items == {"security", "policy", "oidc", "ca"}

\* A row that is missing falls back to the environment, a missing secret alone too.
mergeSettings(v) == IF v = None THEN EnvValue ELSE v
mergeOIDCSettings(o) ==
  IF o = None THEN EnvOIDC
  ELSE [o EXCEPT !.secret = IF @ = None THEN EnvOIDC.secret ELSE @]

Loaded == [security |-> mergeSettings(stored.security), policy |-> mergeSettings(stored.policy),
           oidc |-> mergeOIDCSettings(stored.oidc), ca |-> stored.ca]

Idle == [at |-> "idle"]
Serve(r) == req[r].at = "idle" /\ served < MaxRequests /\ served' = served + 1

\* Every other request that is about to write the same item has been overtaken.
Overtake(q, item) ==
  IF req[q].at \in {"save", "set"} /\ req[q].item = item THEN [req[q] EXCEPT !.crossed = TRUE] ELSE req[q]

\* SetAppSettings commits, or SaveAppCA: the copy in memory comes next.
Saved(r, item, v) ==
  /\ stored' = [stored EXCEPT ![item] = v]
  /\ req' = [q \in Requests |-> IF q = r THEN [at |-> "set", item |-> item, val |-> v, crossed |-> FALSE]
                                ELSE Overtake(q, item)]

-----------------------------------------------------------------------------
(* The pages of an administrator.  One whose statement fails changes       *)
(* nothing, neither row nor copy.                                          *)
settingsSecurityUpdate(r) ==
  \E v \in Values : Serve(r) /\ Saved(r, "security", v)
                    /\ UNCHANGED <<mem, provider, cas, faults, stale, typed, lost, late>>

settingsPolicyUpdate(r) ==
  \E v \in Values : Serve(r) /\ Saved(r, "policy", v)
                    /\ UNCHANGED <<mem, provider, cas, faults, stale, typed, lost, late>>

certRotateCA(r) ==
  /\ Serve(r) /\ cas < MaxCAs /\ cas' = cas + 1
  /\ Saved(r, "ca", cas + 1)
  /\ UNCHANGED <<mem, provider, faults, stale, typed, lost, late>>

StoredSecret == IF stored.oidc = None THEN None ELSE stored.oidc.secret

\* A blank secret keeps the stored one, read first; an error of that read is not looked at.
settingsAuthenticationUpdate(r) ==
  \E on \in BOOLEAN, ident \in Idents, form \in Secrets \cup {None}, fails \in BOOLEAN :
    LET kept   == IF fails THEN None ELSE StoredSecret
        secret == IF form = None THEN kept ELSE form
    IN
    /\ Serve(r)
    /\ fails => faults < MaxFaults
    /\ faults' = IF fails THEN faults + 1 ELSE faults
    /\ on => secret # None
    /\ req' = [req EXCEPT ![r] = [at |-> "save", item |-> "oidc", val |-> [on |-> on, ident |-> ident, secret |-> secret],
                                  crossed |-> FALSE, form |-> form, failed |-> fails]]
    /\ UNCHANGED <<stored, mem, provider, cas, stale, typed, lost, late>>

\* Mutant: what the form says of the secret is stored, blank or not.
SaveOIDCForm(r) ==
  /\ req[r].at = "save"
  /\ Saved(r, "oidc", [req[r].val EXCEPT !.secret = req[r].form])
  /\ typed' = IF req[r].form = None THEN typed ELSE req[r].form
  /\ lost' = (req[r].form = None /\ (lost \/ req[r].crossed \/ req[r].failed))
  /\ UNCHANGED <<mem, provider, cas, served, faults, stale, late>>

SaveOIDC(r) ==
  /\ req[r].at = "save"
  /\ Saved(r, "oidc", req[r].val)
  /\ typed' = IF req[r].form = None THEN typed ELSE req[r].form
  /\ lost' = (req[r].form = None /\ (lost \/ req[r].crossed \/ req[r].failed))
  /\ UNCHANGED <<mem, provider, cas, served, faults, stale, late>>

\* Mutant: the cached provider survives the change.
SetKeepingProvider(r) ==
  /\ req[r].at = "set"
  /\ mem' = [mem EXCEPT ![req[r].item] = req[r].val]
  /\ stale' = IF req[r].crossed THEN stale \cup {req[r].item} ELSE stale \ {req[r].item}
  /\ req' = [req EXCEPT ![r] = Idle]
  /\ UNCHANGED <<stored, provider, cas, served, faults, typed, lost, late>>

\* Mutant: the policy settings in memory wait for a restart.
SetAllButPolicy(r) ==
  /\ req[r].at = "set"
  /\ mem' = IF req[r].item = "policy" THEN mem ELSE [mem EXCEPT ![req[r].item] = req[r].val]
  /\ provider' = IF req[r].item = "oidc" THEN None ELSE provider
  /\ late' = IF req[r].item = "oidc" THEN FALSE ELSE late
  /\ stale' = IF req[r].crossed THEN stale \cup {req[r].item} ELSE stale \ {req[r].item}
  /\ req' = [req EXCEPT ![r] = Idle]
  /\ UNCHANGED <<stored, cas, served, faults, typed, lost>>

\* setSettings, setPolicySettings, setOIDC (which drops the provider), setCA.
SetCached(r) ==
  /\ req[r].at = "set"
  /\ mem' = [mem EXCEPT ![req[r].item] = req[r].val]
  /\ provider' = IF req[r].item = "oidc" THEN None ELSE provider
  /\ late' = IF req[r].item = "oidc" THEN FALSE ELSE late
  /\ stale' = IF req[r].crossed THEN stale \cup {req[r].item} ELSE stale \ {req[r].item}
  /\ req' = [req EXCEPT ![r] = Idle]
  /\ UNCHANGED <<stored, cas, served, faults, typed, lost>>

\* The statement fails and the handler gives up before it touches the copy.
SaveFails(r) ==
  /\ req[r].at = "save" /\ faults < MaxFaults
  /\ faults' = faults + 1
  /\ req' = [req EXCEPT ![r] = Idle]
  /\ UNCHANGED <<stored, mem, provider, cas, served, stale, typed, lost, late>>

-----------------------------------------------------------------------------
(* A sign-in takes the settings, then the provider; it builds one outside  *)
(* the lock when the cached one does not match, and stores it.             *)
getOIDCProvider(r) ==
  /\ Serve(r) /\ mem.oidc.on
  /\ req' = [req EXCEPT ![r] = [at |-> "provider", val |-> mem.oidc]]
  /\ UNCHANGED <<stored, mem, provider, cas, faults, stale, typed, lost, late>>

Matches(p, o) == p # None /\ p.ident = o.ident

UseCached(r) ==
  /\ req[r].at = "provider" /\ Matches(provider, req[r].val)
  /\ req' = [req EXCEPT ![r] = Idle]
  /\ UNCHANGED <<stored, mem, provider, cas, served, faults, stale, typed, lost, late>>

buildOIDCProvider(r) ==
  /\ req[r].at = "provider" /\ ~ Matches(provider, req[r].val)
  /\ req' = [req EXCEPT ![r].at = "build"]
  /\ UNCHANGED <<stored, mem, provider, cas, served, faults, stale, typed, lost, late>>

\* The issuer does not answer.
BuildFails(r) ==
  /\ req[r].at = "build"
  /\ req' = [req EXCEPT ![r] = Idle]
  /\ UNCHANGED <<stored, mem, provider, cas, served, faults, stale, typed, lost, late>>

StoreProvider(r) ==
  /\ req[r].at = "build"
  /\ provider' = [ident |-> req[r].val.ident, secret |-> req[r].val.secret]
  /\ late' = (req[r].val # mem.oidc)
  /\ req' = [req EXCEPT ![r] = Idle]
  /\ UNCHANGED <<stored, mem, cas, served, faults, stale, typed, lost>>

-----------------------------------------------------------------------------
(* Start-up: loadSettings, then ensureCA.                                  *)
\* The authority that start-up ends with: the stored one, a new one when there is
\* none or its key does not open, none when the row cannot be read.
ensureCA(outcome) ==
  CASE outcome = "loaded" /\ stored.ca # 0 -> mem'.ca = stored.ca /\ UNCHANGED <<stored, cas>>
    [] outcome = "unread"                  -> mem'.ca = 0 /\ UNCHANGED <<stored, cas>>
    [] OTHER -> /\ cas < MaxCAs /\ cas' = cas + 1
                /\ mem'.ca = cas + 1
                /\ stored' = [stored EXCEPT !.ca = cas + 1]

\* A failed read of the settings leaves the environment's.
loadSettings(read, authority) ==
  mem' = IF read THEN [Loaded EXCEPT !.ca = authority]
         ELSE [security |-> EnvValue, policy |-> EnvValue, oidc |-> EnvOIDC, ca |-> authority]

Restart(read, outcome) ==
  /\ faults < MaxFaults /\ faults' = faults + 1
  /\ \E authority \in 0 .. MaxCAs : loadSettings(read, authority)
  /\ ensureCA(outcome)
  /\ provider' = None /\ late' = FALSE
  /\ req' = [r \in Requests |-> Idle]
  /\ stale' = (IF read THEN {} ELSE Items \ {"ca"}) \cup (IF outcome = "unread" THEN {"ca"} ELSE {})
  /\ UNCHANGED <<served, typed, lost>>

-----------------------------------------------------------------------------
\* The first start-up has generated the first authority.
CacheInit ==
  /\ stored = [security |-> None, policy |-> None, oidc |-> None, ca |-> 1]
  /\ mem = [security |-> EnvValue, policy |-> EnvValue, oidc |-> EnvOIDC, ca |-> 1]
  /\ provider = None
  /\ req = [r \in Requests |-> Idle]
  /\ cas = 1 /\ served = 0 /\ faults = 0
  /\ stale = {} /\ typed = None /\ lost = FALSE /\ late = FALSE

CacheNext ==
  \/ \E r \in Requests :
       \/ settingsSecurityUpdate(r) \/ settingsPolicyUpdate(r) \/ certRotateCA(r)
       \/ settingsAuthenticationUpdate(r) \/ SaveOIDC(r) \/ SetCached(r) \/ SaveFails(r)
       \/ getOIDCProvider(r) \/ UseCached(r) \/ buildOIDCProvider(r) \/ StoreProvider(r) \/ BuildFails(r)
  \/ \E read \in BOOLEAN, outcome \in {"loaded", "unopened", "unread"} : Restart(read, outcome)

-----------------------------------------------------------------------------
(* Properties.                                                             *)

\* Settings that are switched off are all alike.
InForce(item, v) == IF item = "oidc" /\ ~ v.on THEN None ELSE v

\* With no change under way, what is in force is what a restart would load, for
\* every copy that two crossed changes or a failed load did not leave behind.
CacheCurrent ==
  \A item \in Items \ stale :
    (\A r \in Requests : req[r].at = "set" => req[r].item # item) =>
      InForce(item, mem[item]) = InForce(item, Loaded[item])

\* The stored client secret is the one last typed: a save that leaves the field
\* blank keeps it, unless another save came between or the old one was not read.
SecretKept == lost \/ StoredSecret = typed

\* A cached provider that sign-ins will take has the secret in force, unless it was
\* stored by a sign-in that had started before the settings changed.
ProviderCurrent ==
  late \/ (Matches(provider, mem.oidc) => provider.secret = mem.oidc.secret)
=============================================================================
