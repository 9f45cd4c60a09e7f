--------------------------- MODULE VolatileProofs ---------------------------
(***************************************************************************)
(* Proofs, for any number of requests, webhooks, events and rotations, of  *)
(* the safety properties of what the server and the agent keep in memory:  *)
(* the caches, the webhook gate and deliveries, and the agent's keypair.   *)
(***************************************************************************)
EXTENDS AppCaches, Webhooks, CertReload, FiniteSetTheorems, TLAPS

CacheSpec == CacheInit /\ [][CacheNext]_cacheVars
HookSpec  == HookInit /\ [][HookNext]_hookVars
CertSpec  == CertInit /\ [][CertNext]_certVars

-----------------------------------------------------------------------------
(* The agent's keypair                                                     *)

\* No file and no load is newer than the clock, so that every write shows; and a
\* reload under way does not end the obligation.
CertInv ==
  /\ clock \in Nat /\ modTime \in Nat /\ modTime <= clock
  /\ file \in [Files -> [content : Rotation \cup {Torn}, mod : Nat]]
  /\ \A f \in Files : file[f].mod <= clock
  /\ up = "up" /\ ~ changed /\ Whole /\ ~ overlooked =>
       current.cert = file["cert"].content /\ current.key = file["key"].content

LEMMA FileTimes ==
  ASSUME CertInv
  PROVE  /\ file["cert"].mod \in Nat /\ file["key"].mod \in Nat
         /\ latestModTime \in Nat /\ latestModTime <= clock
BY DEF CertInv, latestModTime, Files

\* A write is newer than anything loaded.
LEMMA WriteShows ==
  ASSUME CertInv, NEW f \in Files, NEW content \in Rotation \cup {Torn}, Write(f, content)
  PROVE  CertInv'
<1> DEFINE new == [content |-> content, mod |-> clock + 1]
<1>1. /\ clock \in Nat /\ modTime \in Nat /\ modTime <= clock
      /\ file \in [Files -> [content : Rotation \cup {Torn}, mod : Nat]]
      /\ \A g \in Files : file[g].mod <= clock /\ file[g].mod \in Nat
  BY DEF CertInv
<1>2. /\ clock' = clock + 1 /\ file' = [file EXCEPT ![f] = new]
      /\ UNCHANGED <<current, modTime, load, up, overlooked>>
  BY DEF Write
<1>3. new \in [content : Rotation \cup {Torn}, mod : Nat] /\ new.mod = clock + 1
  BY <1>1
<1> HIDE DEF new
<1>4. /\ file' \in [Files -> [content : Rotation \cup {Torn}, mod : Nat]]
      /\ \A g \in Files : file'[g].mod <= clock + 1 /\ file'[g].mod \in Nat
      /\ file'[f].mod = clock + 1
  BY <1>1, <1>2, <1>3
<1>5. latestModTime' = clock + 1
  BY <1>1, <1>4 DEF latestModTime, Files
<1>6. changed'
  BY <1>1, <1>2, <1>5 DEF changed
<1> QED BY <1>1, <1>2, <1>4, <1>6 DEF CertInv

(***************************************************************************)
(* A running agent that has nothing left to load (Watch, reload) serves    *)
(* the keypair on disk, wherever the writes of a rotation fall between its *)
(* reads, unless a whole newer pair was written before it took the times.  *)
(***************************************************************************)
THEOREM RotationStaysServed == CertSpec => []RotationServed
<1>1. CertInit => CertInv
  BY CertReloadAssumption DEF CertInit, CertInv, Files, Rotation
<1>2. CertInv /\ [CertNext]_certVars => CertInv'
  <2> SUFFICES ASSUME CertInv, [CertNext]_certVars PROVE CertInv'
    OBVIOUS
  <2>1. CASE Rotate
    <3>1. PICK f \in Files, r \in 1 .. MaxRotations : Write(f, Torn) \/ Write(f, r)
      BY <2>1 DEF Rotate, RotateFile
    <3>2. r \in Rotation
      BY CertReloadAssumption DEF Rotation
    <3> QED BY <3>1, <3>2, WriteShows
  <2>2. ASSUME UNCHANGED <<file, clock, current, modTime, overlooked>>, up' = up \/ up' = "down" PROVE CertInv'
    BY <2>2 DEF CertInv, changed, latestModTime, Whole
  <2>3. CASE reload
    <3>1. /\ current'.cert = load.cert /\ current'.key = load.key /\ load.cert = load.key
          /\ modTime' = latestModTime /\ overlooked' = (Whole /\ file["cert"].content # load.cert)
          /\ UNCHANGED <<file, clock>>
      BY <2>3 DEF reload, PairLoads
    <3>2. Whole' /\ ~ overlooked' => current'.cert = file'["cert"].content /\ current'.key = file'["key"].content
      BY <3>1 DEF Whole
    <3> QED BY <3>1, <3>2, FileTimes DEF CertInv
  <2>4. CASE Begin \/ ReadCert \/ ReadKey \/ ReloadFails
    BY <2>2, <2>4 DEF Begin, ReadCert, ReadKey, ReloadFails
  <2>5. CASE UNCHANGED certVars
    BY <2>2, <2>5 DEF certVars
  <2> QED BY <2>1, <2>3, <2>4, <2>5 DEF CertNext, Watcher
<1>3. CertInv => RotationServed
  BY DEF CertInv, RotationServed
<1> QED BY <1>1, <1>2, <1>3, PTL DEF CertSpec

-----------------------------------------------------------------------------
(* The copies in memory of what is stored                                  *)

StoredRows == [security : Values \cup {None}, policy : Values \cup {None}, oidc : OIDC \cup {None}, ca : Nat]
Copies     == [security : Values, policy : Values, oidc : OIDC, ca : Nat]

\* The shapes a handler has.
SetRequest  == [at : {"set"}, item : Items, val : Values \cup OIDC \cup Nat, crossed : BOOLEAN]
SaveRequest == [at : {"save"}, item : {"oidc"}, val : OIDC, crossed : BOOLEAN,
                form : Secrets \cup {None}, failed : BOOLEAN]
SignIn      == [at : {"provider", "build"}, val : OIDC]

CacheTyped ==
  /\ stored \in StoredRows /\ mem \in Copies
  /\ req \in [Requests -> {Idle} \cup SetRequest \cup SaveRequest \cup SignIn]
  /\ cas \in Nat /\ lost \in BOOLEAN

\* What a page may store of an item: single sign-on is switched on with a secret only.
Storable(item, v) ==
  /\ item \in {"security", "policy"} => v \in Values
  /\ item = "oidc" => v \in OIDC /\ (v.on => v.secret # None)
  /\ item = "ca" => v \in Nat

\* What a handler is about to write is what the row says, unless it was overtaken; a
\* blank secret has been filled in with the stored one, unless overtaken or unread.
HandlerOK(h) ==
  /\ h.at = "set" => Storable(h.item, h.val) /\ (~ h.crossed => h.val = stored[h.item])
  /\ h.at = "save" => /\ Storable("oidc", h.val)
                      /\ h.form # None => h.val.secret = h.form
                      /\ h.form = None /\ ~ h.crossed /\ ~ h.failed => h.val.secret = StoredSecret

CacheInv ==
  /\ CacheTyped
  /\ \A r \in Requests : HandlerOK(req[r])
  /\ CacheCurrent /\ SecretKept /\ ProviderCurrent


Request == {Idle} \cup SetRequest \cup SaveRequest \cup SignIn

LEMMA Shapes ==
  ASSUME NEW h \in Request
  PROVE  /\ h.at \in {"idle", "set", "save", "provider", "build"}
         /\ h.at = "idle" => h = Idle
         /\ h.at = "set" => h \in SetRequest
         /\ h.at = "save" => h \in SaveRequest
         /\ h.at \in {"provider", "build"} => h \in SignIn
BY DEF Request, Idle, SetRequest, SaveRequest, SignIn

LEMMA CacheParts ==
  ASSUME CacheInv
  PROVE  /\ stored \in StoredRows /\ mem \in Copies /\ cas \in Nat /\ lost \in BOOLEAN
         /\ req \in [Requests -> Request]
         /\ \A r \in Requests : req[r] \in Request /\ HandlerOK(req[r])
         /\ CacheCurrent /\ SecretKept /\ ProviderCurrent
BY DEF CacheInv, CacheTyped, Request

\* What a start-up loads of an item depends on the row of that item alone.
LEMMA LoadedByItem ==
  ASSUME stored \in StoredRows, stored' \in StoredRows, NEW item \in Items, stored'[item] = stored[item]
  PROVE  Loaded'[item] = Loaded[item]
<1>1. CASE item = "security"
  BY <1>1 DEF Loaded, StoredRows
<1>2. CASE item = "policy"
  BY <1>2 DEF Loaded, StoredRows
<1>3. CASE item = "oidc"
  BY <1>3 DEF Loaded, StoredRows
<1>4. CASE item = "ca"
  BY <1>4 DEF Loaded, StoredRows
<1> QED BY <1>1, <1>2, <1>3, <1>4 DEF Items

\* What a page stores is what is in force once it is loaded.
LEMMA StorableInForce ==
  ASSUME stored \in StoredRows, NEW item \in Items, NEW v, Storable(item, v), stored[item] = v
  PROVE  InForce(item, Loaded[item]) = InForce(item, v)
<1>1. CASE item \in {"security", "policy"}
  BY <1>1, AppCachesAssumption DEF Loaded, StoredRows, Storable, mergeSettings, InForce
<1>2. CASE item = "ca"
  BY <1>2 DEF Loaded, InForce
<1>3. CASE item = "oidc"
  <2>1. v \in OIDC /\ (v.on => v.secret # None) /\ Loaded.oidc = mergeOIDCSettings(v) /\ v # None
    BY <1>3, AppCachesAssumption DEF Storable, Loaded
  <2>2. CASE v.secret # None
    <3>1. mergeOIDCSettings(v) = [v EXCEPT !.secret = v.secret]
      BY <2>1, <2>2 DEF mergeOIDCSettings, OIDC
    <3>2. [v EXCEPT !.secret = v.secret] = v
      BY <2>1 DEF OIDC
    <3> QED BY <1>3, <2>1, <3>1, <3>2
  <2>3. CASE v.secret = None
    <3>1. ~ v.on
      BY <2>1, <2>3
    <3>2. mergeOIDCSettings(v).on = v.on
      BY <2>1 DEF mergeOIDCSettings, OIDC
    <3> QED BY <1>3, <2>1, <3>1, <3>2 DEF InForce
  <2> QED BY <2>2, <2>3
<1> QED BY <1>1, <1>2, <1>3 DEF Items

\* A commit: the handler that made it is the one that is not overtaken.
LEMMA CommitKeeps ==
  ASSUME CacheInv, NEW r \in Requests, NEW item \in Items, NEW v, Storable(item, v), Saved(r, item, v),
         req[r].at # "set", UNCHANGED <<mem, provider, stale, late>>, cas' \in Nat, lost' \in BOOLEAN, SecretKept'
  PROVE  CacheInv'
<1> DEFINE h == [at |-> "set", item |-> item, val |-> v, crossed |-> FALSE]
<1>0. /\ stored \in StoredRows /\ mem \in Copies /\ req \in [Requests -> Request] /\ CacheCurrent /\ ProviderCurrent
      /\ \A q \in Requests : req[q] \in Request /\ HandlerOK(req[q])
  BY CacheParts
<1>1. v \in Values \cup OIDC \cup Nat
  BY DEF Storable, Items
<1>2. /\ stored' = [stored EXCEPT ![item] = v]
      /\ req' = [q \in Requests |-> IF q = r THEN h ELSE Overtake(q, item)]
  BY DEF Saved
<1>3. stored' \in StoredRows /\ stored'[item] = v /\ \A j \in Items \ {item} : stored'[j] = stored[j]
  <2>1. stored'[item] = v /\ \A j \in Items \ {item} : stored'[j] = stored[j]
    BY <1>0, <1>2 DEF StoredRows, Items
  <2>2. CASE item = "security"
    BY <1>0, <1>2, <2>2 DEF StoredRows, Storable
  <2>3. CASE item = "policy"
    BY <1>0, <1>2, <2>3 DEF StoredRows, Storable
  <2>4. CASE item = "oidc"
    BY <1>0, <1>2, <2>4 DEF StoredRows, Storable
  <2>5. CASE item = "ca"
    BY <1>0, <1>2, <2>5 DEF StoredRows, Storable
  <2> QED BY <2>1, <2>2, <2>3, <2>4, <2>5 DEF Items
<1>4. h \in SetRequest /\ h.at = "set" /\ h.item = item /\ h.val = v /\ ~ h.crossed
  BY <1>1 DEF SetRequest
<1> HIDE DEF h
<1>5. req'[r] = h /\ HandlerOK(req[r])'
  <2>1. req'[r] = h
    BY <1>2
  <2> QED BY <1>3, <1>4, <2>1 DEF HandlerOK
<1>6. ASSUME NEW q \in Requests \ {r}
      PROVE  /\ req'[q] \in Request /\ req'[q].at = req[q].at
             /\ req[q].at = "set" => req'[q].item = req[q].item
             /\ HandlerOK(req[q])'
  <2>0. req'[q] = Overtake(q, item) /\ req[q] \in Request /\ HandlerOK(req[q])
    BY <1>0, <1>2
  <2>1. CASE req[q].at = "set" /\ req[q].item = item
    <3> DEFINE g == [req[q] EXCEPT !.crossed = TRUE]
    <3>1. req[q] \in SetRequest /\ req'[q] = g
      BY <2>0, <2>1, Shapes DEF Overtake
    <3>2. g \in SetRequest /\ g.at = "set" /\ g.item = req[q].item /\ g.val = req[q].val /\ g.crossed
      BY <2>1, <3>1 DEF SetRequest
    <3> HIDE DEF g
    <3> QED BY <2>0, <2>1, <3>1, <3>2 DEF HandlerOK, Request, Storable
  <2>2. CASE req[q].at = "save" /\ item = "oidc"
    <3> DEFINE g == [req[q] EXCEPT !.crossed = TRUE]
    <3>1. req[q] \in SaveRequest /\ req'[q] = g
      BY <2>0, <2>2, Shapes DEF Overtake, SaveRequest
    <3>2. g \in SaveRequest /\ g.at = "save" /\ g.val = req[q].val /\ g.form = req[q].form /\ g.crossed
      BY <2>2, <3>1 DEF SaveRequest
    <3> HIDE DEF g
    <3> QED BY <2>0, <2>2, <3>1, <3>2 DEF HandlerOK, Request, Storable
  <2>3. CASE ~(req[q].at = "set" /\ req[q].item = item) /\ ~(req[q].at = "save" /\ item = "oidc")
    <3>1. req'[q] = req[q]
      <4>1. req[q].at = "save" => req[q].item = "oidc"
        BY <2>0, Shapes DEF SaveRequest
      <4> QED BY <2>0, <2>3, <4>1 DEF Overtake
    <3>2. ASSUME req[q].at = "set" PROVE req[q].item \in Items \ {item}
      BY <2>0, <2>3, <3>2, Shapes DEF SetRequest
    <3>3. ASSUME req[q].at = "save" PROVE StoredSecret' = StoredSecret
      BY <1>3, <2>3, <3>3 DEF StoredSecret, Items
    <3> QED BY <1>3, <2>0, <3>1, <3>2, <3>3 DEF HandlerOK, Storable
  <2> QED BY <2>1, <2>2, <2>3
<1>7. CacheTyped'
  <2>1. \A q \in Requests : req'[q] \in Request
    BY <1>4, <1>5, <1>6 DEF Request
  <2>2. req' = [q \in Requests |-> req'[q]]
    BY <1>2
  <2> QED BY <1>0, <1>3, <2>1, <2>2 DEF CacheTyped, Request
<1>8. CacheCurrent'
  <2> SUFFICES ASSUME NEW j \in Items \ stale, \A q \in Requests : req'[q].at = "set" => req'[q].item # j
               PROVE  InForce(j, mem[j]) = InForce(j, Loaded'[j])
    BY DEF CacheCurrent, InForce
  <2>1. j # item
    BY <1>4, <1>5
  <2>2. \A q \in Requests : req[q].at = "set" => req[q].item # j
    BY <1>6
  <2>3. Loaded'[j] = Loaded[j]
    BY <1>0, <1>3, <2>1, LoadedByItem
  <2> QED BY <1>0, <2>2, <2>3 DEF CacheCurrent
<1>9. ProviderCurrent'
  BY <1>0 DEF ProviderCurrent, Matches
<1> QED BY <1>5, <1>6, <1>7, <1>8, <1>9 DEF CacheInv

\* A step of one handler that neither commits nor sets a copy.
LEMMA HandlerKeeps ==
  ASSUME CacheInv, NEW r \in Requests, NEW h \in Request, req' = [req EXCEPT ![r] = h], HandlerOK(h),
         h.at # "set", req[r].at # "set",
         UNCHANGED <<stored, mem, cas, stale, typed, lost>>, ProviderCurrent'
  PROVE  CacheInv'
<1>0. /\ stored \in StoredRows /\ mem \in Copies /\ req \in [Requests -> Request] /\ cas \in Nat /\ lost \in BOOLEAN
      /\ CacheCurrent /\ SecretKept /\ \A q \in Requests : req[q] \in Request /\ HandlerOK(req[q])
  BY CacheParts
<1>1. req' \in [Requests -> Request] /\ req'[r] = h /\ \A q \in Requests \ {r} : req'[q] = req[q]
  BY <1>0
<1>2. CacheTyped'
  BY <1>0, <1>1 DEF CacheTyped, Request
<1>3. StoredSecret' = StoredSecret /\ Loaded' = Loaded
  BY DEF StoredSecret, Loaded
<1>4. \A q \in Requests : HandlerOK(req[q])'
  BY <1>0, <1>1, <1>3 DEF HandlerOK, Storable
<1>5. CacheCurrent'
  BY <1>0, <1>1, <1>3 DEF CacheCurrent, InForce
<1>6. SecretKept'
  BY <1>0, <1>3 DEF SecretKept
<1> QED BY <1>2, <1>4, <1>5, <1>6 DEF CacheInv

LEMMA IdleRequest == Idle \in Request /\ Idle.at = "idle" /\ HandlerOK(Idle)
BY DEF Idle, Request, HandlerOK

\* The pages, and the commit of the single sign-on page.
LEMMA PagesKeep ==
  ASSUME CacheInv, NEW r \in Requests,
         \/ settingsSecurityUpdate(r) \/ settingsPolicyUpdate(r) \/ certRotateCA(r)
         \/ settingsAuthenticationUpdate(r) \/ SaveOIDC(r) \/ SaveFails(r)
  PROVE  CacheInv'
<1>0. /\ stored \in StoredRows /\ cas \in Nat /\ lost \in BOOLEAN /\ SecretKept /\ ProviderCurrent
      /\ req \in [Requests -> Request] /\ req[r] \in Request /\ HandlerOK(req[r])
  BY CacheParts
\* A commit of another item leaves the secret.
<1>1. ASSUME NEW item \in Items \ {"oidc"}, NEW v, Storable(item, v), Saved(r, item, v), req[r].at = "idle",
             UNCHANGED <<mem, provider, stale, typed, lost, late>>, cas' \in Nat
      PROVE  CacheInv'
  <2>1. stored'.oidc = stored.oidc
    BY <1>0, <1>1 DEF Saved, StoredRows, Items
  <2>2. SecretKept'
    BY <1>0, <1>1, <2>1 DEF SecretKept, StoredSecret
  <2> QED BY <1>0, <1>1, <2>2, CommitKeeps
<1>2. CASE settingsSecurityUpdate(r)
  <2>1. PICK v \in Values : /\ Serve(r) /\ Saved(r, "security", v)
                            /\ UNCHANGED <<mem, provider, cas, faults, stale, typed, lost, late>>
    BY <1>2 DEF settingsSecurityUpdate
  <2> QED BY <1>0, <1>1, <2>1 DEF Serve, Storable, Items
<1>3. CASE settingsPolicyUpdate(r)
  <2>1. PICK v \in Values : /\ Serve(r) /\ Saved(r, "policy", v)
                            /\ UNCHANGED <<mem, provider, cas, faults, stale, typed, lost, late>>
    BY <1>3 DEF settingsPolicyUpdate
  <2> QED BY <1>0, <1>1, <2>1 DEF Serve, Storable, Items
<1>4. CASE certRotateCA(r)
  BY <1>0, <1>1, <1>4 DEF certRotateCA, Serve, Storable, Items
<1>5. CASE settingsAuthenticationUpdate(r)
  <2>1. PICK on \in BOOLEAN, ident \in Idents, form \in Secrets \cup {None}, fails \in BOOLEAN :
          LET kept   == IF fails THEN None ELSE StoredSecret
              secret == IF form = None THEN kept ELSE form
          IN
          /\ Serve(r)
          /\ fails => faults < MaxFaults
          /\ faults' = IF fails THEN faults + 1 ELSE faults
          /\ on => secret # None
          /\ req' = [req EXCEPT ![r] = [at |-> "save", item |-> "oidc", val |-> [on |-> on, ident |-> ident, secret |-> secret],
                                        crossed |-> FALSE, form |-> form, failed |-> fails]]
          /\ UNCHANGED <<stored, mem, provider, cas, stale, typed, lost, late>>
    BY <1>5, Zenon DEF settingsAuthenticationUpdate
  <2> DEFINE secret == IF form = None THEN IF fails THEN None ELSE StoredSecret ELSE form
             val == [on |-> on, ident |-> ident, secret |-> secret]
             h == [at |-> "save", item |-> "oidc", val |-> val, crossed |-> FALSE, form |-> form, failed |-> fails]
  <2>2. StoredSecret \in Secrets \cup {None}
    BY <1>0 DEF StoredSecret, StoredRows, OIDC
  <2>3. secret \in Secrets \cup {None}
    BY <2>2
  <2>4. /\ req[r].at = "idle"
        /\ on => secret # None
        /\ req' = [req EXCEPT ![r] = h]
        /\ UNCHANGED <<stored, mem, provider, cas, stale, typed, lost, late>>
    BY <2>1 DEF Serve
  <2>5. form # None => secret = form
    OBVIOUS
  <2>6. form = None /\ ~ fails => secret = StoredSecret
    OBVIOUS
  <2> HIDE DEF secret
  <2>7. val \in OIDC /\ val.on = on /\ val.secret = secret
    BY <2>3 DEF OIDC
  <2> HIDE DEF val
  <2>8. h \in SaveRequest /\ h.at = "save" /\ h.val = val /\ h.form = form /\ h.crossed = FALSE /\ h.failed = fails
    BY <2>7 DEF SaveRequest
  <2> HIDE DEF h
  <2>9. HandlerOK(h)
    BY <2>4, <2>5, <2>6, <2>7, <2>8 DEF HandlerOK, Storable
  <2>10. ProviderCurrent'
    BY <1>0, <2>4 DEF ProviderCurrent, Matches
  <2> QED BY <2>4, <2>8, <2>9, <2>10, HandlerKeeps DEF Request
<1>6. CASE SaveOIDC(r)
  <2>1. /\ req[r].at = "save" /\ Saved(r, "oidc", req[r].val)
        /\ typed' = IF req[r].form = None THEN typed ELSE req[r].form
        /\ lost' = (req[r].form = None /\ (lost \/ req[r].crossed \/ req[r].failed))
        /\ UNCHANGED <<mem, provider, cas, stale, late>>
    BY <1>6 DEF SaveOIDC
  <2>2. req[r] \in SaveRequest /\ req[r].val \in OIDC /\ Storable("oidc", req[r].val)
    BY <1>0, <2>1, Shapes DEF HandlerOK, SaveRequest
  <2>3. stored'.oidc = req[r].val
    BY <1>0, <2>1 DEF Saved, StoredRows
  <2>4. StoredSecret' = req[r].val.secret
    BY <2>2, <2>3, AppCachesAssumption DEF StoredSecret
  <2>5. SecretKept'
    <3>1. CASE req[r].form # None
      BY <1>0, <2>1, <2>4, <3>1 DEF SecretKept, HandlerOK
    <3>2. CASE req[r].form = None
      BY <1>0, <2>1, <2>4, <3>2 DEF SecretKept, HandlerOK
    <3> QED BY <3>1, <3>2
  <2>6. lost' \in BOOLEAN
    BY <2>1
  <2> QED BY <1>0, <2>1, <2>2, <2>5, <2>6, CommitKeeps DEF Items
<1>7. CASE SaveFails(r)
  <2>1. ProviderCurrent'
    BY <1>0, <1>7 DEF SaveFails, ProviderCurrent, Matches
  <2> QED BY <1>7, <2>1, IdleRequest, HandlerKeeps DEF SaveFails
<1> QED BY <1>2, <1>3, <1>4, <1>5, <1>6, <1>7

\* setSettings, setPolicySettings, setOIDC, setCA.
LEMMA SetKeeps ==
  ASSUME CacheInv, NEW r \in Requests, SetCached(r)
  PROVE  CacheInv'
<1> DEFINE item == req[r].item
           val == req[r].val
<1>0. /\ stored \in StoredRows /\ mem \in Copies /\ cas \in Nat /\ lost \in BOOLEAN
      /\ req \in [Requests -> Request] /\ CacheCurrent /\ SecretKept /\ ProviderCurrent
      /\ \A q \in Requests : req[q] \in Request /\ HandlerOK(req[q])
  BY CacheParts
<1>1. /\ req[r].at = "set" /\ mem' = [mem EXCEPT ![item] = val]
      /\ provider' = IF item = "oidc" THEN None ELSE provider
      /\ late' = IF item = "oidc" THEN FALSE ELSE late
      /\ stale' = IF req[r].crossed THEN stale \cup {item} ELSE stale \ {item}
      /\ req' = [req EXCEPT ![r] = Idle]
      /\ UNCHANGED <<stored, cas, typed, lost>>
  BY DEF SetCached
<1>2. req[r] \in SetRequest /\ item \in Items /\ Storable(item, val) /\ (~ req[r].crossed => val = stored[item])
  BY <1>0, <1>1, Shapes DEF SetRequest, HandlerOK
<1> HIDE DEF item, val
<1>3. mem'[item] = val /\ \A j \in Items \ {item} : mem'[j] = mem[j]
  BY <1>0, <1>1, <1>2 DEF Copies, Items
<1>4. mem' \in Copies
  <2>2. CASE item = "security"
    BY <1>0, <1>1, <1>2, <2>2 DEF Copies, Storable
  <2>3. CASE item = "policy"
    BY <1>0, <1>1, <1>2, <2>3 DEF Copies, Storable
  <2>4. CASE item = "oidc"
    BY <1>0, <1>1, <1>2, <2>4 DEF Copies, Storable
  <2>5. CASE item = "ca"
    BY <1>0, <1>1, <1>2, <2>5 DEF Copies, Storable
  <2> QED BY <1>2, <2>2, <2>3, <2>4, <2>5 DEF Items
<1>5. req' \in [Requests -> Request] /\ req'[r] = Idle /\ \A q \in Requests \ {r} : req'[q] = req[q]
  BY <1>0, <1>1, IdleRequest
<1>6. CacheTyped'
  BY <1>0, <1>1, <1>4, <1>5 DEF CacheTyped, Request
<1>7. StoredSecret' = StoredSecret /\ Loaded' = Loaded
  BY <1>1 DEF StoredSecret, Loaded
<1>8. \A q \in Requests : HandlerOK(req[q])'
  BY <1>0, <1>1, <1>5, <1>7, IdleRequest DEF HandlerOK, Storable
<1>9. CacheCurrent'
  <2> SUFFICES ASSUME NEW j \in Items \ stale', \A q \in Requests : req'[q].at = "set" => req'[q].item # j
               PROVE  InForce(j, mem'[j]) = InForce(j, Loaded[j])
    BY <1>7 DEF CacheCurrent, InForce
  <2>1. CASE j = item
    <3>1. ~ req[r].crossed
      BY <1>1, <2>1
    <3>2. val = stored[item]
      BY <1>2, <3>1
    <3> QED BY <1>0, <1>2, <1>3, <2>1, <3>2, StorableInForce
  <2>2. CASE j # item
    <3>1. j \in Items \ stale
      BY <1>1, <2>2
    <3>2. \A q \in Requests : req[q].at = "set" => req[q].item # j
      BY <1>5, <2>2 DEF item
    <3> QED BY <1>0, <1>3, <2>2, <3>1, <3>2 DEF CacheCurrent
  <2> QED BY <2>1, <2>2
<1>10. ProviderCurrent'
  <2>1. CASE item = "oidc"
    BY <1>1, <2>1 DEF ProviderCurrent, Matches
  <2>2. CASE item # "oidc"
    <3>1. mem'.oidc = mem.oidc /\ provider' = provider /\ late' = late
      BY <1>1, <1>3, <2>2 DEF Items
    <3> QED BY <1>0, <3>1 DEF ProviderCurrent, Matches
  <2> QED BY <2>1, <2>2
<1>11. SecretKept'
  BY <1>0, <1>1, <1>7 DEF SecretKept
<1> QED BY <1>6, <1>8, <1>9, <1>10, <1>11 DEF CacheInv

LEMMA SignInKeeps ==
  ASSUME CacheInv, NEW r \in Requests,
         getOIDCProvider(r) \/ UseCached(r) \/ buildOIDCProvider(r) \/ StoreProvider(r) \/ BuildFails(r)
  PROVE  CacheInv'
<1>0. /\ mem \in Copies /\ ProviderCurrent /\ req \in [Requests -> Request] /\ req[r] \in Request
  BY CacheParts
<1>1. CASE getOIDCProvider(r)
  <2> DEFINE h == [at |-> "provider", val |-> mem.oidc]
  <2>1. h \in SignIn /\ h.at = "provider"
    BY <1>0 DEF SignIn, Copies
  <2>2. /\ req[r].at = "idle" /\ req' = [req EXCEPT ![r] = h]
        /\ UNCHANGED <<stored, mem, provider, cas, stale, typed, lost, late>>
    BY <1>1 DEF getOIDCProvider, Serve
  <2> HIDE DEF h
  <2>3. ProviderCurrent' /\ HandlerOK(h)
    BY <1>0, <2>1, <2>2 DEF ProviderCurrent, Matches, HandlerOK
  <2> QED BY <2>1, <2>2, <2>3, HandlerKeeps DEF Request
<1>2. CASE buildOIDCProvider(r)
  <2> DEFINE h == [req[r] EXCEPT !.at = "build"]
  <2>1. req[r].at = "provider" /\ req[r] \in SignIn
    BY <1>0, <1>2, Shapes DEF buildOIDCProvider
  <2>2. h \in SignIn /\ h.at = "build"
    BY <2>1 DEF SignIn
  <2>3. /\ req' = [req EXCEPT ![r] = h]
        /\ UNCHANGED <<stored, mem, provider, cas, stale, typed, lost, late>>
    BY <1>2 DEF buildOIDCProvider
  <2> HIDE DEF h
  <2>4. ProviderCurrent' /\ HandlerOK(h)
    BY <1>0, <2>2, <2>3 DEF ProviderCurrent, Matches, HandlerOK
  <2> QED BY <2>1, <2>2, <2>3, <2>4, HandlerKeeps DEF Request
<1>3. CASE UseCached(r) \/ BuildFails(r)
  <2>1. /\ req[r].at \in {"provider", "build"} /\ req' = [req EXCEPT ![r] = Idle]
        /\ UNCHANGED <<stored, mem, provider, cas, stale, typed, lost, late>>
    BY <1>3 DEF UseCached, BuildFails
  <2>2. ProviderCurrent'
    BY <1>0, <2>1 DEF ProviderCurrent, Matches
  <2> QED BY <2>1, <2>2, IdleRequest, HandlerKeeps
<1>4. CASE StoreProvider(r)
  <2>1. /\ req[r].at = "build" /\ req' = [req EXCEPT ![r] = Idle]
        /\ provider' = [ident |-> req[r].val.ident, secret |-> req[r].val.secret]
        /\ late' = (req[r].val # mem.oidc)
        /\ UNCHANGED <<stored, mem, cas, stale, typed, lost>>
    BY <1>4 DEF StoreProvider
  <2>2. ProviderCurrent'
    BY <2>1 DEF ProviderCurrent
  <2> QED BY <2>1, <2>2, IdleRequest, HandlerKeeps
<1> QED BY <1>1, <1>2, <1>3, <1>4

LEMMA RestartKeeps ==
  ASSUME CacheInv, NEW read \in BOOLEAN, NEW outcome \in {"loaded", "unopened", "unread"}, Restart(read, outcome)
  PROVE  CacheInv'
<1>0. stored \in StoredRows /\ mem \in Copies /\ cas \in Nat /\ lost \in BOOLEAN /\ SecretKept
  BY CacheParts
<1>1. /\ provider' = None /\ late' = FALSE /\ req' = [r \in Requests |-> Idle]
      /\ stale' = (IF read THEN {} ELSE Items \ {"ca"}) \cup (IF outcome = "unread" THEN {"ca"} ELSE {})
      /\ UNCHANGED <<typed, lost>> /\ ensureCA(outcome)
  BY DEF Restart
<1>2. PICK authority \in 0 .. MaxCAs : loadSettings(read, authority)
  BY DEF Restart
<1>3. authority \in Nat
  BY AppCachesAssumption
<1>4. Loaded \in Copies
  <2>1. ASSUME NEW v \in Values \cup {None} PROVE mergeSettings(v) \in Values
    BY AppCachesAssumption DEF mergeSettings
  <2>2. ASSUME NEW o \in OIDC \cup {None} PROVE mergeOIDCSettings(o) \in OIDC
    <3>1. CASE o = None
      BY <3>1, AppCachesAssumption DEF mergeOIDCSettings
    <3>2. CASE o # None
      BY <3>2, AppCachesAssumption DEF mergeOIDCSettings, OIDC
    <3> QED BY <3>1, <3>2
  <2>3. /\ stored.security \in Values \cup {None} /\ stored.policy \in Values \cup {None}
        /\ stored.oidc \in OIDC \cup {None} /\ stored.ca \in Nat
    BY <1>0 DEF StoredRows
  <2> QED BY <2>1, <2>2, <2>3 DEF Loaded, Copies
<1>5. mem' \in Copies /\ mem'.ca = authority
  BY <1>2, <1>3, <1>4, AppCachesAssumption DEF loadSettings, Copies
<1>6. /\ stored' \in StoredRows /\ cas' \in Nat /\ \A j \in Items \ {"ca"} : stored'[j] = stored[j]
      /\ outcome # "unread" => mem'.ca = stored'.ca
  <2>1. CASE UNCHANGED <<stored, cas>> /\ (outcome # "unread" => mem'.ca = stored.ca)
    BY <1>0, <2>1
  <2>2. CASE cas' = cas + 1 /\ mem'.ca = cas + 1 /\ stored' = [stored EXCEPT !.ca = cas + 1]
    BY <1>0, <2>2 DEF StoredRows, Items
  <2> QED BY <1>1, <2>1, <2>2 DEF ensureCA
<1>7. CacheTyped'
  BY <1>0, <1>1, <1>5, <1>6, IdleRequest DEF CacheTyped, Request
<1>8. \A r \in Requests : HandlerOK(req[r])'
  BY <1>1, IdleRequest DEF HandlerOK
<1>9. CacheCurrent'
  <2> SUFFICES ASSUME NEW j \in Items \ stale' PROVE InForce(j, mem'[j]) = InForce(j, Loaded'[j])
    BY DEF CacheCurrent, InForce
  <2>1. CASE j = "ca"
    <3>1. mem'.ca = stored'.ca
      BY <1>1, <1>6, <2>1
    <3> QED BY <2>1, <3>1 DEF Loaded, InForce
  <2>2. CASE j # "ca"
    <3>1. read
      BY <1>1, <2>2
    <3>2. mem'[j] = Loaded[j]
      BY <1>2, <1>4, <2>2, <3>1 DEF loadSettings, Copies, Items
    <3>3. Loaded'[j] = Loaded[j]
      BY <1>0, <1>6, <2>2, LoadedByItem
    <3> QED BY <3>2, <3>3
  <2> QED BY <2>1, <2>2
<1>10. SecretKept' /\ ProviderCurrent'
  BY <1>0, <1>1, <1>6 DEF SecretKept, StoredSecret, ProviderCurrent, Matches, Items
<1> QED BY <1>7, <1>8, <1>9, <1>10 DEF CacheInv

LEMMA CacheInvariant == CacheSpec => []CacheInv
<1>1. CacheInit => CacheInv
  <2> SUFFICES ASSUME CacheInit PROVE CacheInv
    OBVIOUS
  <2>1. CacheTyped
    BY AppCachesAssumption, IdleRequest DEF CacheInit, CacheTyped, StoredRows, Copies
  <2>2. \A r \in Requests : HandlerOK(req[r])
    BY IdleRequest DEF CacheInit
  <2>3. CacheCurrent
    BY DEF CacheInit, CacheCurrent, Loaded, mergeSettings, mergeOIDCSettings, InForce, Items
  <2>4. SecretKept /\ ProviderCurrent
    BY DEF CacheInit, SecretKept, StoredSecret, ProviderCurrent, Matches
  <2> QED BY <2>1, <2>2, <2>3, <2>4 DEF CacheInv
<1>2. CacheInv /\ [CacheNext]_cacheVars => CacheInv'
  <2> SUFFICES ASSUME CacheInv, [CacheNext]_cacheVars PROVE CacheInv'
    OBVIOUS
  <2>1. CASE UNCHANGED cacheVars
    <3>1. UNCHANGED <<stored, mem, provider, req, cas, stale, typed, lost, late>>
      BY <2>1 DEF cacheVars
    <3>2. StoredSecret' = StoredSecret /\ Loaded' = Loaded
      BY <3>1 DEF StoredSecret, Loaded
    <3>3. CacheTyped' /\ CacheCurrent' /\ SecretKept' /\ ProviderCurrent'
      BY <3>1, <3>2 DEF CacheInv, CacheTyped, CacheCurrent, InForce, SecretKept, ProviderCurrent, Matches
    <3>4. \A r \in Requests : HandlerOK(req[r])'
      BY <3>1, <3>2 DEF CacheInv, HandlerOK, Storable
    <3> QED BY <3>3, <3>4 DEF CacheInv
  <2> QED BY <2>1, PagesKeep, SetKeeps, SignInKeeps, RestartKeeps DEF CacheNext
<1> QED BY <1>1, <1>2, PTL DEF CacheSpec

(***************************************************************************)
(* With no change of a setting under way, what is in force is what a       *)
(* restart would load (setSettings, setPolicySettings, setOIDC, setCA,     *)
(* loadSettings), for every copy that neither crossed changes nor a failed *)
(* load left behind.                                                       *)
(***************************************************************************)
THEOREM CachesStayCurrent == CacheSpec => []CacheCurrent
BY CacheInvariant, PTL DEF CacheInv

(***************************************************************************)
(* The stored client secret is the one last typed                          *)
(* (settingsAuthenticationUpdate): blank fields and restarts keep it,      *)
(* unless a blank save was overtaken or could not read it.                 *)
(***************************************************************************)
THEOREM SecretStaysKept == CacheSpec => []SecretKept
BY CacheInvariant, PTL DEF CacheInv

(***************************************************************************)
(* A sign-in that takes the cached provider (getOIDCProvider) uses the     *)
(* client secret in force, unless a slower sign-in stored the provider it  *)
(* had built from older settings.                                          *)
(***************************************************************************)
THEOREM ProviderStaysCurrent == CacheSpec => []ProviderCurrent
BY CacheInvariant, PTL DEF CacheInv

-----------------------------------------------------------------------------
(* Webhooks                                                                *)

EditorState == [at : {"idle", "read", "audit", "count", "store"}, wrote : SUBSET Hooks, n : Nat, crossed : BOOLEAN]
Target      == [to : Hooks, ver : Nat, subs : Subscriptions]
Delivery    == [at : {"none", "list", "skipped", "dropped", "send", "lost"},
                subject : Subjects \cup {"none", "security", "test"}, left : Nat, todo : SUBSET Target,
                starved : BOOLEAN, when : Nat, owed : SUBSET Target]

\* An editor that is going to count: not one that will find its row removed by another.
Covers(r) ==
  \/ editor[r].at \in {"audit", "count", "store"}
  \/ editor[r].at = "read" /\ \A w \in editor[r].wrote : hook[w].row = "live"
GateCovered == staleGate \/ (gate > 0 <=> Enabled # {}) \/ \E r \in Editors : Covers(r)

\* What an editor has counted is still so, unless a write has crossed it; a gate that is
\* behind is known to be, or will be counted.
GateInv ==
  /\ hook \in [Hooks -> Webhook] /\ edits \in 0 .. MaxEdits /\ \A w \in Hooks : hook[w].ver <= edits
  /\ gate \in Nat /\ staleGate \in BOOLEAN /\ editor \in [Editors -> EditorState]
  /\ \A r \in Editors : editor[r].at = "store" /\ ~ editor[r].crossed => (editor[r].n > 0 <=> Enabled # {})
  /\ GateCovered

\* Versions only grow, so that a webhook with the version an event was due to is as it
\* was then: on, and subscribed.
DueStill(x) ==
  \A s \in x.owed :
    /\ s.ver <= hook[s.to].ver
    /\ x.at = "list" /\ hook[s.to].ver = s.ver =>
         s.to \in Enabled /\ hook[s.to].subs = s.subs /\ matches(s.subs, x.subject)

\* An event that is yet to be listed is due to every enabled subscriber not edited since.
DueAll(x) ==
  x.at = "list" =>
    \A w \in Enabled : hook[w].ver <= x.when /\ matches(hook[w].subs, x.subject) =>
      \E s \in x.owed : s.to = w /\ s.ver = hook[w].ver

\* What is left to send, and what has been sent, is newer than the event or due to it.
Current(x, to, ver) == ver > x.when \/ \E s \in x.owed : s.to = to /\ s.ver = ver

Reached(e, s) == [event |-> e, to |-> s.to, ver |-> s.ver] \in sent

EventOK(e) ==
  /\ e > audited => event[e].at = "none"
  /\ event[e].when <= edits
  /\ DueStill(event[e]) /\ DueAll(event[e])
  /\ event[e].at = "skipped" /\ e \notin missed => event[e].owed = {}
  /\ event[e].at = "send" =>
       /\ ~ event[e].starved =>
            \A s \in event[e].owed : Reached(e, s) \/ hook[s.to].ver # s.ver \/ s \in event[e].todo
       /\ \A s \in event[e].todo : Current(event[e], s.to, s.ver)

EventInv ==
  /\ event \in [Events -> Delivery] /\ audited \in 0 .. MaxEvents
  /\ \A e \in Events : EventOK(e)
  /\ \A p \in sent : p.event \in Events /\ p.event <= audited /\ Current(event[p.event], p.to, p.ver)

HookInv == GateInv /\ EventInv


LEMMA CountPositive == CountEnabledWebhooks \in Nat /\ (CountEnabledWebhooks > 0 <=> Enabled # {})
<1>1. Enabled \in SUBSET Hooks
  BY DEF Enabled
<1>2. IsFiniteSet(Enabled)
  BY <1>1, WebhooksAssumption, FS_Subset
<1>3. Cardinality(Enabled) \in Nat /\ (Cardinality(Enabled) = 0 <=> Enabled = {})
  BY <1>2, FS_CardinalityType, FS_EmptySet
<1> QED BY <1>3 DEF CountEnabledWebhooks

LEMMA CoveredIsCurrent == GateCovered => GateCurrent
BY DEF GateCovered, GateCurrent, Covers, Editing

\* One editor moves on: it is still going to count, has counted what is there, was not
\* going to, or leaves a gate known to be behind.
LEMMA EditorStep ==
  ASSUME GateInv, NEW r \in Editors, NEW x \in EditorState, editor' = [editor EXCEPT ![r] = x],
         UNCHANGED <<hook, edits>>, gate' \in Nat, staleGate' \in BOOLEAN,
         x.at = "store" /\ ~ x.crossed => (x.n > 0 <=> Enabled # {}),
         \/ x.at \in {"audit", "count", "store"}
         \/ ~ Covers(r) /\ UNCHANGED <<gate, staleGate>>
         \/ staleGate'
         \/ gate' > 0 <=> Enabled # {}
  PROVE  GateInv'
<1>0. editor \in [Editors -> EditorState] /\ GateCovered
  BY DEF GateInv
<1>1. editor' \in [Editors -> EditorState] /\ editor'[r] = x /\ \A q \in Editors \ {r} : editor'[q] = editor[q]
  BY <1>0
<1>2. Enabled' = Enabled
  BY DEF Enabled
<1>3. \A q \in Editors : editor'[q].at = "store" /\ ~ editor'[q].crossed => (editor'[q].n > 0 <=> Enabled' # {})
  BY <1>1, <1>2 DEF GateInv
<1>4. \A q \in Editors \ {r} : Covers(q) => Covers(q)'
  BY <1>1 DEF Covers
<1>5. x.at \in {"audit", "count", "store"} => Covers(r)'
  BY <1>1 DEF Covers
<1>6. GateCovered'
  BY <1>0, <1>2, <1>4, <1>5 DEF GateCovered
<1> QED BY <1>1, <1>3, <1>6 DEF GateInv

LEMMA EditorsKeepGate ==
  ASSUME GateInv, NEW r \in Editors,
         \/ GetWebhook(r) \/ GetWebhookFails(r) \/ AuditEdit(r) \/ AuditEditFails(r)
         \/ RefreshCount(r) \/ RefreshStore(r) \/ RefreshFails(r)
  PROVE  GateInv'
<1>0. editor[r] \in EditorState /\ gate \in Nat /\ staleGate \in BOOLEAN
  BY DEF GateInv
<1>1. CASE AuditEdit(r) \/ AuditEditFails(r)
  <2> DEFINE x == [editor[r] EXCEPT !.at = "count"]
  <2>1. x \in EditorState /\ x.at = "count"
    BY <1>0 DEF EditorState
  <2>2. editor' = [editor EXCEPT ![r] = x] /\ UNCHANGED <<hook, edits, gate, staleGate>>
    BY <1>1 DEF AuditEdit, AuditEditFails
  <2> HIDE DEF x
  <2> QED BY <1>0, <2>1, <2>2, EditorStep
<1>2. CASE RefreshCount(r)
  <2> DEFINE x == [editor[r] EXCEPT !.at = "store", !.n = CountEnabledWebhooks]
  <2>1. x \in EditorState /\ x.at = "store" /\ x.n = CountEnabledWebhooks
    BY <1>0, CountPositive DEF EditorState
  <2>2. editor' = [editor EXCEPT ![r] = x] /\ UNCHANGED <<hook, edits, gate, staleGate>>
    BY <1>2 DEF RefreshCount
  <2> HIDE DEF x
  <2> QED BY <1>0, <2>1, <2>2, CountPositive, EditorStep
<1>3. Resting \in EditorState /\ Resting.at = "idle"
  BY DEF Resting, EditorState
<1>4. CASE RefreshStore(r)
  <2>1. /\ editor[r].at = "store" /\ gate' = editor[r].n /\ staleGate' = editor[r].crossed
        /\ editor' = [editor EXCEPT ![r] = Resting] /\ UNCHANGED <<hook, edits>>
    BY <1>4 DEF RefreshStore
  <2>2. gate' \in Nat /\ staleGate' \in BOOLEAN
    BY <1>0, <2>1 DEF EditorState
  <2>3. staleGate' \/ (gate' > 0 <=> Enabled # {})
    BY <2>1 DEF GateInv
  <2> QED BY <1>3, <2>1, <2>2, <2>3, EditorStep
<1>5. CASE RefreshFails(r) \/ GetWebhookFails(r)
  BY <1>0, <1>3, <1>5, EditorStep DEF RefreshFails, GetWebhookFails
<1>6. CASE GetWebhook(r)
  <2>1. PICK w \in editor[r].wrote :
          /\ editor[r].at = "read"
          /\ editor' = [editor EXCEPT ![r] = IF hook[w].row = "live" THEN [Resting EXCEPT !.at = "audit"] ELSE Resting]
          /\ UNCHANGED <<hook, edits, gate, staleGate>>
    BY <1>6 DEF GetWebhook
  <2>2. CASE hook[w].row = "live"
    <3> DEFINE x == [Resting EXCEPT !.at = "audit"]
    <3>1. x \in EditorState /\ x.at = "audit"
      BY DEF Resting, EditorState
    <3>2. editor' = [editor EXCEPT ![r] = x]
      BY <2>1, <2>2
    <3> HIDE DEF x
    <3> QED BY <1>0, <2>1, <3>1, <3>2, EditorStep
  <2>3. CASE hook[w].row # "live"
    <3>1. ~ Covers(r)
      BY <2>1, <2>3 DEF Covers
    <3> QED BY <1>0, <1>3, <2>1, <2>3, <3>1, EditorStep
  <2> QED BY <2>2, <2>3
<1> QED BY <1>1, <1>2, <1>4, <1>5, <1>6

\* A write is an edit under way, and crosses every count that is not stored yet.
LEMMA WrittenKeepsGate ==
  ASSUME GateInv, NEW r \in Editors, NEW w \in Hooks, NEW row \in Webhook, row.ver = edits + 1, Written(r, w, row)
  PROVE  GateInv'
<1> DEFINE x == AfterWrite(w, row)
           crossed(q) == [editor[q] EXCEPT !.crossed = (@ \/ editor[q].at = "store")]
<1>0. /\ hook \in [Hooks -> Webhook] /\ edits \in 0 .. MaxEdits /\ gate \in Nat /\ staleGate \in BOOLEAN
      /\ \A q \in Editors : editor[q] \in EditorState
      /\ \A v \in Hooks : hook[v].ver <= edits /\ hook[v].ver \in Nat
  BY WebhooksAssumption DEF GateInv, Webhook
<1>1. x \in EditorState /\ (x.at = "audit" \/ (x.at = "read" /\ x.wrote = {w} /\ row.row = "live"))
  <2>1. CASE row.row = "live"
    <3>1. x = [at |-> "read", wrote |-> {w}, n |-> 0, crossed |-> FALSE]
      BY <2>1 DEF AfterWrite, Resting
    <3> HIDE DEF x
    <3>2. {w} \in SUBSET Hooks
      OBVIOUS
    <3> QED BY <2>1, <3>1, <3>2 DEF EditorState
  <2>2. CASE row.row # "live"
    <3> DEFINE y == [Resting EXCEPT !.at = "audit"]
    <3>1. y \in EditorState /\ y.at = "audit"
      BY DEF Resting, EditorState
    <3>2. x = y
      BY <2>2 DEF AfterWrite
    <3> HIDE DEF x, y
    <3> QED BY <3>1, <3>2
  <2> QED BY <2>1, <2>2
<1>2. ASSUME NEW q \in Editors
      PROVE  crossed(q) \in EditorState /\ ~(crossed(q).at = "store" /\ ~ crossed(q).crossed)
  <2>1. editor[q] \in EditorState
    BY <1>0
  <2>2. CASE editor[q].at = "store"
    <3>1. crossed(q) = [editor[q] EXCEPT !.crossed = TRUE]
      BY <2>1, <2>2 DEF EditorState
    <3> QED BY <2>1, <3>1 DEF EditorState
  <2>3. CASE editor[q].at # "store"
    BY <2>1, <2>3 DEF EditorState
  <2> QED BY <2>2, <2>3
<1>3. /\ edits < MaxEdits /\ edits' = edits + 1 /\ hook' = [hook EXCEPT ![w] = row]
      /\ editor' = [q \in Editors |-> IF q = r THEN x ELSE crossed(q)] /\ UNCHANGED <<gate, staleGate>>
  BY DEF Written
<1> HIDE DEF x, crossed
<1>4. /\ hook' \in [Hooks -> Webhook] /\ edits' \in 0 .. MaxEdits
      /\ \A v \in Hooks : hook'[v].ver <= edits'
  BY <1>0, <1>3, WebhooksAssumption
<1>5. /\ editor' \in [Editors -> EditorState] /\ editor'[r] = x
      /\ \A q \in Editors : ~(editor'[q].at = "store" /\ ~ editor'[q].crossed)
  BY <1>1, <1>2, <1>3
<1>6. Covers(r)'
  BY <1>0, <1>1, <1>3, <1>5 DEF Covers
<1> QED BY <1>0, <1>3, <1>4, <1>5, <1>6 DEF GateInv, GateCovered

LEMMA RestartKeepsGate ==
  ASSUME GateInv, HookRestart
  PROVE  GateInv'
<1>1. editor' = [r \in Editors |-> Resting] /\ UNCHANGED <<hook, edits>>
  BY DEF HookRestart
<1>2. Enabled' = Enabled
  BY <1>1 DEF Enabled
<1>3. Resting \in EditorState /\ Resting.at = "idle"
  BY DEF Resting, EditorState
<1>4. CASE gate' = CountEnabledWebhooks /\ staleGate' = FALSE
  BY <1>1, <1>2, <1>3, <1>4, CountPositive DEF GateInv, GateCovered
<1>5. CASE gate' = 0 /\ staleGate' = TRUE
  BY <1>1, <1>2, <1>3, <1>5 DEF GateInv, GateCovered
<1> QED BY <1>4, <1>5 DEF HookRestart

LEMMA GateFrame ==
  ASSUME GateInv, UNCHANGED <<hook, edits, gate, staleGate, editor>>
  PROVE  GateInv'
<1>1. Enabled' = Enabled
  BY DEF Enabled
<1>2. GateCovered'
  BY <1>1 DEF GateInv, GateCovered, Covers
<1> QED BY <1>1, <1>2 DEF GateInv

LEMMA EventParts ==
  ASSUME HookInv
  PROVE  /\ hook \in [Hooks -> Webhook] /\ edits \in Nat /\ \A w \in Hooks : hook[w].ver <= edits /\ hook[w].ver \in Nat
         /\ event \in [Events -> Delivery] /\ audited \in 0 .. MaxEvents /\ audited \in Nat
         /\ \A e \in Events : e \in Nat /\ event[e] \in Delivery /\ EventOK(e)
         /\ \A p \in sent : p.event \in Events /\ p.event <= audited /\ Current(event[p.event], p.to, p.ver)
BY WebhooksAssumption DEF HookInv, GateInv, EventInv, Webhook, Events

\* What an event owes, while the webhooks do not change.
LEMMA DueFrame ==
  ASSUME UNCHANGED hook
  PROVE  \A x : (DueStill(x) <=> DueStill(x)') /\ (DueAll(x) <=> DueAll(x)')
BY DEF DueStill, DueAll, Enabled

\* One event moves on, or is a new one; the webhooks stay as they are.
LEMMA EventStep ==
  ASSUME HookInv, NEW e \in Events, NEW x \in Delivery, event' = [event EXCEPT ![e] = x],
         UNCHANGED <<hook, edits>>, sent \subseteq sent', missed \subseteq missed',
         audited' \in 0 .. MaxEvents, audited <= audited', e <= audited',
         x.when <= edits, DueStill(x), DueAll(x),
         x.at = "skipped" /\ e \notin missed' => x.owed = {},
         x.at = "send" /\ ~ x.starved =>
           \A s \in x.owed : Reached(e, s)' \/ hook[s.to].ver # s.ver \/ s \in x.todo,
         x.at = "send" => \A s \in x.todo : Current(x, s.to, s.ver),
         \A p \in sent' : (p \in sent /\ p.event # e) \/ (p.event = e /\ Current(x, p.to, p.ver))
  PROVE  EventInv'
<1>0. /\ hook \in [Hooks -> Webhook] /\ edits \in Nat
      /\ event \in [Events -> Delivery] /\ audited \in Nat
      /\ \A q \in Events : q \in Nat /\ event[q] \in Delivery /\ EventOK(q)
      /\ \A p \in sent : p.event \in Events /\ p.event <= audited /\ Current(event[p.event], p.to, p.ver)
  BY EventParts
<1>1. event' \in [Events -> Delivery] /\ event'[e] = x /\ \A q \in Events \ {e} : event'[q] = event[q]
  BY <1>0
<1>2. audited' \in Nat
  BY WebhooksAssumption
<1>3. EventOK(e)'
  BY <1>0, <1>1, <1>2, DueFrame DEF EventOK, Current
<1>4. ASSUME NEW q \in Events \ {e} PROVE EventOK(q)'
  <2>1. EventOK(q) /\ event'[q] = event[q] /\ q \in Nat
    BY <1>0, <1>1
  <2>2. DueStill(event[q])' /\ DueAll(event[q])'
    BY <2>1, DueFrame DEF EventOK
  <2>3. \A s : Reached(q, s) => Reached(q, s)'
    BY DEF Reached
  <2> QED BY <1>0, <1>2, <2>1, <2>2, <2>3 DEF EventOK, Current
<1>5. ASSUME NEW p \in sent' PROVE p.event \in Events /\ p.event <= audited' /\ Current(event[p.event], p.to, p.ver)'
  <2>1. CASE p \in sent /\ p.event # e
    <3>1. p.event \in Events /\ p.event <= audited /\ Current(event[p.event], p.to, p.ver) /\ p.event \in Nat
      BY <1>0, <2>1
    <3>2. event'[p.event] = event[p.event]
      BY <1>1, <2>1, <3>1
    <3> QED BY <1>0, <1>2, <3>1, <3>2 DEF Current
  <2>2. CASE p.event = e /\ Current(x, p.to, p.ver)
    BY <1>1, <2>2 DEF Current
  <2> QED BY <2>1, <2>2
<1> QED BY <1>1, <1>3, <1>4, <1>5 DEF EventInv

\* The audit hook: behind a gate that is not behind, an event that is skipped is due
\* to nobody.
LEMMA AuditKeeps ==
  ASSUME HookInv, NEW subject \in Subjects \cup {"security"}, AuditHook(subject), UNCHANGED <<hook, edits, sent>>
  PROVE  EventInv'
<1> DEFINE e == audited + 1
           owed == {s \in ListEnabledWebhooks : matches(s.subs, subject)}
           at == IF gate > 0 THEN "list" ELSE "skipped"
           x == [NoEvent EXCEPT !.at = at, !.subject = subject, !.left = Budget, !.owed = owed, !.when = edits]
<1>0. /\ hook \in [Hooks -> Webhook] /\ edits \in Nat /\ \A w \in Hooks : hook[w].ver <= edits /\ hook[w].ver \in Nat
      /\ audited \in 0 .. MaxEvents /\ audited \in Nat
      /\ \A p \in sent : p.event \in Events /\ p.event <= audited
  BY EventParts
<1>1. /\ audited < MaxEvents /\ audited' = e /\ event' = [event EXCEPT ![e] = x]
      /\ missed' = IF gate = 0 /\ (Editing \/ staleGate) THEN missed \cup {e} ELSE missed
  BY DEF AuditHook
<1>2. e \in Events /\ e \in 0 .. MaxEvents
  BY <1>0, <1>1, WebhooksAssumption DEF Events
<1>3. /\ \A s \in owed : /\ s.to \in Enabled /\ s.to \in Hooks /\ s.ver = hook[s.to].ver /\ s.subs = hook[s.to].subs
                         /\ s \in Target /\ matches(s.subs, subject)
      /\ \A w \in Enabled : matches(hook[w].subs, subject) => \E s \in owed : s.to = w /\ s.ver = hook[w].ver
      /\ Enabled = {} => owed = {}
  <2>1. ASSUME NEW w \in Enabled
        PROVE  LET s == [to |-> w, ver |-> hook[w].ver, subs |-> hook[w].subs] IN
               s \in Target /\ s.to = w /\ s.ver = hook[w].ver /\ s.subs = hook[w].subs
    BY <1>0 DEF Enabled, Target, Webhook
  <2>2. owed = {s \in {[to |-> w, ver |-> hook[w].ver, subs |-> hook[w].subs] : w \in Enabled} : matches(s.subs, subject)}
    BY DEF ListEnabledWebhooks, Listed
  <2>3. Enabled \subseteq Hooks
    BY DEF Enabled
  <2> HIDE DEF owed
  <2>4. ASSUME NEW s \in owed
        PROVE  /\ s.to \in Enabled /\ s.to \in Hooks /\ s.ver = hook[s.to].ver /\ s.subs = hook[s.to].subs
               /\ s \in Target /\ matches(s.subs, subject)
    <3>1. PICK w \in Enabled : s = [to |-> w, ver |-> hook[w].ver, subs |-> hook[w].subs] /\ matches(s.subs, subject)
      BY <2>2
    <3>2. s \in Target /\ s.to = w /\ s.ver = hook[w].ver /\ s.subs = hook[w].subs
      BY <2>1, <3>1
    <3> QED BY <2>3, <3>1, <3>2
  <2>5. ASSUME NEW w \in Enabled, matches(hook[w].subs, subject) PROVE \E s \in owed : s.to = w /\ s.ver = hook[w].ver
    <3> DEFINE s == [to |-> w, ver |-> hook[w].ver, subs |-> hook[w].subs]
    <3>1. s.to = w /\ s.ver = hook[w].ver /\ s.subs = hook[w].subs
      OBVIOUS
    <3>2. s \in owed
      BY <2>2, <2>5, <3>1
    <3> HIDE DEF s
    <3> QED BY <3>1, <3>2
  <2> QED BY <2>2, <2>4, <2>5
<1>4. at \in {"list", "skipped"} /\ (at = "skipped" => ~(gate > 0))
  OBVIOUS
<1> HIDE DEF owed, at
<1>5. /\ x \in Delivery /\ x.at = at /\ x.subject = subject /\ x.owed = owed /\ x.when = edits /\ x.todo = {}
  BY <1>0, <1>3, <1>4, WebhooksAssumption DEF NoEvent, Delivery
<1> HIDE DEF x
<1>6. DueStill(x) /\ DueAll(x) /\ x.when <= edits
  BY <1>0, <1>3, <1>5 DEF DueStill, DueAll
<1>7. x.at = "skipped" /\ e \notin missed' => x.owed = {}
  <2> SUFFICES ASSUME at = "skipped", e \notin missed' PROVE owed = {}
    BY <1>5
  <2>1. ~(gate > 0) /\ gate = 0
    BY <1>4 DEF HookInv, GateInv
  <2>2. ~ Editing /\ ~ staleGate
    BY <1>1, <2>1
  <2>3. Enabled = {}
    BY <2>1, <2>2, CoveredIsCurrent DEF HookInv, GateInv, GateCurrent
  <2> QED BY <1>3, <2>3
<1>8. \A p \in sent' : p \in sent /\ p.event # e
  BY <1>0
<1>9. x.at # "send" /\ missed \subseteq missed' /\ audited <= audited' /\ e <= audited'
  BY <1>0, <1>1, <1>4, <1>5
<1> HIDE DEF e
<1> QED BY <1>1, <1>2, <1>5, <1>6, <1>7, <1>8, <1>9, EventStep

LEMMA TestKeeps ==
  ASSUME HookInv, TestDeliver
  PROVE  EventInv'
<1>0. /\ hook \in [Hooks -> Webhook] /\ edits \in Nat /\ \A w \in Hooks : hook[w].ver <= edits /\ hook[w].ver \in Nat
      /\ audited \in 0 .. MaxEvents /\ audited \in Nat
      /\ \A p \in sent : p.event \in Events /\ p.event <= audited
  BY EventParts
<1>1. PICK w \in Hooks :
        LET s == [to |-> w, ver |-> hook[w].ver, subs |-> hook[w].subs] IN
        /\ audited < MaxEvents /\ audited' = audited + 1
        /\ event' = [event EXCEPT ![audited + 1] = [NoEvent EXCEPT !.at = "send", !.subject = "test", !.left = Budget + 1,
                                                     !.todo = {s}, !.owed = {s}, !.when = edits]]
        /\ UNCHANGED <<hook, edits, sent, missed>>
  BY DEF TestDeliver
<1> DEFINE e == audited + 1
           s == [to |-> w, ver |-> hook[w].ver, subs |-> hook[w].subs]
           only == {s}
           time == Budget + 1
           x == [NoEvent EXCEPT !.at = "send", !.subject = "test", !.left = time,
                                !.todo = only, !.owed = only, !.when = edits]
<1>2. e \in Events /\ e \in 0 .. MaxEvents
  BY <1>0, <1>1, WebhooksAssumption DEF Events
<1>3. s \in Target /\ s.to = w /\ s.ver = hook[w].ver
  BY <1>0 DEF Target, Webhook
<1>4. audited' = e /\ event' = [event EXCEPT ![e] = x] /\ UNCHANGED <<hook, edits, sent, missed>>
  BY <1>1
<1> HIDE DEF s
<1>5. only \in SUBSET Target /\ \A z \in only : z.to = w /\ z.ver = hook[w].ver
  BY <1>3
<1>t. time \in Nat
  BY WebhooksAssumption
<1> HIDE DEF only, time
<1>6. x \in Delivery /\ x.at = "send" /\ x.owed = only /\ x.todo = only /\ x.when = edits
  BY <1>0, <1>5, <1>t DEF NoEvent, Delivery
<1> HIDE DEF x
<1>7. DueStill(x) /\ DueAll(x) /\ x.when <= edits /\ \A z \in x.todo : Current(x, z.to, z.ver)
  BY <1>0, <1>5, <1>6 DEF DueStill, DueAll, Current
<1>8. \A p \in sent' : p \in sent /\ p.event # e
  BY <1>0, <1>4
<1>9. audited <= audited' /\ e <= audited' /\ sent \subseteq sent' /\ missed \subseteq missed'
  BY <1>0, <1>4
<1> HIDE DEF e
<1> QED BY <1>2, <1>4, <1>6, <1>7, <1>8, <1>9, EventStep

LEMMA GoroutineKeeps ==
  ASSUME HookInv, NEW e \in Events, Goroutine(e)
  PROVE  EventInv'
<1>0. /\ hook \in [Hooks -> Webhook] /\ edits \in Nat /\ \A w \in Hooks : hook[w].ver <= edits /\ hook[w].ver \in Nat
      /\ event \in [Events -> Delivery] /\ event[e] \in Delivery /\ EventOK(e) /\ e \in Nat
      /\ audited \in 0 .. MaxEvents /\ audited \in Nat
      /\ \A p \in sent : p.event \in Events /\ p.event <= audited /\ Current(event[p.event], p.to, p.ver)
  BY EventParts
<1>1. ASSUME event[e].at # "none" PROVE e <= audited
  BY <1>0, <1>1 DEF EventOK
\* A step of the goroutine after the list keeps what the event is due to.
<1>2. ASSUME NEW x \in Delivery, event' = [event EXCEPT ![e] = x], UNCHANGED <<hook, edits, audited, missed>>,
             event[e].at \in {"list", "send"}, x.at = "send", x.owed = event[e].owed, x.when = event[e].when,
             sent \subseteq sent', \A p \in sent' : p \in sent \/ (p.event = e /\ Current(x, p.to, p.ver)),
             ~ x.starved => \A s \in x.owed : Reached(e, s)' \/ hook[s.to].ver # s.ver \/ s \in x.todo,
             \A s \in x.todo : Current(x, s.to, s.ver)
      PROVE  EventInv'
  <2>1. DueStill(x) /\ DueAll(x) /\ x.when <= edits /\ e <= audited
    BY <1>0, <1>1, <1>2 DEF EventOK, DueStill, DueAll
  <2>2. \A p \in sent' : (p \in sent /\ p.event # e) \/ (p.event = e /\ Current(x, p.to, p.ver))
    BY <1>0, <1>2 DEF Current
  <2>3. audited' \in 0 .. MaxEvents /\ audited <= audited' /\ e <= audited' /\ missed \subseteq missed'
    BY <1>0, <1>2, <2>1
  <2> QED BY <1>2, <2>1, <2>2, <2>3, EventStep
<1>3. CASE deliver(e)
  <2> DEFINE to == Recipients(e)
             x == [event[e] EXCEPT !.at = "send", !.todo = to]
  <2>1. event[e].at = "list" /\ event' = [event EXCEPT ![e] = x] /\ UNCHANGED <<hook, edits, audited, missed, sent>>
    BY <1>3 DEF deliver
  <2>2. /\ to \in SUBSET Target
        /\ \A s \in to : s.to \in Enabled /\ s.ver = hook[s.to].ver /\ matches(hook[s.to].subs, event[e].subject)
        /\ \A s \in Target : s.to \in Enabled /\ hook[s.to].ver = s.ver /\ hook[s.to].subs = s.subs
                             /\ matches(s.subs, event[e].subject) => s \in to
    <3>1. ASSUME NEW w \in Enabled
          PROVE  LET s == [to |-> w, ver |-> hook[w].ver, subs |-> hook[w].subs] IN
                 s \in Target /\ s.to = w /\ s.ver = hook[w].ver /\ s.subs = hook[w].subs
      BY <1>0 DEF Enabled, Target, Webhook
    <3>2. to = {s \in {[to |-> w, ver |-> hook[w].ver, subs |-> hook[w].subs] : w \in Enabled} :
                  matches(s.subs, event[e].subject)}
      BY DEF Recipients, ListEnabledWebhooks, Listed
    <3> HIDE DEF to
    <3>3. ASSUME NEW s \in to
          PROVE  /\ s \in Target /\ s.to \in Enabled /\ s.ver = hook[s.to].ver
                 /\ matches(hook[s.to].subs, event[e].subject)
      <4>1. PICK w \in Enabled : /\ s = [to |-> w, ver |-> hook[w].ver, subs |-> hook[w].subs]
                                 /\ matches(s.subs, event[e].subject)
        BY <3>2
      <4>2. s \in Target /\ s.to = w /\ s.ver = hook[w].ver /\ s.subs = hook[w].subs
        BY <3>1, <4>1
      <4> QED BY <4>1, <4>2
    <3>4. ASSUME NEW s \in Target, s.to \in Enabled, hook[s.to].ver = s.ver, hook[s.to].subs = s.subs,
                 matches(s.subs, event[e].subject)
          PROVE  s \in to
      <4>1. s = [to |-> s.to, ver |-> hook[s.to].ver, subs |-> hook[s.to].subs]
        BY <3>4 DEF Target
      <4> QED BY <3>2, <3>4, <4>1
    <3> QED BY <3>3, <3>4
  <2> HIDE DEF to
  <2>3. x \in Delivery /\ x.at = "send" /\ x.owed = event[e].owed /\ x.when = event[e].when /\ x.todo = to
    BY <1>0, <2>2 DEF Delivery
  <2> HIDE DEF x
  <2>4. \A s \in x.owed : hook[s.to].ver # s.ver \/ s \in x.todo
    <3> SUFFICES ASSUME NEW s \in event[e].owed, hook[s.to].ver = s.ver PROVE s \in to
      BY <2>3
    <3>1. s \in Target
      BY <1>0 DEF Delivery
    <3>2. s.to \in Enabled /\ hook[s.to].subs = s.subs /\ matches(s.subs, event[e].subject)
      BY <1>0, <2>1 DEF EventOK, DueStill
    <3> QED BY <2>2, <3>1, <3>2
  <2>5. \A s \in x.todo : Current(x, s.to, s.ver)
    <3> SUFFICES ASSUME NEW s \in to PROVE Current(x, s.to, s.ver)
      BY <2>3
    <3>1. s.to \in Enabled /\ s.ver = hook[s.to].ver /\ matches(hook[s.to].subs, event[e].subject)
      BY <2>2
    <3>2. s.to \in Hooks /\ s.ver \in Nat /\ event[e].when \in Nat
      BY <1>0, <3>1 DEF Enabled, Delivery
    <3>3. CASE s.ver > event[e].when
      BY <2>3, <3>3 DEF Current
    <3>4. CASE ~(s.ver > event[e].when)
      <4>1. \E z \in event[e].owed : z.to = s.to /\ z.ver = s.ver
        BY <1>0, <2>1, <3>1, <3>2, <3>4 DEF EventOK, DueAll
      <4> QED BY <2>3, <4>1 DEF Current
    <3> QED BY <3>3, <3>4
  <2> QED BY <1>2, <2>1, <2>3, <2>4, <2>5
<1>4. CASE send(e)
  <2>1. PICK s \in event[e].todo, slow \in BOOLEAN :
          /\ event[e].at = "send" /\ event[e].left > 0
          /\ sent' = sent \cup {[event |-> e, to |-> s.to, ver |-> s.ver]}
          /\ event' = [event EXCEPT ![e].todo = @ \ {s}, ![e].left = IF slow THEN @ - 1 ELSE @]
          /\ UNCHANGED <<hook, gate, editor, audited, edits, crashes, staleGate, missed>>
    BY <1>4 DEF send
  <2> DEFINE left == IF slow THEN event[e].left - 1 ELSE event[e].left
             todo == event[e].todo \ {s}
             x == [event[e] EXCEPT !.todo = todo, !.left = left]
             post == [event |-> e, to |-> s.to, ver |-> s.ver]
  <2>2. event[e].left \in Nat /\ event[e].todo \in SUBSET Target /\ left \in Nat
    BY <1>0, <2>1 DEF Delivery
  <2>3. event' = [event EXCEPT ![e] = x] /\ sent' = sent \cup {post} /\ UNCHANGED <<hook, edits, audited, missed>>
    BY <2>1
  <2>4. post.event = e /\ post.to = s.to /\ post.ver = s.ver /\ todo \in SUBSET Target
    BY <2>2
  <2>5. \A z \in event[e].todo : z \in todo \/ z = s
    OBVIOUS
  <2>r. Reached(e, s)'
    BY <2>3 DEF Reached
  <2>t. todo \subseteq event[e].todo
    OBVIOUS
  <2> HIDE DEF left, todo, post
  <2>6. /\ x \in Delivery /\ x.at = "send" /\ x.owed = event[e].owed /\ x.when = event[e].when /\ x.todo = todo
        /\ x.starved = event[e].starved
    BY <1>0, <2>1, <2>2, <2>4 DEF Delivery
  <2> HIDE DEF x
  <2>7. \A z : Current(x, z.to, z.ver) <=> Current(event[e], z.to, z.ver)
    BY <2>6 DEF Current
  <2>8. \A z \in event[e].todo : Current(event[e], z.to, z.ver)
    BY <1>0, <2>1 DEF EventOK
  <2>9. \A p \in sent' : p \in sent \/ (p.event = e /\ Current(x, p.to, p.ver))
    BY <2>1, <2>3, <2>4, <2>7, <2>8
  <2>10. ASSUME ~ x.starved, NEW z \in x.owed PROVE Reached(e, z)' \/ hook[z.to].ver # z.ver \/ z \in x.todo
    <3>1. Reached(e, z) \/ hook[z.to].ver # z.ver \/ z \in event[e].todo
      BY <1>0, <2>1, <2>6, <2>10 DEF EventOK
    <3>2. Reached(e, z) => Reached(e, z)'
      BY <2>3 DEF Reached
    <3> QED BY <2>5, <2>6, <2>r, <3>1, <3>2
  <2>11. \A z \in x.todo : Current(x, z.to, z.ver)
    BY <2>6, <2>7, <2>8, <2>t
  <2>12. sent \subseteq sent' /\ event[e].at \in {"list", "send"}
    BY <2>1, <2>3
  <2> QED BY <1>2, <2>3, <2>6, <2>9, <2>10, <2>11, <2>12
<1>5. CASE sendExpired(e)
  <2> DEFINE x == [event[e] EXCEPT !.todo = {}, !.starved = TRUE]
  <2>1. event[e].at = "send" /\ event' = [event EXCEPT ![e] = x] /\ UNCHANGED <<hook, edits, audited, missed, sent>>
    BY <1>5 DEF sendExpired
  <2>2. /\ x \in Delivery /\ x.at = "send" /\ x.owed = event[e].owed /\ x.when = event[e].when /\ x.todo = {}
        /\ x.starved
    BY <1>0, <2>1 DEF Delivery
  <2> HIDE DEF x
  <2> QED BY <1>2, <2>1, <2>2
<1>6. CASE deliverFails(e)
  <2> DEFINE x == [event[e] EXCEPT !.at = "dropped"]
  <2>1. event[e].at = "list" /\ event' = [event EXCEPT ![e] = x] /\ UNCHANGED <<hook, edits, audited, missed, sent>>
    BY <1>6 DEF deliverFails
  <2>2. x \in Delivery /\ x.at = "dropped" /\ x.owed = event[e].owed /\ x.when = event[e].when
    BY <1>0 DEF Delivery
  <2> HIDE DEF x
  <2>3. DueStill(x) /\ DueAll(x) /\ x.when <= edits /\ e <= audited
    BY <1>0, <1>1, <2>1, <2>2 DEF EventOK, DueStill, DueAll
  <2>4. \A p \in sent' : (p \in sent /\ p.event # e) \/ (p.event = e /\ Current(x, p.to, p.ver))
    BY <1>0, <2>1, <2>2 DEF Current
  <2>5. audited' \in 0 .. MaxEvents /\ audited <= audited' /\ e <= audited' /\ missed \subseteq missed'
    BY <1>0, <2>1, <2>3
  <2> QED BY <2>1, <2>2, <2>3, <2>4, <2>5, EventStep
<1> QED BY <1>3, <1>4, <1>5, <1>6 DEF Goroutine

\* A write gives the webhook a version that no event was due to.
LEMMA WrittenKeepsEvents ==
  ASSUME HookInv, NEW r \in Editors, NEW w \in Hooks, NEW row \in Webhook, row.ver = edits + 1, Written(r, w, row)
  PROVE  EventInv'
<1>0. /\ hook \in [Hooks -> Webhook] /\ edits \in Nat /\ \A v \in Hooks : hook[v].ver <= edits /\ hook[v].ver \in Nat
      /\ event \in [Events -> Delivery] /\ audited \in 0 .. MaxEvents
      /\ \A e \in Events : e \in Nat /\ event[e] \in Delivery /\ EventOK(e)
      /\ \A p \in sent : p.event \in Events /\ p.event <= audited /\ Current(event[p.event], p.to, p.ver)
  BY EventParts
<1>1. edits' = edits + 1 /\ hook' = [hook EXCEPT ![w] = row] /\ UNCHANGED <<event, audited, sent, missed>>
  BY DEF Written
<1>2. hook'[w] = row /\ \A v \in Hooks \ {w} : hook'[v] = hook[v]
  BY <1>0, <1>1
<1>3. \A v \in Hooks \ {w} : v \in Enabled' <=> v \in Enabled
  BY <1>2 DEF Enabled
<1>4. ASSUME NEW e \in Events PROVE EventOK(e)'
  <2>0. event[e] \in Delivery /\ EventOK(e) /\ event[e].when \in Nat /\ event[e].when <= edits
        /\ \A s \in event[e].owed : s \in Target /\ s.to \in Hooks /\ s.ver \in Nat /\ s.ver <= hook[s.to].ver
    BY <1>0 DEF EventOK, DueStill, Delivery, Target
  <2>1. \A s \in event[e].owed : /\ s.to = w => s.ver < hook'[w].ver /\ hook'[w].ver # s.ver
                                 /\ s.ver <= hook'[s.to].ver
    BY <1>0, <1>2, <2>0
  <2>2. DueStill(event[e])'
    <3> SUFFICES ASSUME NEW s \in event[e].owed
                 PROVE  /\ s.ver <= hook'[s.to].ver
                        /\ event[e].at = "list" /\ hook'[s.to].ver = s.ver =>
                             s.to \in Enabled' /\ hook'[s.to].subs = s.subs /\ matches(s.subs, event[e].subject)
      BY <1>1 DEF DueStill, matches
    <3>1. CASE s.to = w
      BY <2>1, <3>1
    <3>2. CASE s.to # w
      <4>1. s.to \in Hooks \ {w}
        BY <2>0, <3>2
      <4> QED BY <1>2, <1>3, <2>0, <2>1, <4>1 DEF EventOK, DueStill
    <3> QED BY <3>1, <3>2
  <2>3. DueAll(event[e])'
    <3> SUFFICES ASSUME event[e].at = "list", NEW v \in Enabled', hook'[v].ver <= event[e].when,
                        matches(hook'[v].subs, event[e].subject)
                 PROVE  \E s \in event[e].owed : s.to = v /\ s.ver = hook'[v].ver
      BY <1>1 DEF DueAll, matches
    <3>1. v \in Hooks
      BY DEF Enabled
    <3>2. v # w
      BY <1>0, <1>2, <2>0
    <3> QED BY <1>2, <1>3, <2>0, <3>1, <3>2 DEF EventOK, DueAll
  <2>4. event[e].at = "send" /\ ~ event[e].starved =>
          \A s \in event[e].owed : Reached(e, s)' \/ hook'[s.to].ver # s.ver \/ s \in event[e].todo
    <3> SUFFICES ASSUME event[e].at = "send", ~ event[e].starved, NEW s \in event[e].owed
                 PROVE  Reached(e, s)' \/ hook'[s.to].ver # s.ver \/ s \in event[e].todo
      OBVIOUS
    <3>1. CASE s.to = w
      BY <2>1, <3>1
    <3>2. CASE s.to # w
      <4>1. hook'[s.to] = hook[s.to]
        BY <1>2, <2>0, <3>2
      <4>2. Reached(e, s) => Reached(e, s)'
        BY <1>1 DEF Reached
      <4> QED BY <2>0, <4>1, <4>2 DEF EventOK
    <3> QED BY <3>1, <3>2
  <2>5. event'[e] = event[e] /\ event[e].when <= edits'
    BY <1>0, <1>1, <2>0
  <2> QED BY <1>1, <2>0, <2>2, <2>3, <2>4, <2>5 DEF EventOK, Current
<1>5. \A p \in sent' : p.event \in Events /\ p.event <= audited' /\ Current(event[p.event], p.to, p.ver)'
  BY <1>0, <1>1 DEF Current
<1> QED BY <1>0, <1>1, <1>4, <1>5 DEF EventInv

\* A crash loses goroutines and nothing else.
LEMMA RestartKeepsEvents ==
  ASSUME HookInv, HookRestart
  PROVE  EventInv'
<1>0. /\ event \in [Events -> Delivery] /\ audited \in 0 .. MaxEvents
      /\ \A e \in Events : e \in Nat /\ event[e] \in Delivery /\ EventOK(e)
      /\ \A p \in sent : p.event \in Events /\ p.event <= audited /\ Current(event[p.event], p.to, p.ver)
  BY EventParts
<1> DEFINE lostEvent(e) == [event[e] EXCEPT !.at = "lost"]
           kept(e) == event[e].at \in {"none", "skipped", "dropped"} \/ Delivered(e)
<1>1. /\ event' = [e \in Events |-> IF kept(e) THEN event[e] ELSE lostEvent(e)]
      /\ UNCHANGED <<hook, audited, edits, sent, missed>>
  BY DEF HookRestart
<1>2. ASSUME NEW e \in Events
      PROVE  /\ lostEvent(e) \in Delivery /\ lostEvent(e).at = "lost" /\ lostEvent(e).owed = event[e].owed
             /\ lostEvent(e).when = event[e].when
             /\ event[e].at = "none" => kept(e)
  BY <1>0 DEF Delivery
<1> HIDE DEF lostEvent, kept
<1>3. /\ event' \in [Events -> Delivery]
      /\ \A e \in Events : /\ event'[e].owed = event[e].owed /\ event'[e].when = event[e].when
                           /\ event'[e] = event[e] \/ (event'[e].at = "lost" /\ event[e].at # "none")
  BY <1>0, <1>1, <1>2
<1>4. ASSUME NEW e \in Events PROVE EventOK(e)'
  <2>1. EventOK(e) /\ DueStill(event[e]) /\ DueAll(event[e])
    BY <1>0 DEF EventOK
  <2>2. CASE event'[e] = event[e]
    <3>1. DueStill(event[e])' /\ DueAll(event[e])'
      BY <1>1, <2>1, <2>2, DueFrame
    <3> QED BY <1>1, <2>1, <2>2, <3>1 DEF EventOK, Current, Reached
  <2>3. CASE event'[e].at = "lost" /\ event[e].at # "none"
    <3>1. DueStill(event[e])' /\ DueAll(event[e])'
      BY <1>1, <1>3, <2>1, <2>3 DEF DueStill, DueAll
    <3> QED BY <1>1, <1>3, <2>1, <2>3, <3>1 DEF EventOK
  <2> QED BY <1>3, <2>2, <2>3
<1>5. \A p \in sent' : p.event \in Events /\ p.event <= audited' /\ Current(event[p.event], p.to, p.ver)'
  BY <1>0, <1>1, <1>3 DEF Current
<1> QED BY <1>0, <1>1, <1>3, <1>4, <1>5 DEF EventInv

LEMMA EventFrame ==
  ASSUME HookInv, UNCHANGED <<hook, event, audited, edits, sent, missed>>
  PROVE  EventInv'
<1>1. ASSUME NEW e \in Events PROVE EventOK(e)'
  <2>1. EventOK(e) /\ event'[e] = event[e]
    BY DEF HookInv, EventInv
  <2>2. DueStill(event[e])' /\ DueAll(event[e])'
    BY <2>1, DueFrame DEF EventOK
  <2> QED BY <2>1, <2>2 DEF EventOK, Current, Reached
<1>2. \A p \in sent' : p.event \in Events /\ p.event <= audited' /\ Current(event[p.event], p.to, p.ver)'
  BY DEF HookInv, EventInv, Current
<1> QED BY <1>1, <1>2 DEF HookInv, EventInv

LEMMA EditsKeep ==
  ASSUME HookInv, NEW r \in Editors, webhookCreate(r) \/ webhookUpdate(r) \/ webhookDelete(r)
  PROVE  HookInv'
<1>1. ASSUME NEW w \in Hooks, NEW row, row \in Webhook, row.ver = edits + 1, Written(r, w, row) PROVE HookInv'
  BY <1>1, WrittenKeepsGate, WrittenKeepsEvents DEF HookInv
<1>2. ASSUME edits < MaxEdits PROVE edits + 1 \in 0 .. MaxEdits
  BY <1>2, WebhooksAssumption DEF HookInv, GateInv
<1>3. ASSUME NEW w \in Hooks, NEW on \in BOOLEAN, NEW subs \in Subscriptions, NEW state \in {"live", "deleted"},
             Written(r, w, [row |-> state, on |-> on, subs |-> subs, ver |-> edits + 1])
      PROVE  HookInv'
  <2> DEFINE row == [row |-> state, on |-> on, subs |-> subs, ver |-> edits + 1]
  <2>1. edits + 1 \in 0 .. MaxEdits
    BY <1>2, <1>3 DEF Written
  <2>2. row \in Webhook /\ row.ver = edits + 1
    BY <2>1 DEF Webhook
  <2>3. Written(r, w, row)
    BY <1>3
  <2> HIDE DEF row
  <2> QED BY <1>1, <2>2, <2>3
<1> QED BY <1>3, WebhooksAssumption DEF webhookCreate, webhookUpdate, webhookDelete

LEMMA HookInvariant == HookSpec => []HookInv
<1>1. HookInit => HookInv
  <2> SUFFICES ASSUME HookInit PROVE HookInv
    OBVIOUS
  <2>1. PICK live \in BOOLEAN :
          hook = [w \in Hooks |-> [row |-> IF live THEN "live" ELSE "unused", on |-> live, subs |-> {}, ver |-> 0]]
    BY DEF HookInit
  <2>2. hook \in [Hooks -> Webhook] /\ \A w \in Hooks : hook[w].ver = 0
    BY <2>1, WebhooksAssumption DEF Webhook
  <2>3. Resting \in EditorState /\ Resting.at = "idle"
    BY DEF Resting, EditorState
  <2>4. GateInv
    <3>1. gate = CountEnabledWebhooks /\ editor = [r \in Editors |-> Resting] /\ edits = 0 /\ staleGate = FALSE
      BY DEF HookInit
    <3>2. editor \in [Editors -> EditorState] /\ \A r \in Editors : editor[r].at # "store"
      BY <2>3, <3>1
    <3>3. gate \in Nat /\ GateCovered
      BY <3>1, CountPositive DEF GateCovered
    <3>4. edits \in 0 .. MaxEdits /\ \A w \in Hooks : hook[w].ver <= edits
      BY <2>2, <3>1, WebhooksAssumption
    <3> QED BY <2>2, <3>1, <3>2, <3>3, <3>4 DEF GateInv
  <2>5. NoEvent \in Delivery /\ NoEvent.at = "none" /\ NoEvent.owed = {} /\ NoEvent.when = 0
    BY DEF NoEvent, Delivery
  <2>6. \A e \in Events : EventOK(e)
    BY <2>5 DEF HookInit, EventOK, DueStill, DueAll
  <2>7. EventInv
    BY <2>5, <2>6, WebhooksAssumption DEF HookInit, EventInv
  <2> QED BY <2>4, <2>7 DEF HookInv
<1>2. HookInv /\ [HookNext]_hookVars => HookInv'
  <2> SUFFICES ASSUME HookInv, [HookNext]_hookVars PROVE HookInv'
    OBVIOUS
  <2>1. ASSUME NEW subject \in Subjects, CreateAuditLog(subject) PROVE HookInv'
    BY <2>1, AuditKeeps, GateFrame DEF CreateAuditLog, HookInv
  <2>2. ASSUME NEW r \in Editors, AuditEdit(r) PROVE HookInv'
    BY <2>2, AuditKeeps, EditorsKeepGate DEF AuditEdit, HookInv
  <2>3. ASSUME NEW r \in Editors,
               \/ GetWebhook(r) \/ GetWebhookFails(r) \/ AuditEditFails(r)
               \/ RefreshCount(r) \/ RefreshStore(r) \/ RefreshFails(r)
        PROVE  HookInv'
    <3>1. UNCHANGED <<hook, event, audited, edits, sent, missed>>
      BY <2>3 DEF GetWebhook, GetWebhookFails, AuditEditFails, RefreshCount, RefreshStore, RefreshFails
    <3> QED BY <2>3, <3>1, EditorsKeepGate, EventFrame DEF HookInv
  <2>4. ASSUME NEW e \in Events, Goroutine(e) PROVE HookInv'
    <3>1. UNCHANGED <<hook, edits, gate, staleGate, editor>>
      BY <2>4 DEF Goroutine, deliver, deliverFails, send, sendExpired
    <3> QED BY <2>4, <3>1, GoroutineKeeps, GateFrame DEF HookInv
  <2>5. ASSUME TestDeliver PROVE HookInv'
    <3>1. UNCHANGED <<hook, edits, gate, staleGate, editor>>
      BY <2>5 DEF TestDeliver
    <3> QED BY <2>5, <3>1, TestKeeps, GateFrame DEF HookInv
  <2>6. ASSUME HookRestart PROVE HookInv'
    BY <2>6, RestartKeepsGate, RestartKeepsEvents DEF HookInv
  <2>7. CASE UNCHANGED hookVars
    BY <2>7, GateFrame, EventFrame DEF hookVars, HookInv
  <2> QED BY <2>1, <2>2, <2>3, <2>4, <2>5, <2>6, <2>7, EditsKeep DEF HookNext
<1> QED BY <1>1, <1>2, PTL DEF HookSpec

(***************************************************************************)
(* With no edit of the webhooks under way, the gate of the audit hook      *)
(* (Dispatcher.Refresh) is open exactly when a webhook is enabled, unless  *)
(* the refreshes of two edits crossed, a count failed or an edit could not *)
(* be read back.  An edit whose row another one removed does not count:    *)
(* the invariant says that the other one will (GateCovered).               *)
(***************************************************************************)
THEOREM GateStaysCurrent == HookSpec => []GateCurrent
<1>1. HookInv => GateCurrent
  BY CoveredIsCurrent DEF HookInv, GateInv
<1> QED BY <1>1, HookInvariant, PTL

(***************************************************************************)
(* An event reaches every webhook it was due to that has not been edited   *)
(* since (deliver), unless the gate was behind, the webhooks could not be  *)
(* listed, the time ran out or the process died.                           *)
(***************************************************************************)
THEOREM EventsReachSubscribers == HookSpec => []EventReachesSubscribers
<1>1. HookInv => EventReachesSubscribers
  <2> SUFFICES ASSUME HookInv, NEW e \in Events, event[e].at = "skipped" \/ Delivered(e), e \notin missed,
                      ~ event[e].starved, NEW s \in event[e].owed
               PROVE  Reached(e, s) \/ hook[s.to].ver # s.ver
    BY DEF EventReachesSubscribers, Reached
  <2>1. EventOK(e)
    BY DEF HookInv, EventInv
  <2> QED BY <2>1 DEF EventOK, Delivered
<1> QED BY <1>1, HookInvariant, PTL

(***************************************************************************)
(* Nothing is sent to a webhook as it was before an edit that the event    *)
(* followed: the goroutine lists the webhooks when it starts (deliver,     *)
(* ListEnabledWebhooks), after the event.                                  *)
(***************************************************************************)
THEOREM SendsStayCurrent == HookSpec => []SendsCurrent
<1>1. HookInv => SendsCurrent
  BY DEF HookInv, EventInv, SendsCurrent, Current
<1> QED BY <1>1, HookInvariant, PTL
=============================================================================
