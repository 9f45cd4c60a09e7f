----------------------------- MODULE MCVolatile -----------------------------
(* Small instances of the three components whose state in memory follows   *)
(* what is stored, one at a time, so that their state spaces add up.       *)
EXTENDS AppCaches, Webhooks, CertReload, TLC

VARIABLE focus
allVars == <<cacheVars, hookVars, certVars, focus>>

MCOIDC == [on |-> TRUE, ident |-> "i0", secret |-> "k0"]
MCSubscriptions == {{}, {"ipam"}}
\* Requests, webhooks and their editors are interchangeable.
Symmetry == Permutations(Requests) \cup Permutations(Hooks) \cup Permutations(Editors)

\* A fault costs one edit or one event.
Smaller == crashes = 0 \/ audited + edits <= 2

Init ==
  /\ CacheInit /\ HookInit /\ CertInit
  /\ focus \in {"caches", "webhooks", "certificate"}
  /\ focus # "webhooks" => gate = 0

Next ==
  \/ focus = "caches" /\ CacheNext /\ UNCHANGED <<hookVars, certVars, focus>>
  \/ focus = "webhooks" /\ HookNext /\ Smaller' /\ UNCHANGED <<cacheVars, certVars, focus>>
  \/ focus = "certificate" /\ CertNext /\ UNCHANGED <<cacheVars, hookVars, focus>>

Spec == Init /\ [][Next]_allVars
=============================================================================
