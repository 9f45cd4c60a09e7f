\* Settings pages and single sign-on with two requests; two webhooks with two editors and two events; two
\* rotations of the agent's certificate.
SPECIFICATION Spec
SYMMETRY Symmetry
CONSTANTS
  Values = {"v0", "v1"}
  EnvValue = "v0"
  Idents = {"i0", "i1"}
  Secrets = {"k0", "k1"}
  EnvOIDC <- MCOIDC
  Requests = {q1, q2}
  MaxRequests = 3
  MaxCAs = 3
  MaxFaults = 1
  None = None
  Hooks = {w1, w2}
  Subjects = {"ipam", "security"}
  Subscriptions <- MCSubscriptions
  Editors = {r1, r2}
  MaxEvents = 2
  MaxEdits = 2
  MaxCrashes = 1
  Budget = 1
  MaxRotations = 2
  Torn = Torn
CHECK_DEADLOCK FALSE
INVARIANTS CacheCurrent SecretKept ProviderCurrent GateCurrent EventReachesSubscribers SendsCurrent RotationServed
