\* Two authorizations, two redirects, two users, two servers and a registration
\* that may be deleted and made anew in between.
CONSTANTS
  Flows = {f1, f2}
  Callbacks = {k1, k2}
  Servers = {m1, m2}
  Users = {u1, u2}
  TokenStore = TRUE
  MaxClients = 2
  None = None
SPECIFICATION FairSpec
INVARIANTS
  StateOpensOneExchange
  TokensGoToTheirAuthorizer
  NoSuccessWithoutToken
PROPERTIES
  CallbackSettles
