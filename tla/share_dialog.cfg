SPECIFICATION ShareSpec
CONSTANTS
  d1 = d1
  d2 = d2
  t1 = t1
  t2 = t2
  t3 = t3
  r1 = r1
  r2 = r2
  NoToken = NoToken
  NoDeck = NoDeck
  Deck <- TwoDecks
  Token <- ThreeTokens
  Request <- TwoRequests
  Ops <- AllOps
  NoRequest = NoRequest
  KeptMounted = FALSE
SYMMETRY Alike
INVARIANTS
  RevokedIsDead
  LinkOpensThisDeck
PROPERTIES
  RetiredTokensStayDead
