SPECIFICATION DecklistsSpec
CONSTANTS
  d1 = d1
  d2 = d2
  c1 = c1
  c2 = c2
  p1 = p1
  p2 = p2
  p3 = p3
  i1 = i1
  i2 = i2
  i3 = i3
  l1 = l1
  NoPrinting = NoPrinting
  Unfiled = Unfiled
  Deck <- OneDeck
  Card <- OneCard
  BasicLand <- NoBasics
  Zone <- MainAndIdeas
  Printing <- OnePrinting
  CardOf <- ShowFirst
  Location <- OneLocation
  ItemId <- TwoItems
  MaxCopies = 1
  MaxQuantity = 2
  MaxEntries = 2
  MaxRequests = 2
  RemoteLists <- SomeRemotes
  CardEdits = FALSE
SYMMETRY Symmetric
INVARIANTS
  NotOverfilled
  IdeasHoldNothing
  SwapAsPreviewed
PROPERTIES
  HomesKept
  GuardedListsKept
