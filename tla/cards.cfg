SPECIFICATION Spec
CONSTANTS
  d1 = d1
  d2 = d2
  c1 = c1
  c2 = c2
  p1 = p1
  p2 = p2
  p3 = p3
  i1 = i1
  i2 = i2
  i3 = i3
  l1 = l1
  NoPrinting = NoPrinting
  Unfiled = Unfiled
  Deck <- OneDeck
  Card <- TwoCards
  BasicLand <- SecondIsBasic
  Zone <- MainAndCommand
  Printing <- ThreePrintings
  CardOf <- ShowTwo
  Location <- NoLocation
  ItemId <- TwoItems
  MaxCopies = 1
  MaxQuantity = 1
  RemoteLists <- OneCopyRemotes
  CardEdits = FALSE
SYMMETRY Symmetric
INVARIANTS
  TypeOK
  HoldsOwnCard
