---------------------------- MODULE MCManaVault -----------------------------
(* Instances of ManaVault for TLC.                                          *)
EXTENDS ManaVault, TLC

CONSTANTS d1, d2, c1, c2, p1, p2, p3, i1, i2, i3, l1

OneDeck == {d1}
TwoDecks == {d1, d2}
OneCard == {c1}
TwoCards == {c1, c2}
NoBasics == {}
SecondIsBasic == {c2}

OnePrinting == {p1}
TwoPrintings == {p1, p2}
ThreePrintings == {p1, p2, p3}
ShowFirst == [p \in Printing |-> c1]
ShowEach == [p \in Printing |-> IF p = p1 THEN c1 ELSE c2]
ShowTwo == [p \in Printing |-> IF p = p3 THEN c2 ELSE c1]

OneLocation == {l1}
NoLocation == {}
OneItem == {i1}
TwoItems == {i1, i2}
ThreeItems == {i1, i2, i3}

Mainboard == {"mainboard"}
MainAndIdeas == {"mainboard", "considering"}
MainAndCommand == {"mainboard", "commander"}
AllZones == {"mainboard", "commander", "considering"}

NoRemote == {}
(* Remote lists of the first printing, or of one copy in no known one.      *)
RemoteCards == {[quantity |-> n, printing |-> p1] : n \in 0 .. MaxQuantity}
               \cup {[quantity |-> 1, printing |-> NoPrinting]}
SomeRemotes == {list \in [Card \X Zone -> RemoteCards] :
                  Cardinality({k \in DOMAIN list : list[k].quantity > 1}) <= 1}
(* Remote lists of one copy of one card, the first card in a printing.      *)
OneCopyRemotes ==
  {[k \in Card \X Zone |->
      [quantity |-> IF k = listed THEN 1 ELSE 0,
       printing |-> IF k[1] = c1 THEN p2 ELSE NoPrinting]] : listed \in Card \X Zone}

Symmetric == Permutations(Deck) \cup Permutations(ItemId)
=============================================================================
