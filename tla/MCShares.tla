------------------------------ MODULE MCShares -------------------------------
(* Instances of ShareDialog for TLC.                                        *)
EXTENDS ShareDialog, TLC

CONSTANTS d1, d2, t1, t2, t3, r1, r2

TwoDecks == {d1, d2}
TwoTokens == {t1, t2}
ThreeTokens == {t1, t2, t3}
TwoRequests == {r1, r2}

AllOps == {"edit", "ensure", "rotate", "disable"}
LinkOps == {"ensure", "rotate", "disable"}

Alike == Permutations(Deck) \cup Permutations(Token) \cup Permutations(Request)
=============================================================================
