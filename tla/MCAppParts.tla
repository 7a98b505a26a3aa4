------------------------------ MODULE MCAppParts -----------------------------
(***************************************************************************)
(* AppParts on small sets for TLC.                                           *)
(***************************************************************************)
EXTENDS AppParts, TLC

CONSTANTS
  a1, a2, a3, k1, k2, k3, \* arts and the cards they show; a3 is blank
  l1, l2,               \* sets to lock
  c1, c2, i1, i2,       \* deck cards and the items that could fill them
  m1, s1, n1, n2        \* a listed card, one on the Considering board, names

MCKeyOf == a1 :> k1 @@ a2 :> k2 @@ a3 :> k3
MCLocks == {{a1, a2, a3}, {a2}}

(* Art a1 is printed in both sets, its representative printing in l1.       *)
MCArtsIn == l1 :> {a1} @@ l2 :> {a1, a2} @@ NoLock :> {a1, a2, a3}
MCShownIn == l1 :> {a1} @@ l2 :> {a2} @@ NoLock :> {a1, a2, a3}

MCPullCards == <<c1, c2>>
MCCandidates == c1 :> <<i1, i2>> @@ c2 :> <<i2, i1>>
MCExact == c1 :> {i1} @@ c2 :> {}
MCMaxNeed == c1 :> 1 @@ c2 :> 2

MCConsideringOf == n1 :> s1 @@ n2 :> NoConsidering
=============================================================================
