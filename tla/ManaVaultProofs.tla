--------------------------- MODULE ManaVaultProofs --------------------------
(***************************************************************************)
(* The safety of the composed system for every deck, card, item, location  *)
(* and bound, provided that edits of reserved items keep the card          *)
(* (~CardEdits; the run card_edits shows what happens otherwise).          *)
(*                                                                         *)
(* The inductive invariant is Sound on the tables, with the types of the   *)
(* rest.  The first half shows each move of Stock to keep a snapshot sound,*)
(* the second half lifts that: one lemma per action, theorems at the end.  *)
(***************************************************************************)
EXTENDS ManaVault, FiniteSetTheorems, FunctionTheorems, TLAPS

-----------------------------------------------------------------------------
(* Snapshots: what the moves of Stock keep.                                 *)

(* The invariant of a snapshot.  Each part needs the others: an item that   *)
(* moves whole is free only because availability counts every holder, and   *)
(* it counts every holder only because holders hold their own card.         *)
Sound(st) ==
  /\ st \in Snapshot
  /\ HeldOnce(st.allocations, Slot)
  /\ \A i \in ItemId : st.items[i].copies > 0 => st.items[i].printed \in Printing
  /\ \A s \in Slot, i \in ItemId :
       st.allocations[s][i].quantity > 0 =>
         /\ st.allocations[s][i].quantity <= st.items[i].copies
         /\ st.items[i].filed = Unfiled
         /\ CardOf[st.items[i].printed] = CardIn(s)

-----------------------------------------------------------------------------
(* Counting.                                                                *)

(* There are finitely many deck cards.                                      *)
LEMMA SlotFinite == IsFiniteSet(Slot)
<1>1. IsFiniteSet(Zone)
  <2>1. IsFiniteSet({"mainboard"} \cup {"commander"})
    BY FS_Singleton, FS_Union
  <2>2. IsFiniteSet({"mainboard"} \cup {"commander"} \cup {"considering"})
    BY <2>1, FS_Singleton, FS_Union
  <2>3. Zone \in SUBSET ({"mainboard"} \cup {"commander"} \cup {"considering"})
    BY TablesAssumption DEF TablesAssumption
  <2> QED BY <2>2, <2>3, FS_Subset
<1>2. IsFiniteSet((Deck \X Card) \X Zone)
  <2>1. IsFiniteSet(Deck \X Card)
    BY TablesAssumption, FS_Product DEF TablesAssumption
  <2> QED BY <1>1, <2>1, FS_Product
<1> DEFINE f == [x \in (Deck \X Card) \X Zone |-> <<x[1][1], x[1][2], x[2]>>]
<1>3. f \in Surjection((Deck \X Card) \X Zone, Slot)
  <2>1. f \in [(Deck \X Card) \X Zone -> Slot]
    BY DEF Slot
  <2>2. ASSUME NEW s \in Slot
        PROVE  \E x \in (Deck \X Card) \X Zone : f[x] = s
    <3>1. <<<<s[1], s[2]>>, s[3]>> \in (Deck \X Card) \X Zone
      BY DEF Slot
    <3>2. f[<<<<s[1], s[2]>>, s[3]>>] = s
      BY <3>1 DEF Slot
    <3> QED BY <3>1, <3>2
  <2> QED BY <2>1, <2>2 DEF Surjection
<1> QED BY <1>2, <1>3, FS_Surjection

(* The parts of a deck card's key.                                          *)
LEMMA SlotParts ==
  ASSUME NEW s \in Slot
  PROVE  DeckOf(s) \in Deck /\ CardIn(s) \in Card /\ ZoneOf(s) \in Zone
BY DEF Slot, DeckOf, CardIn, ZoneOf

(* A total is a number, whatever is counted.                                *)
LEMMA TotalType ==
  ASSUME NEW amount
  PROVE  Total(amount) \in Nat
<1>1. IsFiniteSet(1 .. MaxCopies)
  BY FS_Interval, TablesAssumption DEF TablesAssumption
<1>2. IsFiniteSet(ItemId \X (1 .. MaxCopies))
  BY <1>1, FS_Product, TablesAssumption DEF TablesAssumption
<1>3. Units(amount) \in SUBSET (ItemId \X (1 .. MaxCopies))
  BY DEF Units
<1>4. IsFiniteSet(Units(amount))
  BY <1>2, <1>3, FS_Subset
<1> QED BY <1>4, FS_CardinalityType DEF Total

(* The units {s} x 1..n are n.                                              *)
LEMMA StackOfUnits ==
  ASSUME NEW s, NEW n \in Nat
  PROVE  /\ IsFiniteSet({s} \X (1 .. n))
         /\ Cardinality({s} \X (1 .. n)) = n
<1>1. IsFiniteSet(1 .. n) /\ Cardinality(1 .. n) = n
  BY FS_Interval
<1>2. IsFiniteSet({s}) /\ Cardinality({s}) = 1
  BY FS_Singleton
<1> QED BY <1>1, <1>2, FS_Product

(* Whatever one deck card holds of an item is counted as promised.          *)
LEMMA HeldIsPromised ==
  ASSUME NEW allocs \in [Slot -> [ItemId -> Row]], NEW S \in SUBSET Slot,
         NEW s \in S, NEW i \in ItemId
  PROVE  /\ Promised(allocs, S, i) \in Nat
         /\ allocs[s][i].quantity <= Promised(allocs, S, i)
<1> DEFINE n == allocs[s][i].quantity
<1>1. n \in Nat /\ n <= MaxCopies /\ MaxCopies \in Nat
  BY TablesAssumption DEF TablesAssumption, Row
<1>2. IsFiniteSet(S \X (1 .. MaxCopies))
  <2>1. IsFiniteSet(S)
    BY SlotFinite, FS_Subset
  <2>2. IsFiniteSet(1 .. MaxCopies)
    BY <1>1, FS_Interval
  <2> QED BY <2>1, <2>2, FS_Product
<1>3. PromisedUnits(allocs, S, i) \in SUBSET (S \X (1 .. MaxCopies))
  BY DEF PromisedUnits
<1>4. IsFiniteSet(PromisedUnits(allocs, S, i))
  BY <1>2, <1>3, FS_Subset
<1>5. {s} \X (1 .. n) \in SUBSET PromisedUnits(allocs, S, i)
  BY <1>1 DEF PromisedUnits
<1>6. Cardinality({s} \X (1 .. n)) = n
  <2> HIDE DEF n
  <2> QED BY <1>1, StackOfUnits
<1>7. Cardinality({s} \X (1 .. n)) <= Cardinality(PromisedUnits(allocs, S, i))
  BY <1>4, <1>5, FS_Subset
<1> QED BY <1>4, <1>6, <1>7, FS_CardinalityType DEF Promised

(* An item one deck card holds at most promises no more than that card's    *)
(* share.                                                                   *)
LEMMA PromisedToOne ==
  ASSUME NEW allocs \in [Slot -> [ItemId -> Row]], HeldOnce(allocs, Slot),
         NEW i \in ItemId, NEW n \in Nat,
         \A s \in Slot : allocs[s][i].quantity <= n
  PROVE  Promised(allocs, Slot, i) <= n
<1>1. CASE \A s \in Slot : ~(allocs[s][i].quantity > 0)
  <2>1. PromisedUnits(allocs, Slot, i) = {}
    BY <1>1, TablesAssumption DEF TablesAssumption, PromisedUnits, Row
  <2> QED BY <2>1, FS_EmptySet DEF Promised
<1>2. CASE \E s \in Slot : allocs[s][i].quantity > 0
  <2>1. PICK h \in Slot : allocs[h][i].quantity > 0
    BY <1>2
  <2>2. \A s \in Slot : allocs[s][i].quantity \in Nat
    BY TablesAssumption DEF TablesAssumption, Row
  <2>3. \A s \in Slot : allocs[s][i].quantity > 0 => s = h
    BY <2>1 DEF HeldOnce
  <2>4. PromisedUnits(allocs, Slot, i) \in SUBSET ({h} \X (1 .. n))
    <3> SUFFICES ASSUME NEW u \in PromisedUnits(allocs, Slot, i)
                 PROVE  u \in {h} \X (1 .. n)
      OBVIOUS
    <3>1. /\ u[1] \in Slot /\ u[2] \in 1 .. MaxCopies /\ u = <<u[1], u[2]>>
          /\ u[2] <= allocs[u[1]][i].quantity
      BY DEF PromisedUnits
    <3>2. u[2] <= n
      BY <2>2, <3>1, TablesAssumption DEF TablesAssumption
    <3>3. u[1] = h
      BY <2>2, <2>3, <3>1, TablesAssumption DEF TablesAssumption
    <3> QED BY <3>1, <3>2, <3>3
  <2>5. IsFiniteSet({h} \X (1 .. n)) /\ Cardinality({h} \X (1 .. n)) = n
    BY StackOfUnits
  <2> QED BY <2>4, <2>5, FS_Subset DEF Promised
<1> QED BY <1>1, <1>2

-----------------------------------------------------------------------------
(* Moving copies between items.                                             *)

(* The row that receives an item's copies is the item itself when it moves  *)
(* whole and an unused row otherwise; every row keeps its type.             *)
LEMMA MovedItemsFacts ==
  ASSUME NEW its \in [ItemId -> Item], NEW amount \in [ItemId -> 0 .. MaxCopies],
         NEW place \in [Moved(amount) -> Place], NEW at \in Destinations(its, amount)
  PROVE  /\ MovedItems(its, amount, place, at) \in [ItemId -> Item]
         /\ at \in [Moved(amount) -> ItemId]
         /\ \A i \in Moved(amount) :
              MovedItems(its, amount, place, at)[at[i]] =
                [copies |-> amount[i], printed |-> its[i].printed, filed |-> place[i]]
         /\ \A i \in Moved(amount) :
              \/ at[i] = i /\ amount[i] = its[i].copies
              \/ /\ at[i] # i /\ amount[i] < its[i].copies
                 /\ its[at[i]].copies = 0 /\ at[i] \notin Moved(amount)
         /\ \A j \in ItemId : (\A i \in Moved(amount) : at[i] # j) =>
              MovedItems(its, amount, place, at)[j] =
                [copies |-> its[j].copies - amount[j],
                 printed |-> its[j].printed, filed |-> its[j].filed]
<1> USE TablesAssumption DEF TablesAssumption
<1>1. /\ at \in [Moved(amount) -> ItemId]
      /\ \A i \in ItemId : amount[i] <= its[i].copies
      /\ \A i \in Moved(amount) :
           IF amount[i] = its[i].copies THEN at[i] = i ELSE its[at[i]].copies = 0
      /\ \A i, j \in Moved(amount) : at[i] = at[j] => i = j
  BY DEF Destinations
<1>2. /\ Moved(amount) \subseteq ItemId
      /\ \A i \in ItemId : i \in Moved(amount) <=> amount[i] > 0
  BY DEF Moved
<1>3. \A i \in ItemId : /\ amount[i] \in Nat /\ amount[i] <= MaxCopies
                        /\ its[i].copies \in Nat /\ its[i].copies <= MaxCopies
                        /\ its[i].printed \in Printing \cup {NoPrinting}
                        /\ its[i].filed \in Place
  BY DEF Item
<1>4. ASSUME NEW i \in Moved(amount)
      PROVE  MovedItems(its, amount, place, at)[at[i]] =
               [copies |-> amount[i], printed |-> its[i].printed, filed |-> place[i]]
  <2>1. (CHOOSE k \in Moved(amount) : at[k] = at[i]) = i
    BY <1>1
  <2>2. at[i] \in ItemId
    BY <1>1
  <2> QED BY <2>1, <2>2 DEF MovedItems
<1>5. ASSUME NEW i \in Moved(amount)
      PROVE  \/ at[i] = i /\ amount[i] = its[i].copies
             \/ /\ at[i] # i /\ amount[i] < its[i].copies
                /\ its[at[i]].copies = 0 /\ at[i] \notin Moved(amount)
  <2>1. i \in ItemId /\ at[i] \in ItemId
    BY <1>1, <1>2
  <2>2. CASE amount[i] = its[i].copies
    BY <1>1, <2>2
  <2>3. CASE amount[i] # its[i].copies
    <3>1. its[at[i]].copies = 0
      BY <1>1, <2>3
    <3>2. amount[i] < its[i].copies
      <4>1. amount[i] <= its[i].copies
        BY <1>1, <2>1
      <4> QED BY <1>3, <2>1, <2>3, <4>1
    <3>3. amount[at[i]] = 0
      BY <1>1, <1>3, <2>1, <3>1
    <3> QED BY <1>2, <2>1, <3>1, <3>2, <3>3
  <2> QED BY <2>2, <2>3
<1>6. ASSUME NEW j \in ItemId, \A i \in Moved(amount) : at[i] # j
      PROVE  MovedItems(its, amount, place, at)[j] =
               [copies |-> its[j].copies - amount[j],
                printed |-> its[j].printed, filed |-> its[j].filed]
  BY <1>6 DEF MovedItems
<1>7. ASSUME NEW j \in ItemId
      PROVE  MovedItems(its, amount, place, at)[j] \in Item
  <2>1. CASE \A i \in Moved(amount) : at[i] # j
    <3>1. /\ its[j].copies - amount[j] \in 0 .. MaxCopies
          /\ its[j].printed \in Printing \cup {NoPrinting} /\ its[j].filed \in Place
      BY <1>1, <1>3
    <3>2. MovedItems(its, amount, place, at)[j] =
            [copies |-> its[j].copies - amount[j],
             printed |-> its[j].printed, filed |-> its[j].filed]
      BY <1>6, <2>1
    <3> QED BY <3>1, <3>2 DEF Item
  <2>2. CASE \E i \in Moved(amount) : at[i] = j
    <3>1. PICK i \in Moved(amount) : at[i] = j
      BY <2>2
    <3>2. /\ amount[i] \in 0 .. MaxCopies
          /\ its[i].printed \in Printing \cup {NoPrinting} /\ place[i] \in Place
      BY <1>2, <1>3
    <3>3. MovedItems(its, amount, place, at)[j] =
            [copies |-> amount[i], printed |-> its[i].printed, filed |-> place[i]]
      BY <1>4, <3>1
    <3> QED BY <3>2, <3>3 DEF Item
  <2> QED BY <2>1, <2>2
<1>8. MovedItems(its, amount, place, at) \in [ItemId -> Item]
  <2>1. MovedItems(its, amount, place, at) =
          [j \in ItemId |-> MovedItems(its, amount, place, at)[j]]
    BY DEF MovedItems
  <2> QED BY <1>7, <2>1
<1> QED BY <1>1, <1>4, <1>5, <1>6, <1>8

(* Moving copies leaves every row that still has copies with a printing.    *)
LEMMA MovedItemsShow ==
  ASSUME NEW its \in [ItemId -> Item], NEW amount \in [ItemId -> 0 .. MaxCopies],
         NEW place \in [Moved(amount) -> Place], NEW at \in Destinations(its, amount),
         \A i \in ItemId : its[i].copies > 0 => its[i].printed \in Printing,
         NEW j \in ItemId, MovedItems(its, amount, place, at)[j].copies > 0
  PROVE  MovedItems(its, amount, place, at)[j].printed \in Printing
<1> DEFINE new == MovedItems(its, amount, place, at)
<1>1. \A i \in ItemId : /\ amount[i] \in Nat /\ its[i].copies \in Nat
                        /\ amount[i] <= its[i].copies
  BY TablesAssumption DEF TablesAssumption, Item, Destinations
<1>2. CASE \A i \in Moved(amount) : at[i] # j
  <2>1. new[j] = [copies |-> its[j].copies - amount[j],
                  printed |-> its[j].printed, filed |-> its[j].filed]
    BY <1>2, MovedItemsFacts
  <2>2. new[j].copies = its[j].copies - amount[j] /\ new[j].printed = its[j].printed
    BY <2>1
  <2>3. its[j].copies > 0
    BY <1>1, <2>2
  <2> QED BY <2>2, <2>3
<1>3. CASE \E i \in Moved(amount) : at[i] = j
  <2>1. PICK i \in Moved(amount) : at[i] = j
    BY <1>3
  <2>2. i \in ItemId /\ its[i].copies > 0
    BY <1>1 DEF Moved
  <2>3. new[at[i]] = [copies |-> amount[i], printed |-> its[i].printed, filed |-> place[i]]
    BY MovedItemsFacts
  <2>4. new[j].printed = its[i].printed
    BY <2>1, <2>3
  <2> QED BY <2>2, <2>4
<1> QED BY <1>2, <1>3

(* Where the copies of one item land.                                       *)
LEMMA MovedItemsLand ==
  ASSUME NEW its \in [ItemId -> Item], NEW amount \in [ItemId -> 0 .. MaxCopies],
         NEW place \in [Moved(amount) -> Place], NEW at \in Destinations(its, amount),
         NEW i \in Moved(amount)
  PROVE  /\ MovedItems(its, amount, place, at)[at[i]] =
              [copies |-> amount[i], printed |-> its[i].printed, filed |-> place[i]]
         /\ (at[i] = i /\ amount[i] = its[i].copies) \/ its[at[i]].copies = 0
<1>1. MovedItems(its, amount, place, at)[at[i]] =
        [copies |-> amount[i], printed |-> its[i].printed, filed |-> place[i]]
  BY MovedItemsFacts
<1>2. (at[i] = i /\ amount[i] = its[i].copies) \/ its[at[i]].copies = 0
  BY MovedItemsFacts
<1> QED BY <1>1, <1>2

(* An item that keeps some copies keeps its printing and its place.         *)
LEMMA MovedItemsRest ==
  ASSUME NEW its \in [ItemId -> Item], NEW amount \in [ItemId -> 0 .. MaxCopies],
         NEW place \in [Moved(amount) -> Place], NEW at \in Destinations(its, amount),
         NEW j \in ItemId, its[j].copies > amount[j]
  PROVE  MovedItems(its, amount, place, at)[j] =
           [copies |-> its[j].copies - amount[j],
            printed |-> its[j].printed, filed |-> its[j].filed]
<1>1. amount[j] \in Nat /\ its[j].copies \in Nat
  BY TablesAssumption DEF TablesAssumption, Item
<1>2. ASSUME NEW i \in Moved(amount), at[i] = j
      PROVE  FALSE
  <2>1. (at[i] = i /\ amount[i] = its[i].copies) \/ its[at[i]].copies = 0
    BY MovedItemsFacts
  <2> QED BY <1>1, <1>2, <2>1
<1> QED BY <1>2, MovedItemsFacts

(* The parts of a sound snapshot, typed.                                    *)
LEMMA SoundParts ==
  ASSUME NEW st, Sound(st)
  PROVE  /\ st = [items |-> st.items, allocations |-> st.allocations]
         /\ st.items \in [ItemId -> Item]
         /\ st.allocations \in [Slot -> [ItemId -> Row]]
         /\ \A i \in ItemId : st.items[i].copies \in Nat
         /\ \A s \in Slot, i \in ItemId :
              /\ st.allocations[s][i].quantity \in Nat
              /\ st.allocations[s][i].quantity <= MaxCopies
              /\ st.allocations[s][i].source \in Place
              /\ st.allocations[s][i].quantity <= st.items[i].copies
<1>1. /\ st = [items |-> st.items, allocations |-> st.allocations]
      /\ st.items \in [ItemId -> Item]
      /\ st.allocations \in [Slot -> [ItemId -> Row]]
  BY DEF Sound, Snapshot
<1>2. \A i \in ItemId : st.items[i].copies \in Nat
  BY <1>1, TablesAssumption DEF TablesAssumption, Item
<1>3. \A s \in Slot, i \in ItemId :
        /\ st.allocations[s][i].quantity \in Nat
        /\ st.allocations[s][i].quantity <= MaxCopies
        /\ st.allocations[s][i].source \in Place
  BY <1>1, TablesAssumption DEF TablesAssumption, Row
<1>4. \A s \in Slot, i \in ItemId : st.allocations[s][i].quantity <= st.items[i].copies
  BY <1>2, <1>3 DEF Sound
<1> QED BY <1>1, <1>2, <1>3, <1>4

-----------------------------------------------------------------------------
(* Where copies belong: a unit <<i, k>> is the k-th copy of item i, the     *)
(* reserved ones first.                                                     *)
CopyUnits(its) == {u \in ItemId \X (1 .. MaxCopies) : u[2] <= its[u[1]].copies}

Reserves(st, s, u) == u[2] <= st.allocations[s][u[1]].quantity

BelongsIn(st, u, place) ==
  \/ \E s \in Slot : Reserves(st, s, u) /\ st.allocations[s][u[1]].source = place
  \/ (\A s \in Slot : ~Reserves(st, s, u)) /\ st.items[u[1]].filed = place

(* Every copy is still there, shows the same printing and belongs where it  *)
(* did, whichever rows it is in now.                                        *)
SameHomes(old, new) ==
  \E f \in Bijection(CopyUnits(old.items), CopyUnits(new.items)) :
    \A u \in CopyUnits(old.items) :
      /\ new.items[f[u][1]].printed = old.items[u[1]].printed
      /\ \A place \in Place : BelongsIn(new, f[u], place) <=> BelongsIn(old, u, place)

LEMMA SameHomesReflexive ==
  ASSUME NEW st
  PROVE  SameHomes(st, st)
<1> DEFINE f == [u \in CopyUnits(st.items) |-> u]
<1>1. f \in Bijection(CopyUnits(st.items), CopyUnits(st.items))
  BY Fun_IsBij
<1> QED BY <1>1 DEF SameHomes

LEMMA SameHomesTransitive ==
  ASSUME NEW old, NEW mid, NEW new, SameHomes(old, mid), SameHomes(mid, new)
  PROVE  SameHomes(old, new)
<1>1. PICK f \in Bijection(CopyUnits(old.items), CopyUnits(mid.items)) :
        \A u \in CopyUnits(old.items) :
          /\ mid.items[f[u][1]].printed = old.items[u[1]].printed
          /\ \A place \in Place : BelongsIn(mid, f[u], place) <=> BelongsIn(old, u, place)
  BY DEF SameHomes
<1>2. PICK g \in Bijection(CopyUnits(mid.items), CopyUnits(new.items)) :
        \A u \in CopyUnits(mid.items) :
          /\ new.items[g[u][1]].printed = mid.items[u[1]].printed
          /\ \A place \in Place : BelongsIn(new, g[u], place) <=> BelongsIn(mid, u, place)
  BY DEF SameHomes
<1> DEFINE h == [u \in CopyUnits(old.items) |-> g[f[u]]]
<1>3. h \in Bijection(CopyUnits(old.items), CopyUnits(new.items))
  BY Fun_BijTransitive
<1>4. ASSUME NEW u \in CopyUnits(old.items)
      PROVE  /\ new.items[h[u][1]].printed = old.items[u[1]].printed
             /\ \A place \in Place : BelongsIn(new, h[u], place) <=> BelongsIn(old, u, place)
  <2>1. f[u] \in CopyUnits(mid.items)
    BY Fun_BijectionProperties
  <2>2. h[u] = g[f[u]]
    OBVIOUS
  <2> HIDE DEF h
  <2> QED BY <1>1, <1>2, <2>1, <2>2
<1> HIDE DEF h
<1> QED BY <1>3, <1>4 DEF SameHomes

(* Moving copies is a renaming of units: those above `kept' of an item, as  *)
(* many as move, become the units of the row they go to, and what lay above *)
(* them closes up.                                                          *)
Renamed(amount, at, kept, u) ==
  IF u[2] <= kept[u[1]] THEN u
  ELSE IF u[2] <= kept[u[1]] + amount[u[1]] THEN <<at[u[1]], u[2] - kept[u[1]]>>
  ELSE <<u[1], u[2] - amount[u[1]]>>

LEMMA MovedUnits ==
  ASSUME NEW its \in [ItemId -> Item], NEW amount \in [ItemId -> 0 .. MaxCopies],
         NEW place \in [Moved(amount) -> Place], NEW at \in Destinations(its, amount),
         NEW kept \in [ItemId -> Nat], \A i \in ItemId : kept[i] + amount[i] <= its[i].copies
  PROVE  LET moved == MovedItems(its, amount, place, at)
             f == [u \in CopyUnits(its) |-> Renamed(amount, at, kept, u)]
         IN  /\ f \in Bijection(CopyUnits(its), CopyUnits(moved))
             /\ \A u \in CopyUnits(its) :
                  \/ /\ u[1] \in Moved(amount)
                     /\ u[2] > kept[u[1]] /\ u[2] <= kept[u[1]] + amount[u[1]]
                     /\ f[u] = <<at[u[1]], u[2] - kept[u[1]]>>
                     /\ moved[f[u][1]].printed = its[u[1]].printed
                     /\ moved[f[u][1]].filed = place[u[1]]
                  \/ /\ u[2] <= kept[u[1]] \/ u[2] > kept[u[1]] + amount[u[1]]
                     /\ its[u[1]].copies > amount[u[1]]
                     /\ f[u] = <<u[1], IF u[2] <= kept[u[1]] THEN u[2] ELSE u[2] - amount[u[1]]>>
                     /\ moved[u[1]].printed = its[u[1]].printed
                     /\ moved[u[1]].filed = its[u[1]].filed
<1> DEFINE moved == MovedItems(its, amount, place, at)
           A == CopyUnits(its)
           B == CopyUnits(moved)
           f == [u \in A |-> Renamed(amount, at, kept, u)]
           Goes(u) == u[2] > kept[u[1]] /\ u[2] <= kept[u[1]] + amount[u[1]]
<1>1. \A i \in ItemId : /\ amount[i] \in Nat /\ its[i].copies \in Nat /\ kept[i] \in Nat
                        /\ amount[i] <= MaxCopies /\ its[i].copies <= MaxCopies
                        /\ kept[i] + amount[i] <= its[i].copies
  BY TablesAssumption DEF TablesAssumption, Item
<1>2. MaxCopies \in Nat
  BY TablesAssumption DEF TablesAssumption
<1>3. /\ at \in [Moved(amount) -> ItemId]
      /\ \A i, j \in Moved(amount) : at[i] = at[j] => i = j
      /\ \A i \in ItemId : i \in Moved(amount) <=> amount[i] > 0
      /\ Moved(amount) \subseteq ItemId
  BY DEF Destinations, Moved
<1>4. ASSUME NEW i \in Moved(amount)
      PROVE  /\ moved[at[i]].copies = amount[i]
             /\ moved[at[i]].printed = its[i].printed /\ moved[at[i]].filed = place[i]
             /\ (at[i] = i /\ amount[i] = its[i].copies) \/ its[at[i]].copies = 0
  <2>1. moved[at[i]] = [copies |-> amount[i], printed |-> its[i].printed, filed |-> place[i]]
    BY MovedItemsLand
  <2>2. (at[i] = i /\ amount[i] = its[i].copies) \/ its[at[i]].copies = 0
    BY MovedItemsLand
  <2> HIDE DEF moved
  <2> QED BY <2>1, <2>2
<1>5. ASSUME NEW j \in ItemId, its[j].copies > amount[j]
      PROVE  /\ moved[j].copies = its[j].copies - amount[j]
             /\ moved[j].printed = its[j].printed /\ moved[j].filed = its[j].filed
  <2>1. moved[j] = [copies |-> its[j].copies - amount[j],
                    printed |-> its[j].printed, filed |-> its[j].filed]
    BY <1>5, MovedItemsRest
  <2> HIDE DEF moved
  <2> QED BY <2>1
<1>6. ASSUME NEW j \in ItemId, \A i \in Moved(amount) : at[i] # j
      PROVE  moved[j].copies = its[j].copies - amount[j]
  <2>1. moved[j] = [copies |-> its[j].copies - amount[j],
                    printed |-> its[j].printed, filed |-> its[j].filed]
    BY <1>6, MovedItemsFacts
  <2> HIDE DEF moved
  <2> QED BY <2>1
<1>7. \A u \in A : /\ u[1] \in ItemId /\ u[2] \in Nat /\ u[2] >= 1 /\ u = <<u[1], u[2]>>
                   /\ u[2] <= its[u[1]].copies
  BY <1>2 DEF CopyUnits
<1>8. ASSUME NEW i \in ItemId, NEW k \in Nat, k >= 1, moved[i].copies \in Nat,
             k <= moved[i].copies, moved[i].copies <= MaxCopies
      PROVE  <<i, k>> \in B
  <2>1. k \in 1 .. MaxCopies
    BY <1>2, <1>8
  <2> HIDE DEF moved
  <2> QED BY <1>8, <2>1 DEF CopyUnits
<1> HIDE DEF moved, B
<1>9. ASSUME NEW u \in A, Goes(u)
      PROVE  /\ u[1] \in Moved(amount) /\ f[u] = <<at[u[1]], u[2] - kept[u[1]]>>
             /\ moved[at[u[1]]].copies = amount[u[1]]
             /\ moved[at[u[1]]].printed = its[u[1]].printed
             /\ moved[at[u[1]]].filed = place[u[1]]
             /\ f[u] \in B
  <2>1. u[1] \in ItemId /\ u[1] \in Moved(amount) /\ at[u[1]] \in ItemId
    BY <1>1, <1>3, <1>7, <1>9
  <2>2. f[u] = <<at[u[1]], u[2] - kept[u[1]]>>
    BY <1>1, <1>7, <1>9, <2>1 DEF Renamed
  <2>3. /\ moved[at[u[1]]].copies = amount[u[1]]
        /\ moved[at[u[1]]].printed = its[u[1]].printed
        /\ moved[at[u[1]]].filed = place[u[1]]
    BY <1>4, <2>1
  <2>4. u[2] - kept[u[1]] \in Nat /\ u[2] - kept[u[1]] >= 1
        /\ u[2] - kept[u[1]] <= amount[u[1]]
    BY <1>1, <1>7, <1>9
  <2>5. <<at[u[1]], u[2] - kept[u[1]]>> \in B
    BY <1>1, <1>8, <2>1, <2>3, <2>4
  <2> QED BY <2>1, <2>2, <2>3, <2>5
<1>10. ASSUME NEW u \in A, ~Goes(u)
       PROVE  /\ its[u[1]].copies > amount[u[1]]
              /\ f[u] = <<u[1], IF u[2] <= kept[u[1]] THEN u[2] ELSE u[2] - amount[u[1]]>>
              /\ moved[u[1]].copies = its[u[1]].copies - amount[u[1]]
              /\ moved[u[1]].printed = its[u[1]].printed
              /\ moved[u[1]].filed = its[u[1]].filed
              /\ f[u] \in B
  <2>1. u[1] \in ItemId /\ its[u[1]].copies > amount[u[1]]
    BY <1>1, <1>7, <1>10
  <2>2. f[u] = <<u[1], IF u[2] <= kept[u[1]] THEN u[2] ELSE u[2] - amount[u[1]]>>
    BY <1>1, <1>7, <1>10 DEF Renamed
  <2>3. /\ moved[u[1]].copies = its[u[1]].copies - amount[u[1]]
        /\ moved[u[1]].printed = its[u[1]].printed
        /\ moved[u[1]].filed = its[u[1]].filed
    BY <1>5, <2>1
  <2>4. /\ its[u[1]].copies - amount[u[1]] \in Nat
        /\ its[u[1]].copies - amount[u[1]] <= MaxCopies
    BY <1>1, <1>2, <2>1
  <2>5. CASE u[2] <= kept[u[1]]
    <3>1. u[2] <= its[u[1]].copies - amount[u[1]]
      BY <1>1, <1>7, <2>5
    <3>2. <<u[1], u[2]>> \in B
      BY <1>7, <1>8, <2>1, <2>3, <2>4, <3>1
    <3> QED BY <2>1, <2>2, <2>3, <2>5, <3>2
  <2>6. CASE ~(u[2] <= kept[u[1]])
    <3>1. /\ u[2] - amount[u[1]] \in Nat /\ u[2] - amount[u[1]] >= 1
          /\ u[2] - amount[u[1]] <= its[u[1]].copies - amount[u[1]]
      BY <1>1, <1>7, <1>10, <2>6
    <3>2. <<u[1], u[2] - amount[u[1]]>> \in B
      BY <1>8, <2>1, <2>3, <2>4, <3>1
    <3> QED BY <2>1, <2>2, <2>3, <2>6, <3>2
  <2> QED BY <2>5, <2>6
<1>11. ASSUME NEW u \in A, NEW v \in A, f[u] = f[v]
       PROVE  u = v
  <2>1. CASE Goes(u) /\ Goes(v)
    <3>1. at[u[1]] = at[v[1]] /\ u[2] - kept[u[1]] = v[2] - kept[v[1]]
      BY <1>9, <1>11, <2>1
    <3>2. u[1] = v[1]
      BY <1>3, <1>9, <2>1, <3>1
    <3>3. u[2] = v[2]
      <4>1. /\ kept[u[1]] = kept[v[1]] /\ kept[u[1]] \in Nat
            /\ u[2] \in Nat /\ v[2] \in Nat
        BY <1>1, <1>7, <3>2
      <4>2. u[2] - kept[u[1]] = v[2] - kept[u[1]]
        BY <3>1, <4>1, Zenon
      <4> DEFINE a == u[2]
                 b == v[2]
                 k == kept[u[1]]
      <4>3. a \in Nat /\ b \in Nat /\ k \in Nat /\ a - k = b - k
        BY <4>1, <4>2
      <4> HIDE DEF a, b, k
      <4>4. a = b
        BY <4>3
      <4> QED BY <4>4 DEF a, b
    <3> QED BY <1>7, <3>2, <3>3
  <2>2. ASSUME NEW x \in A, NEW y \in A, Goes(x), ~Goes(y), f[x] = f[y]
        PROVE  FALSE
    <3>1. at[x[1]] = y[1] /\ x[1] \in Moved(amount) /\ its[y[1]].copies > amount[y[1]]
      BY <1>9, <1>10, <2>2
    <3>2. (at[x[1]] = x[1] /\ amount[x[1]] = its[x[1]].copies) \/ its[at[x[1]]].copies = 0
      BY <1>4, <3>1
    <3> QED BY <1>1, <1>7, <3>1, <3>2
  <2>3. CASE ~Goes(u) /\ ~Goes(v)
    <3>1. u[1] = v[1]
      BY <1>10, <1>11, <2>3
    <3>2. (IF u[2] <= kept[u[1]] THEN u[2] ELSE u[2] - amount[u[1]])
            = (IF v[2] <= kept[v[1]] THEN v[2] ELSE v[2] - amount[v[1]])
      BY <1>10, <1>11, <2>3
    <3>3. u[2] = v[2]
      BY <1>1, <1>7, <2>3, <3>1, <3>2
    <3> QED BY <1>7, <3>1, <3>3
  <2> QED BY <1>11, <2>1, <2>2, <2>3
<1>12. ASSUME NEW v \in B
       PROVE  \E u \in A : f[u] = v
  <2>1. /\ v[1] \in ItemId /\ v[2] \in Nat /\ v[2] >= 1 /\ v = <<v[1], v[2]>>
        /\ v[2] <= moved[v[1]].copies
    BY <1>2 DEF CopyUnits, B
  <2>2. CASE \E i \in Moved(amount) : at[i] = v[1]
    <3>1. PICK i \in Moved(amount) : at[i] = v[1]
      BY <2>2
    <3>2. v[2] <= amount[i] /\ i \in ItemId
      BY <1>3, <1>4, <2>1, <3>1
    <3> DEFINE u == <<i, v[2] + kept[i]>>
    <3>3. v[2] + kept[i] \in 1 .. MaxCopies /\ v[2] + kept[i] <= its[i].copies
      BY <1>1, <1>2, <2>1, <3>2
    <3>4. u \in A
      BY <3>2, <3>3 DEF CopyUnits
    <3>5. f[u] = <<at[i], (v[2] + kept[i]) - kept[i]>>
      <4>1. ~(v[2] + kept[i] <= kept[i]) /\ v[2] + kept[i] <= kept[i] + amount[i]
        BY <1>1, <2>1, <3>2
      <4> QED BY <3>4, <4>1 DEF Renamed
    <3>6. (v[2] + kept[i]) - kept[i] = v[2]
      BY <1>1, <2>1, <3>2
    <3> QED BY <2>1, <3>1, <3>4, <3>5, <3>6
  <2>3. CASE \A i \in Moved(amount) : at[i] # v[1]
    <3> DEFINE j == v[1]
    <3>1. v[2] <= its[j].copies - amount[j]
      BY <1>6, <2>1, <2>3
    <3>2. CASE v[2] <= kept[j]
      <4>1. v[2] \in 1 .. MaxCopies /\ v[2] <= its[j].copies
        BY <1>1, <1>2, <2>1, <3>1
      <4>2. v \in A
        BY <2>1, <4>1 DEF CopyUnits
      <4>3. f[v] = v
        BY <3>2, <4>2 DEF Renamed
      <4> QED BY <4>2, <4>3
    <3>3. CASE ~(v[2] <= kept[j])
      <4> DEFINE u == <<j, v[2] + amount[j]>>
      <4>1. v[2] + amount[j] \in 1 .. MaxCopies /\ v[2] + amount[j] <= its[j].copies
        BY <1>1, <1>2, <2>1, <3>1
      <4>2. u \in A
        BY <2>1, <4>1 DEF CopyUnits
      <4>3. ~(v[2] + amount[j] <= kept[j]) /\ ~(v[2] + amount[j] <= kept[j] + amount[j])
        BY <1>1, <2>1, <3>3
      <4>4. f[u] = <<j, (v[2] + amount[j]) - amount[j]>>
        BY <4>2, <4>3 DEF Renamed
      <4>5. (v[2] + amount[j]) - amount[j] = v[2]
        BY <1>1, <2>1
      <4> QED BY <2>1, <4>2, <4>4, <4>5
    <3> QED BY <3>2, <3>3
  <2> QED BY <2>2, <2>3
<1>13. f \in Bijection(A, B)
  <2>1. f \in [A -> B]
    BY <1>9, <1>10
  <2> HIDE DEF f, A
  <2> QED BY <1>11, <1>12, <2>1, Fun_IsBij
<1>14. ASSUME NEW u \in A
       PROVE  \/ /\ u[1] \in Moved(amount)
                 /\ u[2] > kept[u[1]] /\ u[2] <= kept[u[1]] + amount[u[1]]
                 /\ f[u] = <<at[u[1]], u[2] - kept[u[1]]>>
                 /\ moved[f[u][1]].printed = its[u[1]].printed
                 /\ moved[f[u][1]].filed = place[u[1]]
              \/ /\ u[2] <= kept[u[1]] \/ u[2] > kept[u[1]] + amount[u[1]]
                 /\ its[u[1]].copies > amount[u[1]]
                 /\ f[u] = <<u[1], IF u[2] <= kept[u[1]] THEN u[2] ELSE u[2] - amount[u[1]]>>
                 /\ moved[u[1]].printed = its[u[1]].printed
                 /\ moved[u[1]].filed = its[u[1]].filed
  <2>1. CASE Goes(u)
    <3> HIDE DEF f
    <3> QED BY <1>9, <2>1
  <2>2. CASE ~Goes(u)
    <3>1. u[2] <= kept[u[1]] \/ u[2] > kept[u[1]] + amount[u[1]]
      BY <1>1, <1>7, <2>2
    <3> HIDE DEF f
    <3> QED BY <1>10, <2>2, <3>1
  <2> QED BY <2>1, <2>2
<1> QED BY <1>13, <1>14 DEF moved, B

-----------------------------------------------------------------------------
(* Releasing and reserving.                                                 *)

(* Deck cards that give back copies they hold leave a sound snapshot.       *)
LEMMA ReleaseSound ==
  ASSUME NEW st, Sound(st), NEW S \in SUBSET Slot, NEW give \in [ItemId -> 0 .. MaxCopies],
         \A i \in ItemId : give[i] > 0 =>
           \E s \in S : /\ st.allocations[s][i].quantity > 0
                       /\ give[i] <= st.allocations[s][i].quantity,
         NEW new \in Release(st, S, give)
  PROVE  Sound(new)
<1> DEFINE its == st.items
           al == st.allocations
           home == [i \in Moved(give) |-> al[HolderIn(al, S, i)][i].source]
           left == [s \in Slot |-> [i \in ItemId |->
                      IF s \in S THEN Reduced(al[s][i], give[i]) ELSE al[s][i]]]
<1>1. PICK at \in Destinations(its, give) :
        new = [items |-> MovedItems(its, give, home, at), allocations |-> left]
  BY DEF Release
<1>2. /\ its \in [ItemId -> Item]
      /\ \A i \in ItemId : its[i].copies \in Nat /\ give[i] \in Nat
  BY SoundParts, TablesAssumption DEF TablesAssumption
<1>3. \A s \in Slot, i \in ItemId :
        /\ al[s][i].quantity \in Nat /\ al[s][i].quantity <= MaxCopies
        /\ al[s][i].source \in Place /\ al[s][i].quantity <= its[i].copies
  BY SoundParts
<1>4. home \in [Moved(give) -> Place]
  <2> SUFFICES ASSUME NEW i \in Moved(give)
               PROVE  al[HolderIn(al, S, i)][i].source \in Place
    OBVIOUS
  <2>1. i \in ItemId /\ give[i] > 0
    BY DEF Moved
  <2>2. HolderIn(al, S, i) \in S
    BY <2>1 DEF HolderIn
  <2> QED BY <1>3, <2>1, <2>2
<1>5. ASSUME NEW s \in Slot, NEW i \in ItemId
      PROVE  left[s][i] \in Row /\ left[s][i].quantity <= al[s][i].quantity
  <2>1. al[s][i] \in Row
    BY SoundParts
  <2>2. NoRow \in Row
    BY TablesAssumption DEF TablesAssumption, NoRow, Row, Place
  <2>3. CASE s \notin S \/ al[s][i].quantity <= give[i]
    <3>1. left[s][i] = al[s][i] \/ left[s][i] = NoRow
      BY <2>3 DEF Reduced
    <3> QED BY <1>3, <2>1, <2>2, <3>1 DEF NoRow
  <2>4. CASE s \in S /\ ~(al[s][i].quantity <= give[i])
    <3>1. left[s][i] = [quantity |-> al[s][i].quantity - give[i], source |-> al[s][i].source]
      BY <2>4 DEF Reduced
    <3>2. al[s][i].quantity - give[i] \in 0 .. MaxCopies
      BY <1>2, <1>3, <2>4, TablesAssumption DEF TablesAssumption
    <3> QED BY <1>2, <1>3, <3>1, <3>2 DEF Row
  <2> QED BY <2>3, <2>4
<1>6. ASSUME NEW s \in Slot, NEW i \in ItemId, left[s][i].quantity > 0
      PROVE  al[s][i].quantity > 0 /\ left[s][i].quantity + give[i] = al[s][i].quantity
  <2>1. left[s][i].quantity \in Nat /\ al[s][i].quantity > 0
    BY <1>3, <1>5, <1>6, TablesAssumption DEF TablesAssumption, Row
  <2>2. CASE give[i] = 0
    <3>1. ~(al[s][i].quantity <= 0)
      BY <1>3, <2>1
    <3>2. left[s][i].quantity = al[s][i].quantity
      BY <1>3, <2>2, <3>1 DEF Reduced
    <3> QED BY <1>3, <2>1, <2>2, <3>2
  <2>3. CASE give[i] > 0
    <3>1. PICK h \in S : al[h][i].quantity > 0
      BY <2>3
    <3>2. s = h
      BY <2>1, <3>1 DEF Sound, HeldOnce
    <3>3. left[s][i] = Reduced(al[s][i], give[i])
      BY <3>2
    <3>4. ~(al[s][i].quantity <= give[i])
      BY <1>6, <3>3 DEF Reduced, NoRow
    <3>5. left[s][i].quantity = al[s][i].quantity - give[i]
      BY <3>3, <3>4 DEF Reduced
    <3> QED BY <1>2, <1>3, <2>1, <3>5
  <2> QED BY <1>2, <2>2, <2>3
<1>7. new \in Snapshot
  <2>1. MovedItems(its, give, home, at) \in [ItemId -> Item]
    BY <1>2, <1>4, MovedItemsFacts
  <2>2. left \in [Slot -> [ItemId -> Row]]
    BY <1>5
  <2> QED BY <1>1, <2>1, <2>2 DEF Snapshot
<1>8. HeldOnce(new.allocations, Slot)
  <2> SUFFICES ASSUME NEW i \in ItemId, NEW s \in Slot, NEW t \in Slot,
                      left[s][i].quantity > 0, left[t][i].quantity > 0
               PROVE  s = t
    BY <1>1 DEF HeldOnce
  <2>1. al[s][i].quantity > 0 /\ al[t][i].quantity > 0
    BY <1>6
  <2> QED BY <2>1 DEF Sound, HeldOnce
<1>9. ASSUME NEW i \in ItemId, new.items[i].copies > 0
      PROVE  new.items[i].printed \in Printing
  BY <1>1, <1>2, <1>4, <1>9, MovedItemsShow DEF Sound
<1>10. ASSUME NEW s \in Slot, NEW i \in ItemId, new.allocations[s][i].quantity > 0
       PROVE  /\ new.allocations[s][i].quantity <= new.items[i].copies
              /\ new.items[i].filed = Unfiled
              /\ CardOf[new.items[i].printed] = CardIn(s)
  <2>1. al[s][i].quantity > 0 /\ left[s][i].quantity + give[i] = al[s][i].quantity
    BY <1>1, <1>6, <1>10
  <2>2. left[s][i].quantity > 0 /\ left[s][i].quantity \in Nat
    BY <1>1, <1>5, <1>10, TablesAssumption DEF TablesAssumption, Row
  <2>3. its[i].copies > give[i] /\ left[s][i].quantity <= its[i].copies - give[i]
    BY <1>2, <1>3, <2>1, <2>2
  <2>4. MovedItems(its, give, home, at)[i] =
          [copies |-> its[i].copies - give[i],
           printed |-> its[i].printed, filed |-> its[i].filed]
    <3> HIDE DEF home
    <3> QED BY <1>2, <1>4, <2>3, MovedItemsRest
  <2>5. its[i].filed = Unfiled /\ CardOf[its[i].printed] = CardIn(s)
    BY <2>1 DEF Sound
  <2>6. /\ new.items[i].copies = its[i].copies - give[i]
        /\ new.items[i].printed = its[i].printed /\ new.items[i].filed = its[i].filed
    <3>1. new.items = MovedItems(its, give, home, at)
      BY <1>1, Zenon
    <3> HIDE DEF home, left
    <3> QED BY <2>4, <3>1
  <2>7. new.allocations[s][i].quantity = left[s][i].quantity
    BY <1>1
  <2> QED BY <2>3, <2>5, <2>6, <2>7
<1> QED BY <1>7, <1>8, <1>9, <1>10 DEF Sound

(* What is given back belongs where its allocation took it from: it is free *)
(* and filed there.                                                         *)
LEMMA ReleaseHomes ==
  ASSUME NEW st, Sound(st), NEW S \in SUBSET Slot, NEW give \in [ItemId -> 0 .. MaxCopies],
         \A i \in ItemId : give[i] > 0 =>
           \E s \in S : /\ st.allocations[s][i].quantity > 0
                       /\ give[i] <= st.allocations[s][i].quantity,
         NEW new \in Release(st, S, give)
  PROVE  SameHomes(st, new)
<1> DEFINE its == st.items
           al == st.allocations
           home == [i \in Moved(give) |-> al[HolderIn(al, S, i)][i].source]
           left == [s \in Slot |-> [i \in ItemId |->
                      IF s \in S THEN Reduced(al[s][i], give[i]) ELSE al[s][i]]]
           none == [i \in ItemId |-> 0]
<1>1. PICK at \in Destinations(its, give) :
        new = [items |-> MovedItems(its, give, home, at), allocations |-> left]
  BY DEF Release
<1> DEFINE moved == MovedItems(its, give, home, at)
           f == [u \in CopyUnits(its) |-> Renamed(give, at, none, u)]
<1>2. /\ its \in [ItemId -> Item]
      /\ \A i \in ItemId : its[i].copies \in Nat /\ give[i] \in Nat /\ give[i] <= its[i].copies
      /\ MaxCopies \in Nat
  BY SoundParts, TablesAssumption DEF TablesAssumption, Destinations
<1>3. \A s \in Slot, i \in ItemId :
        /\ al[s][i].quantity \in Nat /\ al[s][i].source \in Place
        /\ al[s][i].quantity <= its[i].copies
  BY SoundParts
<1>4. \A i \in ItemId : \A s, t \in Slot :
        al[s][i].quantity > 0 /\ al[t][i].quantity > 0 => s = t
  BY DEF Sound, HeldOnce
<1>5. ASSUME NEW i \in Moved(give)
      PROVE  /\ i \in ItemId /\ give[i] > 0
             /\ HolderIn(al, S, i) \in S
             /\ give[i] <= al[HolderIn(al, S, i)][i].quantity
             /\ \A s \in Slot : al[s][i].quantity > 0 => s = HolderIn(al, S, i)
  <2>1. i \in ItemId /\ give[i] > 0
    BY DEF Moved
  <2>2. PICK h \in S : al[h][i].quantity > 0 /\ give[i] <= al[h][i].quantity
    BY <2>1
  <2>3. HolderIn(al, S, i) \in S /\ al[HolderIn(al, S, i)][i].quantity > 0
    BY <2>2 DEF HolderIn
  <2>4. HolderIn(al, S, i) = h
    BY <1>4, <2>1, <2>2, <2>3
  <2>5. \A s \in Slot : al[s][i].quantity > 0 => s = h
    BY <1>4, <2>1, <2>2
  <2> QED BY <2>1, <2>2, <2>4, <2>5
<1>6. ASSUME NEW s \in Slot, NEW i \in ItemId
      PROVE  /\ left[s][i].quantity = Monus(al[s][i].quantity, give[i])
             /\ left[s][i].quantity > 0 => left[s][i].source = al[s][i].source
  <2>1. s \in S \/ al[s][i].quantity = 0 \/ give[i] = 0
    <3>1. CASE give[i] > 0
      <4>1. i \in Moved(give)
        BY <3>1 DEF Moved
      <4> QED BY <1>3, <1>5, <4>1
    <3> QED BY <1>2, <3>1
  <2>2. CASE s \in S /\ al[s][i].quantity <= give[i]
    <3>1. left[s][i] = NoRow
      BY <2>2 DEF Reduced
    <3>2. left[s][i].quantity = 0
      BY <3>1 DEF NoRow
    <3> QED BY <2>2, <3>2 DEF Monus
  <2>3. CASE s \in S /\ ~(al[s][i].quantity <= give[i])
    <3>1. left[s][i] = [quantity |-> al[s][i].quantity - give[i], source |-> al[s][i].source]
      BY <2>3 DEF Reduced
    <3> HIDE DEF left
    <3> QED BY <2>3, <3>1 DEF Monus
  <2>4. CASE s \notin S
    <3>1. left[s][i] = al[s][i]
      BY <2>4
    <3>2. Monus(al[s][i].quantity, give[i]) = al[s][i].quantity
      BY <1>2, <1>3, <2>1, <2>4 DEF Monus
    <3> QED BY <3>1, <3>2
  <2> QED BY <2>2, <2>3, <2>4
<1>7. home \in [Moved(give) -> Place]
  <2>1. \A i \in Moved(give) : al[HolderIn(al, S, i)][i].source \in Place
    BY <1>3, <1>5
  <2> QED BY <2>1
<1>8. none \in [ItemId -> Nat] /\ \A i \in ItemId : none[i] = 0 /\ none[i] + give[i] <= its[i].copies
  BY <1>2
<1> HIDE DEF its, al, left, none
<1>9. \A i \in Moved(give) : home[i] = al[HolderIn(al, S, i)][i].source
  OBVIOUS
<1>10. /\ f \in Bijection(CopyUnits(its), CopyUnits(moved))
       /\ \A u \in CopyUnits(its) :
            \/ /\ u[1] \in Moved(give)
               /\ u[2] > none[u[1]] /\ u[2] <= none[u[1]] + give[u[1]]
               /\ f[u] = <<at[u[1]], u[2] - none[u[1]]>>
               /\ moved[f[u][1]].printed = its[u[1]].printed
               /\ moved[f[u][1]].filed = home[u[1]]
            \/ /\ u[2] <= none[u[1]] \/ u[2] > none[u[1]] + give[u[1]]
               /\ its[u[1]].copies > give[u[1]]
               /\ f[u] = <<u[1], IF u[2] <= none[u[1]] THEN u[2] ELSE u[2] - give[u[1]]>>
               /\ moved[u[1]].printed = its[u[1]].printed
               /\ moved[u[1]].filed = its[u[1]].filed
  <2> HIDE DEF home
  <2> QED BY <1>2, <1>7, <1>8, MovedUnits
<1>11. \A i \in Moved(give) : /\ at[i] \in ItemId
                              /\ (at[i] = i /\ give[i] = its[i].copies) \/ its[at[i]].copies = 0
  <2>1. at \in [Moved(give) -> ItemId]
    BY DEF Destinations
  <2> HIDE DEF home
  <2> QED BY <1>2, <1>7, <2>1, MovedItemsLand
<1>12. new.items = moved /\ new.allocations = left /\ st.items = its /\ st.allocations = al
  BY <1>1 DEF its, al
<1> HIDE DEF moved, home, f
<1>13. ASSUME NEW u \in CopyUnits(its)
       PROVE  /\ new.items[f[u][1]].printed = st.items[u[1]].printed
              /\ \A place \in Place : BelongsIn(new, f[u], place) <=> BelongsIn(st, u, place)
  <2>1. u[1] \in ItemId /\ u[2] \in Nat /\ u[2] >= 1 /\ u[2] <= its[u[1]].copies /\ none[u[1]] = 0
    BY <1>2, <1>8 DEF CopyUnits
  <2>2. CASE /\ u[1] \in Moved(give) /\ u[2] <= none[u[1]] + give[u[1]]
             /\ f[u] = <<at[u[1]], u[2] - none[u[1]]>>
             /\ moved[f[u][1]].printed = its[u[1]].printed
             /\ moved[f[u][1]].filed = home[u[1]]
    <3> DEFINE h == HolderIn(al, S, u[1])
    <3>1. f[u][1] = at[u[1]] /\ f[u][2] = u[2] /\ u[2] <= give[u[1]]
      BY <1>2, <2>1, <2>2
    <3>2. h \in Slot /\ Reserves(st, h, u) /\ home[u[1]] = al[h][u[1]].source
      BY <1>2, <1>3, <1>5, <1>9, <1>12, <2>1, <2>2, <3>1 DEF Reserves
    <3>3. \A s \in Slot : Reserves(st, s, u) => s = h
      BY <1>3, <1>5, <1>12, <2>1, <2>2 DEF Reserves
    <3>4. ASSUME NEW s \in Slot PROVE ~Reserves(new, s, f[u])
      <4>1. left[s][at[u[1]]].quantity = Monus(al[s][at[u[1]]].quantity, give[at[u[1]]])
        BY <1>6, <1>11, <2>2
      <4>2. Monus(al[s][at[u[1]]].quantity, give[at[u[1]]]) = 0
        BY <1>2, <1>3, <1>11, <2>2 DEF Monus
      <4> QED BY <1>12, <2>1, <3>1, <4>1, <4>2 DEF Reserves
    <3> HIDE DEF h
    <3>5. ASSUME NEW place \in Place
          PROVE  BelongsIn(new, f[u], place) <=> BelongsIn(st, u, place)
      <4>1. BelongsIn(new, f[u], place) <=> home[u[1]] = place
        BY <1>12, <2>2, <3>4 DEF BelongsIn
      <4>2. BelongsIn(st, u, place) <=> al[h][u[1]].source = place
        BY <1>12, <3>2, <3>3 DEF BelongsIn
      <4> QED BY <3>2, <4>1, <4>2
    <3> QED BY <1>12, <2>2, <3>5
  <2>3. CASE /\ u[2] <= none[u[1]] \/ u[2] > none[u[1]] + give[u[1]]
             /\ f[u] = <<u[1], IF u[2] <= none[u[1]] THEN u[2] ELSE u[2] - give[u[1]]>>
             /\ moved[u[1]].printed = its[u[1]].printed
             /\ moved[u[1]].filed = its[u[1]].filed
    <3>1. f[u][1] = u[1] /\ f[u][2] = u[2] - give[u[1]] /\ u[2] > give[u[1]]
      BY <1>2, <2>1, <2>3
    <3>2. ASSUME NEW s \in Slot
          PROVE  /\ Reserves(new, s, f[u]) <=> Reserves(st, s, u)
                 /\ Reserves(st, s, u) => left[s][u[1]].source = al[s][u[1]].source
      <4>1. /\ left[s][u[1]].quantity = Monus(al[s][u[1]].quantity, give[u[1]])
            /\ left[s][u[1]].quantity > 0 => left[s][u[1]].source = al[s][u[1]].source
        BY <1>6, <2>1
      <4>2. Reserves(new, s, f[u]) <=> u[2] - give[u[1]] <= Monus(al[s][u[1]].quantity, give[u[1]])
        BY <1>12, <3>1, <4>1 DEF Reserves
      <4>3. Reserves(st, s, u) <=> u[2] <= al[s][u[1]].quantity
        BY <1>12 DEF Reserves
      <4>4. al[s][u[1]].quantity \in Nat /\ give[u[1]] \in Nat
        BY <1>2, <1>3, <2>1
      <4> QED BY <2>1, <3>1, <4>1, <4>2, <4>3, <4>4 DEF Monus
    <3>3. ASSUME NEW place \in Place
          PROVE  BelongsIn(new, f[u], place) <=> BelongsIn(st, u, place)
      BY <1>12, <2>3, <3>1, <3>2 DEF BelongsIn
    <3> QED BY <1>12, <2>3, <3>1, <3>3
  <2> QED BY <1>10, <2>2, <2>3
<1> QED BY <1>10, <1>12, <1>13 DEF SameHomes

(* Copies that nobody holds may be reserved: `take' must leave what each    *)
(* deck card holds of an item, and `to' must want the item's card.          *)
LEMMA ReserveSound ==
  ASSUME NEW st, Sound(st), NEW to, NEW take \in [ItemId -> 0 .. MaxCopies],
         \A i \in ItemId : take[i] > 0 =>
           /\ CardOf[st.items[i].printed] = CardIn(to[i])
           /\ \A s \in Slot : st.allocations[s][i].quantity + take[i] <= st.items[i].copies,
         NEW new \in Reserve(st, to, take)
  PROVE  Sound(new)
<1> DEFINE its == st.items
           al == st.allocations
           nowhere == [i \in Moved(take) |-> Unfiled]
<1>1. PICK at \in Destinations(its, take) :
        new = [items |-> MovedItems(its, take, nowhere, at),
               allocations |-> [s \in Slot |-> [j \in ItemId |->
                 IF \E i \in Moved(take) : at[i] = j /\ to[i] = s
                 THEN LET i == CHOOSE i \in Moved(take) : at[i] = j
                      IN  Grown(al[s][j], take[i], its[i].filed)
                 ELSE al[s][j]]]]
  BY DEF Reserve
<1> DEFINE held == new.allocations
<1>2. /\ its \in [ItemId -> Item]
      /\ al \in [Slot -> [ItemId -> Row]]
      /\ \A i \in ItemId : its[i].copies \in Nat /\ take[i] \in Nat /\ take[i] <= MaxCopies
  BY SoundParts, TablesAssumption DEF TablesAssumption
<1>3. \A s \in Slot, i \in ItemId :
        al[s][i].quantity \in Nat /\ al[s][i].quantity <= its[i].copies
  BY SoundParts
<1>4. nowhere \in [Moved(take) -> Place]
  BY DEF Place
<1>5. /\ at \in [Moved(take) -> ItemId]
      /\ \A i, k \in Moved(take) : at[i] = at[k] => i = k
      /\ \A i \in Moved(take) : i \in ItemId /\ take[i] > 0
  BY DEF Destinations, Moved
<1>6. ASSUME NEW i \in Moved(take), NEW s \in Slot
      PROVE  al[s][at[i]].quantity = 0
  <2>1. \/ at[i] = i /\ take[i] = its[i].copies
        \/ its[at[i]].copies = 0
    <3> HIDE DEF nowhere, its
    <3> QED BY <1>2, <1>4, MovedItemsLand
  <2>2. CASE at[i] = i /\ take[i] = its[i].copies
    <3>1. al[s][i].quantity + take[i] <= its[i].copies
      BY <1>5
    <3> QED BY <1>2, <1>3, <1>5, <2>2, <3>1
  <2>3. CASE its[at[i]].copies = 0
    BY <1>3, <1>5, <2>3
  <2> QED BY <2>1, <2>2, <2>3
<1>7. ASSUME NEW s \in Slot, NEW j \in ItemId,
             ~ \E i \in Moved(take) : at[i] = j /\ to[i] = s
      PROVE  held[s][j] = al[s][j]
  BY <1>1, <1>7
<1>8. ASSUME NEW s \in Slot, NEW i \in Moved(take), to[i] = s
      PROVE  held[s][at[i]] = [quantity |-> take[i], source |-> its[i].filed]
  <2>1. (CHOOSE k \in Moved(take) : at[k] = at[i]) = i
    BY <1>5
  <2>2. held[s][at[i]] = Grown(al[s][at[i]], take[i], its[i].filed)
    BY <1>1, <1>5, <1>8, <2>1
  <2>3. al[s][at[i]].quantity = 0
    BY <1>6
  <2> QED BY <2>2, <2>3 DEF Grown
<1>9. new \in Snapshot
  <2>1. MovedItems(its, take, nowhere, at) \in [ItemId -> Item]
    BY <1>2, <1>4, MovedItemsFacts
  <2>2. ASSUME NEW s \in Slot, NEW j \in ItemId
        PROVE  held[s][j] \in Row
    <3>1. CASE \E i \in Moved(take) : at[i] = j /\ to[i] = s
      <4>1. PICK i \in Moved(take) : at[i] = j /\ to[i] = s
        BY <3>1
      <4>2. held[s][j] = [quantity |-> take[i], source |-> its[i].filed]
        BY <1>8, <4>1
      <4>3. take[i] \in 0 .. MaxCopies /\ its[i].filed \in Place
        BY <1>2, <1>5 DEF Item
      <4> QED BY <4>2, <4>3 DEF Row
    <3>2. CASE ~ \E i \in Moved(take) : at[i] = j /\ to[i] = s
      BY <1>2, <1>7, <3>2
    <3> QED BY <3>1, <3>2
  <2>3. held \in [Slot -> [ItemId -> Row]]
    <3>1. \A s \in Slot : held[s] \in [ItemId -> Row]
      <4> SUFFICES ASSUME NEW s \in Slot
                   PROVE  held[s] \in [ItemId -> Row]
        OBVIOUS
      <4>1. held[s] = [j \in ItemId |-> held[s][j]]
        BY <1>1
      <4> HIDE DEF held
      <4> QED BY <2>2, <4>1
    <3>2. held = [s \in Slot |-> held[s]]
      BY <1>1
    <3> HIDE DEF held
    <3> QED BY <3>1, <3>2
  <2> QED BY <1>1, <2>1, <2>3 DEF Snapshot
(* What the new rows hold: a target row all of its item, others what they   *)
(* held before.                                                             *)
<1>10. ASSUME NEW s \in Slot, NEW i \in Moved(take), held[s][at[i]].quantity > 0
       PROVE  s = to[i]
  <2>1. CASE \E k \in Moved(take) : at[k] = at[i] /\ to[k] = s
    BY <1>5, <2>1
  <2>2. CASE ~ \E k \in Moved(take) : at[k] = at[i] /\ to[k] = s
    <3>1. held[s][at[i]] = al[s][at[i]]
      BY <1>5, <1>7, <2>2
    <3>2. al[s][at[i]].quantity = 0
      BY <1>6
    <3> QED BY <1>10, <3>1, <3>2
  <2> QED BY <2>1, <2>2
<1>11. HeldOnce(held, Slot)
  <2> SUFFICES ASSUME NEW j \in ItemId, NEW s \in Slot, NEW t \in Slot,
                      held[s][j].quantity > 0, held[t][j].quantity > 0
               PROVE  s = t
    BY DEF HeldOnce
  <2>1. CASE \E i \in Moved(take) : at[i] = j
    BY <1>10, <2>1
  <2>2. CASE ~ \E i \in Moved(take) : at[i] = j
    <3>1. held[s][j] = al[s][j] /\ held[t][j] = al[t][j]
      BY <1>7, <2>2
    <3>2. al[s][j].quantity > 0 /\ al[t][j].quantity > 0
      BY <3>1
    <3> QED BY <3>2 DEF Sound, HeldOnce
  <2> QED BY <2>1, <2>2
<1>12. ASSUME NEW i \in ItemId, new.items[i].copies > 0
       PROVE  new.items[i].printed \in Printing
  BY <1>1, <1>2, <1>4, <1>12, MovedItemsShow DEF Sound
<1>13. ASSUME NEW s \in Slot, NEW j \in ItemId, held[s][j].quantity > 0
       PROVE  /\ held[s][j].quantity <= new.items[j].copies
              /\ new.items[j].filed = Unfiled
              /\ CardOf[new.items[j].printed] = CardIn(s)
  <2>1. CASE \E i \in Moved(take) : at[i] = j
    <3>1. PICK i \in Moved(take) : at[i] = j
      BY <2>1
    <3>2. s = to[i]
      BY <1>10, <1>13, <3>1
    <3>3. held[s][j].quantity = take[i]
      <4>1. held[s][at[i]] = [quantity |-> take[i], source |-> its[i].filed]
        BY <1>8, <3>2
      <4> HIDE DEF held, its
      <4> QED BY <3>1, <4>1
    <3>4. MovedItems(its, take, nowhere, at)[at[i]] =
            [copies |-> take[i], printed |-> its[i].printed, filed |-> nowhere[i]]
      <4> HIDE DEF nowhere, its
      <4> QED BY <1>2, <1>4, MovedItemsLand
    <3>5. /\ new.items[j].copies = take[i] /\ new.items[j].printed = its[i].printed
          /\ new.items[j].filed = Unfiled
      BY <1>1, <3>1, <3>4
    <3>6. CardOf[its[i].printed] = CardIn(s)
      BY <1>5, <3>2
    <3> QED BY <1>2, <1>5, <3>3, <3>5, <3>6
  <2>2. CASE ~ \E i \in Moved(take) : at[i] = j
    <3>1. held[s][j] = al[s][j] /\ al[s][j].quantity > 0
      BY <1>7, <1>13, <2>2
    <3>2. al[s][j].quantity + take[j] <= its[j].copies
      BY <1>2, <1>3
    <3>3. its[j].copies > take[j]
      BY <1>2, <1>3, <3>1, <3>2
    <3>4. MovedItems(its, take, nowhere, at)[j] =
            [copies |-> its[j].copies - take[j],
             printed |-> its[j].printed, filed |-> its[j].filed]
      <4> HIDE DEF nowhere
      <4> QED BY <1>2, <1>4, <3>3, MovedItemsRest
    <3>5. /\ new.items[j].copies = its[j].copies - take[j]
          /\ new.items[j].printed = its[j].printed /\ new.items[j].filed = its[j].filed
      BY <1>1, <3>4
    <3>6. its[j].filed = Unfiled /\ CardOf[its[j].printed] = CardIn(s)
      BY <3>1 DEF Sound
    <3> QED BY <1>2, <1>3, <3>1, <3>2, <3>5, <3>6
  <2> QED BY <2>1, <2>2
<1> QED BY <1>9, <1>11, <1>12, <1>13 DEF Sound

(* What is reserved belongs where it was free: its new allocation remembers *)
(* the place.                                                               *)
LEMMA ReserveHomes ==
  ASSUME NEW st, Sound(st), NEW to, NEW take \in [ItemId -> 0 .. MaxCopies],
         \A i \in ItemId : take[i] > 0 =>
           /\ to[i] \in Slot
           /\ \A s \in Slot : st.allocations[s][i].quantity + take[i] <= st.items[i].copies,
         NEW new \in Reserve(st, to, take)
  PROVE  SameHomes(st, new)
<1> DEFINE its == st.items
           al == st.allocations
           nowhere == [i \in Moved(take) |-> Unfiled]
           held == new.allocations
<1>1. PICK at \in Destinations(its, take) :
        new = [items |-> MovedItems(its, take, nowhere, at),
               allocations |-> [s \in Slot |-> [j \in ItemId |->
                 IF \E i \in Moved(take) : at[i] = j /\ to[i] = s
                 THEN LET i == CHOOSE i \in Moved(take) : at[i] = j
                      IN  Grown(al[s][j], take[i], its[i].filed)
                 ELSE al[s][j]]]]
  BY DEF Reserve
<1> DEFINE moved == MovedItems(its, take, nowhere, at)
           kept == [i \in ItemId |-> its[i].copies - take[i]]
           f == [u \in CopyUnits(its) |-> Renamed(take, at, kept, u)]
<1>2. /\ its \in [ItemId -> Item]
      /\ \A i \in ItemId : its[i].copies \in Nat /\ take[i] \in Nat /\ take[i] <= its[i].copies
      /\ MaxCopies \in Nat
  BY SoundParts, TablesAssumption DEF TablesAssumption, Destinations
<1>3. \A s \in Slot, i \in ItemId :
        al[s][i].quantity \in Nat /\ al[s][i].quantity <= its[i].copies
  BY SoundParts
<1>4. nowhere \in [Moved(take) -> Place]
  BY DEF Place
<1>5. /\ at \in [Moved(take) -> ItemId]
      /\ \A i, k \in Moved(take) : at[i] = at[k] => i = k
      /\ \A i \in Moved(take) :
           /\ i \in ItemId /\ take[i] > 0 /\ to[i] \in Slot
           /\ \A s \in Slot : al[s][i].quantity + take[i] <= its[i].copies
  BY DEF Destinations, Moved
<1>6. ASSUME NEW s \in Slot, NEW j \in ItemId,
             ~ \E i \in Moved(take) : at[i] = j /\ to[i] = s
      PROVE  held[s][j] = al[s][j]
  BY <1>1, <1>6
<1>7. ASSUME NEW i \in Moved(take)
      PROVE  /\ (at[i] = i /\ take[i] = its[i].copies) \/ its[at[i]].copies = 0
             /\ \A s \in Slot : al[s][at[i]].quantity = 0
  <2>1. (at[i] = i /\ take[i] = its[i].copies) \/ its[at[i]].copies = 0
    <3> HIDE DEF nowhere, its
    <3> QED BY <1>2, <1>4, MovedItemsLand
  <2>2. ASSUME NEW s \in Slot PROVE al[s][at[i]].quantity = 0
    <3>1. al[s][i].quantity + take[i] <= its[i].copies
      BY <1>5
    <3>2. al[s][i].quantity \in Nat /\ al[s][at[i]].quantity \in Nat
          /\ al[s][at[i]].quantity <= its[at[i]].copies
      BY <1>3, <1>5
    <3> QED BY <1>2, <1>5, <2>1, <3>1, <3>2
  <2> QED BY <2>1, <2>2
<1>8. ASSUME NEW i \in Moved(take)
      PROVE  held[to[i]][at[i]].quantity = take[i] /\ held[to[i]][at[i]].source = its[i].filed
  <2>1. (CHOOSE k \in Moved(take) : at[k] = at[i]) = i
    BY <1>5
  <2>2. held[to[i]][at[i]] = Grown(al[to[i]][at[i]], take[i], its[i].filed)
    BY <1>1, <1>5, <2>1
  <2>3. held[to[i]][at[i]] = [quantity |-> take[i], source |-> its[i].filed]
    BY <1>5, <1>7, <2>2 DEF Grown
  <2> HIDE DEF held
  <2> QED BY <2>3
<1>9. kept \in [ItemId -> Nat] /\ \A i \in ItemId : kept[i] = its[i].copies - take[i]
                                /\ kept[i] + take[i] <= its[i].copies
  BY <1>2
<1> HIDE DEF its, al, held, kept
<1>10. /\ f \in Bijection(CopyUnits(its), CopyUnits(moved))
       /\ \A u \in CopyUnits(its) :
            \/ /\ u[1] \in Moved(take)
               /\ u[2] > kept[u[1]] /\ u[2] <= kept[u[1]] + take[u[1]]
               /\ f[u] = <<at[u[1]], u[2] - kept[u[1]]>>
               /\ moved[f[u][1]].printed = its[u[1]].printed
               /\ moved[f[u][1]].filed = nowhere[u[1]]
            \/ /\ u[2] <= kept[u[1]] \/ u[2] > kept[u[1]] + take[u[1]]
               /\ its[u[1]].copies > take[u[1]]
               /\ f[u] = <<u[1], IF u[2] <= kept[u[1]] THEN u[2] ELSE u[2] - take[u[1]]>>
               /\ moved[u[1]].printed = its[u[1]].printed
               /\ moved[u[1]].filed = its[u[1]].filed
  <2> HIDE DEF nowhere
  <2> QED BY <1>2, <1>4, <1>9, MovedUnits
<1>11. new.items = moved /\ new.allocations = held /\ st.items = its /\ st.allocations = al
  BY <1>1 DEF its, al, held
<1> HIDE DEF moved, nowhere, f
<1>12. ASSUME NEW u \in CopyUnits(its)
       PROVE  /\ new.items[f[u][1]].printed = st.items[u[1]].printed
              /\ \A place \in Place : BelongsIn(new, f[u], place) <=> BelongsIn(st, u, place)
  <2>1. u[1] \in ItemId /\ u[2] \in Nat /\ u[2] >= 1 /\ u[2] <= its[u[1]].copies
        /\ kept[u[1]] = its[u[1]].copies - take[u[1]]
    BY <1>2, <1>9 DEF CopyUnits
  <2>2. CASE /\ u[1] \in Moved(take) /\ u[2] > kept[u[1]]
             /\ f[u] = <<at[u[1]], u[2] - kept[u[1]]>>
             /\ moved[f[u][1]].printed = its[u[1]].printed
    <3>1. /\ f[u][1] = at[u[1]] /\ f[u][2] = u[2] - kept[u[1]] /\ f[u][2] >= 1
          /\ f[u][2] \in Nat /\ f[u][2] <= take[u[1]]
      BY <1>2, <2>1, <2>2
    <3>2. \A s \in Slot : ~Reserves(st, s, u)
      <4> SUFFICES ASSUME NEW s \in Slot PROVE ~(u[2] <= al[s][u[1]].quantity)
        BY <1>11 DEF Reserves
      <4>1. al[s][u[1]].quantity + take[u[1]] <= its[u[1]].copies /\ al[s][u[1]].quantity \in Nat
        BY <1>3, <1>5, <2>1, <2>2
      <4> QED BY <1>2, <2>1, <2>2, <4>1
    <3>3. to[u[1]] \in Slot /\ Reserves(new, to[u[1]], f[u])
      BY <1>5, <1>8, <1>11, <2>2, <3>1 DEF Reserves
    <3>4. ASSUME NEW s \in Slot, Reserves(new, s, f[u]) PROVE s = to[u[1]]
      <4>1. ASSUME s # to[u[1]] PROVE FALSE
        <5>1. ~ \E i \in Moved(take) : at[i] = at[u[1]] /\ to[i] = s
          BY <1>5, <2>2, <4>1
        <5>2. held[s][at[u[1]]] = al[s][at[u[1]]]
          BY <1>5, <1>6, <2>2, <5>1
        <5>3. held[s][at[u[1]]].quantity = 0
          BY <1>7, <2>2, <5>2
        <5> QED BY <1>11, <3>1, <3>4, <5>3 DEF Reserves
      <4> QED BY <4>1
    <3>5. held[to[u[1]]][at[u[1]]].source = its[u[1]].filed
      BY <1>8, <2>2
    <3>6. ASSUME NEW place \in Place
          PROVE  BelongsIn(new, f[u], place) <=> BelongsIn(st, u, place)
      <4>1. BelongsIn(new, f[u], place) <=> its[u[1]].filed = place
        BY <1>11, <3>1, <3>3, <3>4, <3>5 DEF BelongsIn
      <4>2. BelongsIn(st, u, place) <=> its[u[1]].filed = place
        BY <1>11, <3>2 DEF BelongsIn
      <4> QED BY <4>1, <4>2
    <3> QED BY <1>11, <2>2, <3>6
  <2>3. CASE /\ u[2] <= kept[u[1]] \/ u[2] > kept[u[1]] + take[u[1]]
             /\ its[u[1]].copies > take[u[1]]
             /\ f[u] = <<u[1], IF u[2] <= kept[u[1]] THEN u[2] ELSE u[2] - take[u[1]]>>
             /\ moved[u[1]].printed = its[u[1]].printed
             /\ moved[u[1]].filed = its[u[1]].filed
    <3>1. f[u] = <<u[1], u[2]>> /\ f[u][1] = u[1] /\ f[u][2] = u[2]
      BY <1>2, <2>1, <2>3
    <3>2. ~ \E i \in Moved(take) : at[i] = u[1]
      BY <1>2, <1>7, <2>1, <2>3
    <3>3. \A s \in Slot : held[s][u[1]] = al[s][u[1]]
      BY <1>6, <2>1, <3>2
    <3>4. ASSUME NEW place \in Place
          PROVE  BelongsIn(new, f[u], place) <=> BelongsIn(st, u, place)
      BY <1>11, <2>3, <3>1, <3>3 DEF BelongsIn, Reserves
    <3> QED BY <1>11, <2>3, <3>1, <3>4
  <2> QED BY <1>10, <2>2, <2>3
<1> QED BY <1>10, <1>11, <1>12 DEF SameHomes

-----------------------------------------------------------------------------
(* The moves built from them.                                               *)

(* What a card may take of a candidate is free: with it, no deck card's     *)
(* share outgrows the item.                                                 *)
LEMMA AvailableFree ==
  ASSUME NEW st, Sound(st), NEW lists, NEW c \in Card, NEW i \in ItemId,
         Candidate(st, lists, c, i), NEW n \in Nat, n <= Available(st, c, i),
         NEW s \in Slot
  PROVE  st.allocations[s][i].quantity + n <= st.items[i].copies
<1> DEFINE promised == Promised(st.allocations, SlotsOf(c), i)
<1>1. /\ st.items[i].copies \in Nat /\ st.allocations[s][i].quantity \in Nat
      /\ st.allocations[s][i].quantity <= st.items[i].copies
  BY SoundParts
<1>2. CASE st.allocations[s][i].quantity = 0
  <2>1. n <= st.items[i].copies
    <3>1. CASE st.items[i].copies <= promised
      BY <1>1, <3>1 DEF Available, Monus
    <3>2. CASE ~(st.items[i].copies <= promised)
      <4>1. n <= st.items[i].copies - promised
        BY <3>2 DEF Available, Monus
      <4>2. promised \in Nat
        <5>1. SlotsOf(c) \in SUBSET Slot
          BY DEF SlotsOf
        <5>2. st.allocations \in [Slot -> [ItemId -> Row]]
          BY SoundParts
        <5>3. PromisedUnits(st.allocations, SlotsOf(c), i) \in SUBSET (Slot \X (1 .. MaxCopies))
          BY <5>1 DEF PromisedUnits
        <5>4. IsFiniteSet(Slot \X (1 .. MaxCopies))
          <6>1. IsFiniteSet(1 .. MaxCopies)
            BY FS_Interval, TablesAssumption DEF TablesAssumption
          <6> QED BY <6>1, SlotFinite, FS_Product
        <5>5. IsFiniteSet(PromisedUnits(st.allocations, SlotsOf(c), i))
          BY <5>3, <5>4, FS_Subset
        <5> QED BY <5>5, FS_CardinalityType DEF Promised
      <4> HIDE DEF promised
      <4> QED BY <1>1, <4>1, <4>2
    <3> QED BY <3>1, <3>2
  <2> QED BY <1>1, <1>2, <2>1
<1>3. CASE st.allocations[s][i].quantity > 0
  <2>1. CardOf[st.items[i].printed] = CardIn(s)
    BY <1>3 DEF Sound
  <2>2. s \in SlotsOf(c) /\ SlotsOf(c) \in SUBSET Slot
    BY <2>1 DEF SlotsOf, Candidate
  <2>3. st.allocations \in [Slot -> [ItemId -> Row]]
    BY SoundParts
  <2>4. promised \in Nat /\ st.allocations[s][i].quantity <= promised
    BY <2>2, <2>3, HeldIsPromised
  <2> HIDE DEF promised
  <2>5. CASE st.items[i].copies <= promised
    <3>1. n <= 0
      BY <2>5 DEF Available, Monus, promised
    <3> QED BY <1>1, <3>1
  <2>6. CASE ~(st.items[i].copies <= promised)
    <3>1. n <= st.items[i].copies - promised
      BY <2>6 DEF Available, Monus, promised
    <3> QED BY <1>1, <2>4, <3>1
  <2> QED BY <2>5, <2>6
<1> QED BY <1>1, <1>2, <1>3

(* Giving back everything S holds.                                          *)
LEMMA ClearSound ==
  ASSUME NEW st, Sound(st), NEW S \in SUBSET Slot, NEW new \in Clear(st, S)
  PROVE  Sound(new) /\ SameHomes(st, new)
<1> DEFINE give == [i \in ItemId |-> HeldIn(st.allocations, S, i)]
<1>1. new \in Release(st, S, give)
  BY DEF Clear
<1>2. \A s \in Slot, i \in ItemId : st.allocations[s][i].quantity \in 0 .. MaxCopies
  BY SoundParts, TablesAssumption DEF TablesAssumption
<1>3. ASSUME NEW i \in ItemId
      PROVE  \/ give[i] = 0
             \/ \E s \in S : /\ st.allocations[s][i].quantity > 0
                            /\ give[i] = st.allocations[s][i].quantity
  BY DEF HeldIn, HolderIn
<1>4. give \in [ItemId -> 0 .. MaxCopies]
  <2>1. ASSUME NEW i \in ItemId
        PROVE  give[i] \in 0 .. MaxCopies
    <3> HIDE DEF give
    <3> QED BY <1>2, <1>3, TablesAssumption DEF TablesAssumption
  <2>2. give = [i \in ItemId |-> give[i]]
    OBVIOUS
  <2> HIDE DEF give
  <2> QED BY <2>1, <2>2
<1>5. \A i \in ItemId : give[i] > 0 =>
        \E s \in S : /\ st.allocations[s][i].quantity > 0
                    /\ give[i] <= st.allocations[s][i].quantity
  <2> HIDE DEF give
  <2> QED BY <1>2, <1>3, TablesAssumption DEF TablesAssumption
<1> HIDE DEF give
<1> QED BY <1>1, <1>4, <1>5, ReleaseSound, ReleaseHomes

(* Giving back what is above the required number.                           *)
LEMMA TrimSound ==
  ASSUME NEW st, Sound(st), NEW s \in Slot, NEW required, NEW new \in Trim(st, s, required)
  PROVE  Sound(new) /\ SameHomes(st, new)
<1>1. PICK give \in [ItemId -> 0 .. MaxCopies] :
        /\ \A i \in ItemId : give[i] <= st.allocations[s][i].quantity
        /\ new \in Release(st, {s}, give)
  BY DEF Trim
<1>2. \A i \in ItemId : give[i] > 0 =>
        \E r \in {s} : /\ st.allocations[r][i].quantity > 0
                      /\ give[i] <= st.allocations[r][i].quantity
  <2>1. \A i \in ItemId : st.allocations[s][i].quantity \in Nat /\ give[i] \in Nat
    BY SoundParts, TablesAssumption DEF TablesAssumption
  <2> QED BY <1>1, <2>1
<1>3. {s} \in SUBSET Slot
  OBVIOUS
<1> QED BY <1>1, <1>2, <1>3, ReleaseSound, ReleaseHomes

(* Reserving available copies of one printing.                              *)
LEMMA ReservePreferredSound ==
  ASSUME NEW st, Sound(st), NEW lists, NEW s \in Slot, NEW printing, NEW needed,
         NEW new \in ReservePreferred(st, lists, s, printing, needed)
  PROVE  Sound(new) /\ SameHomes(st, new)
<1> DEFINE avail == [i \in ItemId |->
                       IF Candidate(st, lists, CardIn(s), i) /\ st.items[i].printed = printing
                       THEN Available(st, CardIn(s), i) ELSE 0]
           to == [i \in ItemId |-> s]
<1>1. PICK take \in [ItemId -> 0 .. MaxCopies] :
        /\ \A i \in ItemId : take[i] <= avail[i]
        /\ new \in Reserve(st, to, take)
  BY DEF ReservePreferred
<1>2. ASSUME NEW i \in ItemId, take[i] > 0
      PROVE  /\ CardOf[st.items[i].printed] = CardIn(to[i])
             /\ \A r \in Slot : st.allocations[r][i].quantity + take[i] <= st.items[i].copies
  <2>1. take[i] \in Nat
    BY TablesAssumption DEF TablesAssumption
  <2>2. CASE Candidate(st, lists, CardIn(s), i) /\ st.items[i].printed = printing
    <3>1. take[i] <= Available(st, CardIn(s), i)
      BY <1>1, <2>2
    <3>2. CardIn(s) \in Card
      BY SlotParts
    <3>3. \A r \in Slot : st.allocations[r][i].quantity + take[i] <= st.items[i].copies
      BY <2>1, <2>2, <3>1, <3>2, AvailableFree
    <3> QED BY <2>2, <3>3 DEF Candidate
  <2>3. CASE ~(Candidate(st, lists, CardIn(s), i) /\ st.items[i].printed = printing)
    BY <1>1, <1>2, <2>1, <2>3
  <2> QED BY <2>2, <2>3
<1>3. \A i \in ItemId : to[i] \in Slot
  OBVIOUS
<1> HIDE DEF to, avail
<1> QED BY <1>1, <1>2, <1>3, ReserveSound, ReserveHomes

(* Exchanging what a deck card holds for another printing.                  *)
LEMMA SwitchSound ==
  ASSUME NEW st, Sound(st), NEW lists, NEW s \in Slot, NEW printing, NEW room,
         NEW new \in Switch(st, lists, s, printing, room)
  PROVE  Sound(new) /\ SameHomes(st, new)
<1>1. PICK cleared \in Clear(st, {s}) :
        new \in ReservePreferred(cleared, lists, s, printing,
                                 Less(Physical(st.allocations, s), room))
  BY DEF Switch
<1>2. Sound(cleared) /\ SameHomes(st, cleared)
  BY ClearSound
<1>3. Sound(new) /\ SameHomes(cleared, new)
  BY <1>1, <1>2, ReservePreferredSound
<1> QED BY <1>2, <1>3, SameHomesTransitive

(* Rows that only change their deck card, within one card and to one deck   *)
(* card each, leave a sound snapshot.                                       *)
LEMMA RekeyedSound ==
  ASSUME NEW st, Sound(st), NEW held \in [Slot -> [ItemId -> Row]],
         HeldOnce(held, Slot),
         \A s \in Slot, i \in ItemId : held[s][i].quantity > 0 =>
           \E o \in Slot : /\ CardIn(o) = CardIn(s)
                          /\ st.allocations[o][i].quantity > 0
                          /\ held[s][i].quantity <= st.allocations[o][i].quantity
  PROVE  Sound([items |-> st.items, allocations |-> held])
<1> DEFINE new == [items |-> st.items, allocations |-> held]
<1>1. new \in Snapshot
  BY SoundParts DEF Snapshot
<1>2. ASSUME NEW s \in Slot, NEW i \in ItemId, held[s][i].quantity > 0
      PROVE  /\ held[s][i].quantity <= st.items[i].copies
             /\ st.items[i].filed = Unfiled
             /\ CardOf[st.items[i].printed] = CardIn(s)
  <2>1. PICK o \in Slot : /\ CardIn(o) = CardIn(s)
                         /\ st.allocations[o][i].quantity > 0
                         /\ held[s][i].quantity <= st.allocations[o][i].quantity
    BY <1>2
  <2>2. held[s][i].quantity \in Nat
    BY TablesAssumption DEF TablesAssumption, Row
  <2>3. /\ st.allocations[o][i].quantity <= st.items[i].copies
        /\ st.items[i].filed = Unfiled
        /\ CardOf[st.items[i].printed] = CardIn(o)
    BY <2>1 DEF Sound
  <2>4. st.allocations[o][i].quantity \in Nat /\ st.items[i].copies \in Nat
    BY SoundParts
  <2> QED BY <2>1, <2>2, <2>3, <2>4
<1> QED BY <1>1, <1>2 DEF Sound

(* Rows that go to another deck card, all of them, leave every copy where   *)
(* it belongs.                                                              *)
LEMMA RekeyedHomes ==
  ASSUME NEW st, Sound(st), NEW held \in [Slot -> [ItemId -> Row]],
         \A s \in Slot, i \in ItemId : held[s][i].quantity > 0 =>
           \E o \in Slot : held[s][i] = st.allocations[o][i],
         \A o \in Slot, i \in ItemId : st.allocations[o][i].quantity > 0 =>
           \E s \in Slot : held[s][i] = st.allocations[o][i]
  PROVE  SameHomes(st, [items |-> st.items, allocations |-> held])
<1> DEFINE new == [items |-> st.items, allocations |-> held]
           f == [u \in CopyUnits(st.items) |-> u]
<1>1. new.items = st.items /\ new.allocations = held
  OBVIOUS
<1> HIDE DEF new
<1>2. f \in Bijection(CopyUnits(st.items), CopyUnits(new.items))
  BY <1>1, Fun_IsBij
<1>3. ASSUME NEW u \in CopyUnits(st.items), NEW place \in Place
      PROVE  BelongsIn(new, u, place) <=> BelongsIn(st, u, place)
  <2>1. u[1] \in ItemId /\ u[2] \in Nat /\ u[2] > 0
    BY TablesAssumption DEF TablesAssumption, CopyUnits
  <2>2. \A s \in Slot : /\ held[s][u[1]].quantity \in Nat
                       /\ st.allocations[s][u[1]].quantity \in Nat
    BY <2>1, SoundParts, TablesAssumption DEF TablesAssumption, Row
  <2>3. ASSUME NEW s \in Slot, Reserves(new, s, u)
        PROVE  \E o \in Slot : held[s][u[1]] = st.allocations[o][u[1]] /\ Reserves(st, o, u)
    <3>1. u[2] <= held[s][u[1]].quantity
      BY <1>1, <2>3 DEF Reserves
    <3>2. PICK o \in Slot : held[s][u[1]] = st.allocations[o][u[1]]
      BY <2>1, <2>2, <3>1
    <3> QED BY <3>1, <3>2 DEF Reserves
  <2>4. ASSUME NEW o \in Slot, Reserves(st, o, u)
        PROVE  \E s \in Slot : held[s][u[1]] = st.allocations[o][u[1]] /\ Reserves(new, s, u)
    <3>1. u[2] <= st.allocations[o][u[1]].quantity
      BY <2>4 DEF Reserves
    <3>2. PICK s \in Slot : held[s][u[1]] = st.allocations[o][u[1]]
      BY <2>1, <2>2, <3>1
    <3> QED BY <1>1, <3>1, <3>2 DEF Reserves
  <2> QED BY <1>1, <2>3, <2>4 DEF BelongsIn
<1>4. SameHomes(st, new)
  BY <1>1, <1>2, <1>3 DEF SameHomes
<1> QED BY <1>4 DEF new

-----------------------------------------------------------------------------
(* Counting the copies that belong in a place.                              *)
FreeIn(st, p, place) ==
  {u \in ItemId \X (1 .. MaxCopies) :
     LET item == st.items[u[1]] IN
       /\ item.printed = p /\ item.filed = place
       /\ u[2] + Promised(st.allocations, Slot, u[1]) <= item.copies}

ReservedIn(st, p, place) ==
  {u \in Slot \X ItemId \X (1 .. MaxCopies) :
     LET row == st.allocations[u[1]][u[2]] IN
       st.items[u[2]].printed = p /\ row.source = place /\ u[3] <= row.quantity}

Belonging(st, p, place) ==
  {u \in CopyUnits(st.items) : st.items[u[1]].printed = p /\ BelongsIn(st, u, place)}

(* Sets one of which is mapped onto the other, one to one.                  *)
LEMMA EquallyMany ==
  ASSUME NEW S, NEW T, NEW f \in Bijection(S, T), IsFiniteSet(T)
  PROVE  Cardinality(S) = Cardinality(T)
<1>1. Inverse(f, S, T) \in Bijection(T, S)
  BY Fun_BijInverse
<1>2. ExistsBijection(T, S)
  BY <1>1 DEF ExistsBijection
<1> QED BY <1>2, FS_Bijection

LEMMA CopiesFinite ==
  ASSUME NEW its
  PROVE  IsFiniteSet(CopyUnits(its))
<1>1. IsFiniteSet(1 .. MaxCopies)
  BY FS_Interval, TablesAssumption DEF TablesAssumption
<1>2. IsFiniteSet(ItemId \X (1 .. MaxCopies))
  BY <1>1, FS_Product, TablesAssumption DEF TablesAssumption
<1>3. CopyUnits(its) \in SUBSET (ItemId \X (1 .. MaxCopies))
  BY DEF CopyUnits
<1> QED BY <1>2, <1>3, FS_Subset

(* An item promises what its one holder has of it.                          *)
LEMMA PromisedShare ==
  ASSUME NEW st, Sound(st), NEW i \in ItemId
  PROVE  /\ Promised(st.allocations, Slot, i) \in Nat
         /\ Promised(st.allocations, Slot, i) <= st.items[i].copies
         /\ \A s \in Slot : \/ st.allocations[s][i].quantity = 0
                           \/ st.allocations[s][i].quantity = Promised(st.allocations, Slot, i)
         /\ Promised(st.allocations, Slot, i) > 0 =>
              \E s \in Slot : st.allocations[s][i].quantity = Promised(st.allocations, Slot, i)
<1> DEFINE al == st.allocations
           n == Promised(al, Slot, i)
<1>1. /\ al \in [Slot -> [ItemId -> Row]] /\ HeldOnce(al, Slot)
      /\ \A s \in Slot : al[s][i].quantity \in Nat /\ al[s][i].quantity <= st.items[i].copies
      /\ st.items[i].copies \in Nat
  BY SoundParts DEF Sound
<1>2. ASSUME NEW s \in Slot PROVE n \in Nat /\ al[s][i].quantity <= n
  BY <1>1, HeldIsPromised
<1>3. ASSUME NEW m \in Nat, \A s \in Slot : al[s][i].quantity <= m PROVE n <= m
  BY <1>1, <1>3, PromisedToOne
<1>4. n \in Nat
  <2>1. IsFiniteSet(Slot \X (1 .. MaxCopies))
    <3>1. IsFiniteSet(1 .. MaxCopies)
      BY FS_Interval, TablesAssumption DEF TablesAssumption
    <3> QED BY <3>1, SlotFinite, FS_Product
  <2>2. PromisedUnits(al, Slot, i) \in SUBSET (Slot \X (1 .. MaxCopies))
    BY DEF PromisedUnits
  <2> QED BY <2>1, <2>2, FS_Subset, FS_CardinalityType DEF Promised
<1> HIDE DEF al, n
<1>5. ASSUME NEW s \in Slot, al[s][i].quantity # 0
      PROVE  al[s][i].quantity = n
  <2>1. ASSUME NEW t \in Slot PROVE al[t][i].quantity <= al[s][i].quantity
    BY <1>1, <1>5 DEF HeldOnce
  <2>2. n <= al[s][i].quantity
    BY <1>1, <1>3, <2>1
  <2> QED BY <1>1, <1>2, <2>2
<1>6. n > 0 => \E s \in Slot : al[s][i].quantity = n
  <2>1. ASSUME \A s \in Slot : al[s][i].quantity = 0 PROVE n <= 0
    BY <1>3, <2>1
  <2> QED BY <1>4, <1>5, <2>1
<1>7. n <= st.items[i].copies
  BY <1>1, <1>3
<1> QED BY <1>4, <1>5, <1>6, <1>7 DEF al, n

(* The free and the reserved copies of a place are those that belong there. *)
LEMMA CountedHome ==
  ASSUME NEW st, Sound(st), NEW p \in Printing, NEW place \in Place
  PROVE  Cardinality(FreeIn(st, p, place)) + Cardinality(ReservedIn(st, p, place))
           = Cardinality(Belonging(st, p, place))
<1> DEFINE its == st.items
           al == st.allocations
           n(i) == Promised(al, Slot, i)
           free == {u \in Belonging(st, p, place) : \A s \in Slot : ~Reserves(st, s, u)}
           reserved == {u \in Belonging(st, p, place) : \E s \in Slot : Reserves(st, s, u)}
           up == [u \in FreeIn(st, p, place) |-> <<u[1], u[2] + n(u[1])>>]
           whose == [u \in ReservedIn(st, p, place) |-> <<u[2], u[3]>>]
<1>1. \A i \in ItemId :
        /\ n(i) \in Nat /\ n(i) <= its[i].copies /\ its[i].copies \in Nat
        /\ its[i].copies <= MaxCopies /\ MaxCopies \in Nat
        /\ \A s \in Slot : al[s][i].quantity = 0 \/ al[s][i].quantity = n(i)
        /\ n(i) > 0 => \E s \in Slot : al[s][i].quantity = n(i)
  BY PromisedShare, SoundParts, TablesAssumption DEF TablesAssumption, Item
<1>2. \A i \in ItemId : \A s, t \in Slot :
        al[s][i].quantity > 0 /\ al[t][i].quantity > 0 => s = t
  BY DEF Sound, HeldOnce
<1>3. \A u : \A s \in Slot : Reserves(st, s, u) <=> u[2] <= al[s][u[1]].quantity
  BY DEF Reserves
<1> HIDE DEF n, its, al
<1>4. \A u \in CopyUnits(st.items) :
        /\ u[1] \in ItemId /\ u[2] \in Nat /\ u[2] >= 1 /\ u = <<u[1], u[2]>>
        /\ u[2] <= its[u[1]].copies
  BY TablesAssumption DEF TablesAssumption, CopyUnits, its
<1>5. \A i \in ItemId, k \in Nat : k >= 1 /\ k <= its[i].copies => <<i, k>> \in CopyUnits(st.items)
  BY <1>1 DEF CopyUnits, its
<1>6. ASSUME NEW u \in CopyUnits(st.items)
      PROVE  (\A s \in Slot : ~Reserves(st, s, u)) <=> u[2] > n(u[1])
  BY <1>1, <1>3, <1>4
<1>7. up \in Bijection(FreeIn(st, p, place), free)
  <2>1. ASSUME NEW u \in FreeIn(st, p, place)
        PROVE  /\ u[1] \in ItemId /\ u[2] \in Nat /\ u = <<u[1], u[2]>>
               /\ up[u][1] = u[1] /\ up[u][2] = u[2] + n(u[1]) /\ up[u] \in free
    <3>1. /\ u[1] \in ItemId /\ u[2] \in Nat /\ u[2] >= 1 /\ u = <<u[1], u[2]>>
          /\ its[u[1]].printed = p /\ its[u[1]].filed = place
          /\ u[2] + n(u[1]) <= its[u[1]].copies
      BY TablesAssumption DEF TablesAssumption, FreeIn, n, its, al
    <3>2. up[u] = <<u[1], u[2] + n(u[1])>>
      OBVIOUS
    <3> HIDE DEF up
    <3>3. up[u] \in CopyUnits(st.items)
      BY <1>1, <1>5, <3>1, <3>2
    <3>4. up[u][1] = u[1] /\ up[u][2] = u[2] + n(u[1]) /\ up[u][2] > n(up[u][1])
      BY <1>1, <3>1, <3>2
    <3>5. \A s \in Slot : ~Reserves(st, s, up[u])
      BY <1>6, <3>3, <3>4
    <3> QED BY <3>1, <3>3, <3>4, <3>5 DEF Belonging, BelongsIn, its
  <2>2. ASSUME NEW v \in free
        PROVE  \E u \in FreeIn(st, p, place) : up[u] = v
    <3>1. /\ v \in CopyUnits(st.items) /\ v[2] > n(v[1])
          /\ its[v[1]].printed = p /\ its[v[1]].filed = place
      BY <1>6 DEF Belonging, BelongsIn, its
    <3> DEFINE u == <<v[1], v[2] - n(v[1])>>
    <3>2. /\ v[1] \in ItemId /\ v[2] - n(v[1]) \in 1 .. MaxCopies
          /\ v[2] - n(v[1]) + n(v[1]) <= its[v[1]].copies
          /\ v[2] - n(v[1]) + n(v[1]) = v[2]
      BY <1>1, <1>4, <3>1
    <3>3. u \in FreeIn(st, p, place)
      BY <3>1, <3>2 DEF FreeIn, n, its, al
    <3>4. up[u] = <<v[1], v[2] - n(v[1]) + n(v[1])>>
      BY <3>3
    <3>5. up[u] = v
      BY <1>4, <3>1, <3>2, <3>4
    <3> QED BY <3>3, <3>5
  <2>3. up \in [FreeIn(st, p, place) -> free]
    BY <2>1
  <2> HIDE DEF up, free
  <2>4. ASSUME NEW u \in FreeIn(st, p, place), NEW v \in FreeIn(st, p, place), up[u] = up[v]
        PROVE  u = v
    <3>1. u[1] = v[1] /\ u[2] + n(u[1]) = v[2] + n(u[1])
      BY <2>1, <2>4
    <3>2. u[2] = v[2]
      BY <1>1, <2>1, <3>1
    <3> QED BY <2>1, <3>1, <3>2
  <2> QED BY <2>2, <2>3, <2>4, Fun_IsBij
<1>8. whose \in Bijection(ReservedIn(st, p, place), reserved)
  <2>1. ASSUME NEW u \in ReservedIn(st, p, place)
        PROVE  /\ u[1] \in Slot /\ u[2] \in ItemId /\ u = <<u[1], u[2], u[3]>>
               /\ whose[u] = <<u[2], u[3]>> /\ al[u[1]][u[2]].quantity > 0
               /\ whose[u] \in reserved
    <3>1. /\ u[1] \in Slot /\ u[2] \in ItemId /\ u[3] \in Nat /\ u[3] >= 1
          /\ u = <<u[1], u[2], u[3]>> /\ its[u[2]].printed = p
          /\ al[u[1]][u[2]].source = place /\ u[3] <= al[u[1]][u[2]].quantity
      BY TablesAssumption DEF TablesAssumption, ReservedIn, its, al
    <3>2. whose[u] = <<u[2], u[3]>>
      OBVIOUS
    <3> HIDE DEF whose
    <3>3. al[u[1]][u[2]].quantity > 0 /\ u[3] <= its[u[2]].copies
      BY <1>1, <3>1
    <3>4. whose[u] \in CopyUnits(st.items)
      BY <1>5, <3>1, <3>2, <3>3
    <3>5. Reserves(st, u[1], whose[u])
      BY <1>3, <3>1, <3>2
    <3> QED BY <3>1, <3>2, <3>3, <3>4, <3>5 DEF Belonging, BelongsIn, its, al
  <2>2. ASSUME NEW v \in reserved
        PROVE  \E u \in ReservedIn(st, p, place) : whose[u] = v
    <3>1. v \in CopyUnits(st.items) /\ its[v[1]].printed = p
      BY DEF Belonging, its
    <3>2. PICK s \in Slot : Reserves(st, s, v) /\ al[s][v[1]].source = place
      BY DEF Belonging, BelongsIn, al
    <3> DEFINE u == <<s, v[1], v[2]>>
    <3>3. u \in ReservedIn(st, p, place)
      <4>1. v[2] \in 1 .. MaxCopies /\ v[1] \in ItemId
        BY <1>1, <1>4, <3>1
      <4>2. v[2] <= al[s][v[1]].quantity
        BY <1>3, <3>2
      <4> QED BY <3>1, <3>2, <4>1, <4>2 DEF ReservedIn, its, al
    <3>4. whose[u] = v
      BY <1>4, <3>1, <3>3
    <3> QED BY <3>3, <3>4
  <2>3. whose \in [ReservedIn(st, p, place) -> reserved]
    BY <2>1
  <2> HIDE DEF whose, reserved
  <2>4. ASSUME NEW u \in ReservedIn(st, p, place), NEW v \in ReservedIn(st, p, place),
               whose[u] = whose[v]
        PROVE  u = v
    <3>1. u[2] = v[2] /\ u[3] = v[3]
      BY <2>1, <2>4
    <3>2. u[1] = v[1]
      BY <1>2, <2>1, <3>1
    <3> QED BY <2>1, <3>1, <3>2
  <2> QED BY <2>2, <2>3, <2>4, Fun_IsBij
<1>9. IsFiniteSet(free) /\ IsFiniteSet(reserved)
  <2>1. free \in SUBSET CopyUnits(st.items) /\ reserved \in SUBSET CopyUnits(st.items)
    BY DEF Belonging
  <2> QED BY <2>1, CopiesFinite, FS_Subset
<1>10. free \cup reserved = Belonging(st, p, place) /\ free \cap reserved = {}
  OBVIOUS
<1> HIDE DEF up, whose, free, reserved
<1>11. Cardinality(FreeIn(st, p, place)) = Cardinality(free)
  BY <1>7, <1>9, EquallyMany
<1>12. Cardinality(ReservedIn(st, p, place)) = Cardinality(reserved)
  BY <1>8, <1>9, EquallyMany
<1>13. Cardinality(free \cup reserved)
         = Cardinality(free) + Cardinality(reserved) - Cardinality(free \cap reserved)
  BY <1>9, FS_Union
<1>14. Cardinality(free \cap reserved) = 0
  BY <1>10, FS_EmptySet
<1>15. Cardinality(free) \in Nat /\ Cardinality(reserved) \in Nat
  BY <1>9, FS_CardinalityType
<1> QED BY <1>10, <1>11, <1>12, <1>13, <1>14, <1>15

(* A move of copies that leaves each where it belongs leaves their number.  *)
LEMMA HomesCounted ==
  ASSUME NEW old, NEW new, SameHomes(old, new), NEW p \in Printing, NEW place \in Place
  PROVE  Cardinality(Belonging(new, p, place)) = Cardinality(Belonging(old, p, place))
<1>1. PICK f \in Bijection(CopyUnits(old.items), CopyUnits(new.items)) :
        \A u \in CopyUnits(old.items) :
          /\ new.items[f[u][1]].printed = old.items[u[1]].printed
          /\ \A where \in Place : BelongsIn(new, f[u], where) <=> BelongsIn(old, u, where)
  BY DEF SameHomes
<1>2. /\ f \in [CopyUnits(old.items) -> CopyUnits(new.items)]
      /\ \A u, v \in CopyUnits(old.items) : f[u] = f[v] => u = v
      /\ \A v \in CopyUnits(new.items) : \E u \in CopyUnits(old.items) : f[u] = v
  BY Fun_BijectionProperties
<1> DEFINE g == [u \in Belonging(old, p, place) |-> f[u]]
<1>3. \A u \in CopyUnits(old.items) :
        u \in Belonging(old, p, place) <=> f[u] \in Belonging(new, p, place)
  BY <1>1, <1>2 DEF Belonging
<1>4. g \in Bijection(Belonging(old, p, place), Belonging(new, p, place))
  <2>1. \A u \in Belonging(old, p, place) : u \in CopyUnits(old.items) /\ g[u] = f[u]
    BY DEF Belonging
  <2>2. \A v \in Belonging(new, p, place) : v \in CopyUnits(new.items)
    BY DEF Belonging
  <2>3. g \in [Belonging(old, p, place) -> Belonging(new, p, place)]
    BY <1>3, <2>1
  <2> HIDE DEF g
  <2>4. \A u, v \in Belonging(old, p, place) : g[u] = g[v] => u = v
    BY <1>2, <2>1
  <2>5. \A v \in Belonging(new, p, place) : \E u \in Belonging(old, p, place) : g[u] = v
    BY <1>2, <1>3, <2>1, <2>2
  <2> QED BY <2>3, <2>4, <2>5, Fun_IsBij
<1>5. IsFiniteSet(Belonging(new, p, place))
  <2>1. Belonging(new, p, place) \in SUBSET CopyUnits(new.items)
    BY DEF Belonging
  <2> QED BY <2>1, CopiesFinite, FS_Subset
<1> HIDE DEF g
<1> QED BY <1>4, <1>5, EquallyMany

-----------------------------------------------------------------------------
(* The composed system: its invariant and actions.                          *)
Inv == TablesOK /\ Sound(tables)

-----------------------------------------------------------------------------
(* An action that writes a sound snapshot and typed rows keeps Inv.         *)
LEMMA Settled ==
  ASSUME NEW st, Sound(st), Write(st),
         cards' \in [Slot -> DeckCard],
         status' \in [Deck -> {"none", "active", "archived"}],
         linked' \in [Deck -> BOOLEAN],
         kind' \in [Location -> {"none", "storage", "list"}]
  PROVE  Inv'
<1>1. tables' = st
  BY SoundParts DEF Write, tables
<1>2. st \in Snapshot
  BY DEF Sound
<1> QED BY <1>1, <1>2 DEF Inv, TablesOK

(* The same when the snapshot also leaves every copy where it belongs.      *)
LEMMA SettledSame ==
  ASSUME NEW st, Sound(st), SameHomes(tables, st), Write(st),
         cards' \in [Slot -> DeckCard],
         status' \in [Deck -> {"none", "active", "archived"}],
         linked' \in [Deck -> BOOLEAN],
         kind' \in [Location -> {"none", "storage", "list"}]
  PROVE  Inv' /\ SameHomes(tables, tables')
<1>1. tables' = st
  BY SoundParts DEF Write, tables
<1> QED BY <1>1, Settled

(* And for an action that writes nothing but deck cards, decks or           *)
(* locations.                                                               *)
LEMMA Untouched ==
  ASSUME Inv, UNCHANGED <<items, allocations>>,
         cards' \in [Slot -> DeckCard],
         status' \in [Deck -> {"none", "active", "archived"}],
         linked' \in [Deck -> BOOLEAN],
         kind' \in [Location -> {"none", "storage", "list"}]
  PROVE  Inv' /\ SameHomes(tables, tables')
<1>1. Write(tables)
  BY DEF Write, tables
<1>2. SameHomes(tables, tables)
  BY SameHomesReflexive
<1> QED BY <1>1, <1>2, SettledSame DEF Inv

(* What Inv says of the variables.                                          *)
LEMMA InvParts ==
  ASSUME Inv
  PROVE  /\ Sound(tables)
         /\ tables.items = items /\ tables.allocations = allocations
         /\ items \in [ItemId -> Item]
         /\ allocations \in [Slot -> [ItemId -> Row]]
         /\ cards \in [Slot -> DeckCard]
         /\ status \in [Deck -> {"none", "active", "archived"}]
         /\ linked \in [Deck -> BOOLEAN]
         /\ kind \in [Location -> {"none", "storage", "list"}]
         /\ \A i \in ItemId : items[i].copies > 0 => items[i].printed \in Printing
<1>1. tables.items = items /\ tables.allocations = allocations
  BY DEF tables
<1>2. /\ tables.items \in [ItemId -> Item]
      /\ tables.allocations \in [Slot -> [ItemId -> Row]]
  BY SoundParts DEF Inv
<1>3. \A i \in ItemId : tables.items[i].copies > 0 => tables.items[i].printed \in Printing
  BY DEF Inv, Sound
<1> QED BY <1>1, <1>2, <1>3 DEF Inv, TablesOK

(* The fields of typed deck cards.                                          *)
LEMMA CardFields ==
  ASSUME Inv, NEW s \in Slot
  PROVE  /\ cards[s].quantity \in 0 .. MaxQuantity
         /\ cards[s].proxies \in 0 .. MaxQuantity
         /\ cards[s].preferred \in Printing \cup {NoPrinting}
         /\ MaxQuantity \in Nat /\ cards[s].quantity \in Nat /\ cards[s].proxies \in Nat
BY InvParts, QuantityAssumption DEF QuantityAssumption, DeckCard

LEMMA NoCardType == NoCard \in DeckCard
BY QuantityAssumption DEF QuantityAssumption, NoCard, DeckCard

-----------------------------------------------------------------------------
(* Allocation                                                               *)

LEMMA AllocateKeeps ==
  ASSUME Inv, NEW s \in Slot, NEW i \in ItemId, NEW q \in 1 .. MaxCopies, Allocate(s, i, q)
  PROVE  Inv' /\ SameHomes(tables, tables')
<1> DEFINE to == [j \in ItemId |-> s]
<1>1. PICK st \in Reserve(tables, to, Only(i, q)) : Write(st)
  BY DEF Allocate
<1>2. q \in Nat /\ q > 0 /\ q <= MaxCopies /\ MaxCopies \in Nat
  BY TablesAssumption DEF TablesAssumption
<1>3. Only(i, q) \in [ItemId -> 0 .. MaxCopies]
  BY <1>2 DEF Only
<1>4. ASSUME NEW j \in ItemId, Only(i, q)[j] > 0
      PROVE  /\ CardOf[tables.items[j].printed] = CardIn(to[j])
             /\ \A r \in Slot :
                  tables.allocations[r][j].quantity + Only(i, q)[j] <= tables.items[j].copies
  <2>1. j = i /\ Only(i, q)[j] = q
    BY <1>4 DEF Only
  <2>2. Candidate(tables, Lists, CardIn(s), i) /\ q <= Available(tables, CardIn(s), i)
    BY DEF Allocate
  <2>3. CardIn(s) \in Card
    BY SlotParts
  <2>4. \A r \in Slot : tables.allocations[r][i].quantity + q <= tables.items[i].copies
    BY <1>2, <2>2, <2>3, AvailableFree DEF Inv
  <2> QED BY <2>1, <2>2, <2>4 DEF Candidate
<1>5. Sound(st) /\ SameHomes(tables, st)
  <2>1. \A j \in ItemId : to[j] \in Slot
    OBVIOUS
  <2> HIDE DEF to
  <2> QED BY <1>1, <1>3, <1>4, <2>1, ReserveSound, ReserveHomes DEF Inv
<1>6. cards' \in [Slot -> DeckCard]
  <2>1. items[i].printed \in Printing
    BY InvParts DEF Allocate, Candidate
  <2>2. cards' = [cards EXCEPT ![s].preferred = items[i].printed]
    BY DEF Allocate
  <2> QED BY <2>1, <2>2, InvParts DEF DeckCard
<1>7. UNCHANGED <<status, linked, kind>>
  BY DEF Allocate
<1> QED BY <1>1, <1>5, <1>6, <1>7, InvParts, SettledSame

LEMMA DeallocateKeeps ==
  ASSUME Inv, NEW s \in Slot, NEW i \in ItemId, NEW q \in 1 .. MaxCopies, Deallocate(s, i, q)
  PROVE  Inv' /\ SameHomes(tables, tables')
<1> DEFINE n == Less(q, allocations[s][i].quantity)
<1>1. PICK st \in Release(tables, {s}, Only(i, n)) : Write(st)
  BY DEF Deallocate
<1>2. /\ allocations[s][i].quantity \in Nat /\ allocations[s][i].quantity > 0
      /\ allocations[s][i].quantity <= MaxCopies
      /\ q \in Nat /\ q > 0 /\ MaxCopies \in Nat
  BY InvParts, TablesAssumption DEF TablesAssumption, Row, Deallocate
<1>3. n \in Nat /\ n <= allocations[s][i].quantity /\ n <= MaxCopies
  BY <1>2 DEF Less
<1> HIDE DEF n
<1>4. Only(i, n) \in [ItemId -> 0 .. MaxCopies]
  BY <1>2, <1>3 DEF Only
<1>5. \A j \in ItemId : Only(i, n)[j] > 0 =>
        \E r \in {s} : /\ tables.allocations[r][j].quantity > 0
                      /\ Only(i, n)[j] <= tables.allocations[r][j].quantity
  BY <1>2, <1>3, InvParts DEF Only
<1>6. Sound(st) /\ SameHomes(tables, st)
  BY <1>1, <1>4, <1>5, ReleaseSound, ReleaseHomes DEF Inv
<1>7. UNCHANGED <<cards, status, linked, kind>>
  BY DEF Deallocate
<1> QED BY <1>1, <1>6, <1>7, InvParts, SettledSame

LEMMA AllocateProxyKeeps ==
  ASSUME Inv, NEW s \in Slot, NEW q \in 1 .. MaxQuantity, AllocateProxy(s, q)
  PROVE  Inv' /\ SameHomes(tables, tables')
<1>1. Physical(allocations, s) \in Nat
  BY TotalType DEF Physical
<1>2. q \in Nat /\ q > 0
  BY CardFields
<1>3. q <= Monus(cards[s].quantity, Physical(allocations, s) + cards[s].proxies)
  BY <1>2 DEF AllocateProxy, Room
<1>4. cards[s].proxies + q \in 0 .. MaxQuantity
  BY <1>1, <1>2, <1>3, CardFields DEF Monus
<1>5. cards' \in [Slot -> DeckCard]
  <2>1. cards' = [cards EXCEPT ![s].proxies = cards[s].proxies + q]
    BY DEF AllocateProxy
  <2> QED BY <1>4, <2>1, InvParts DEF DeckCard
<1> QED BY <1>5, InvParts, Untouched DEF AllocateProxy

LEMMA DeallocateProxyKeeps ==
  ASSUME Inv, NEW s \in Slot, NEW q \in 1 .. MaxQuantity, DeallocateProxy(s, q)
  PROVE  Inv' /\ SameHomes(tables, tables')
<1>1. q \in Nat /\ q <= cards[s].proxies
  BY CardFields DEF DeallocateProxy
<1>2. cards[s].proxies - q \in 0 .. MaxQuantity
  BY <1>1, CardFields
<1>3. cards' \in [Slot -> DeckCard]
  <2>1. cards' = [cards EXCEPT ![s].proxies = cards[s].proxies - q]
    BY DEF DeallocateProxy
  <2> QED BY <1>2, <2>1, InvParts DEF DeckCard
<1> QED BY <1>3, InvParts, Untouched DEF DeallocateProxy

LEMMA BulkDeallocateKeeps ==
  ASSUME Inv, NEW S \in SUBSET Slot, BulkDeallocate(S)
  PROVE  Inv' /\ SameHomes(tables, tables')
<1>1. PICK st \in Clear(tables, S) : Write(st)
  BY DEF BulkDeallocate
<1>2. Sound(st) /\ SameHomes(tables, st)
  BY ClearSound DEF Inv
<1>3. cards' \in [Slot -> DeckCard]
  <2>1. ASSUME NEW s \in Slot
        PROVE  [cards[s] EXCEPT !.proxies = 0] \in DeckCard
    <3>1. cards[s] \in DeckCard /\ 0 \in 0 .. MaxQuantity
      BY InvParts, CardFields
    <3> QED BY <3>1 DEF DeckCard
  <2>2. cards' = [s \in Slot |-> IF s \in S THEN [cards[s] EXCEPT !.proxies = 0] ELSE cards[s]]
    BY DEF BulkDeallocate
  <2> QED BY <2>1, <2>2, InvParts
<1> QED BY <1>1, <1>2, <1>3, InvParts, SettledSame DEF BulkDeallocate

LEMMA DisassembleKeeps ==
  ASSUME Inv, NEW d \in Deck, Disassemble(d)
  PROVE  Inv' /\ SameHomes(tables, tables')
<1>1. PICK st \in Clear(tables, CardSlots(d)) : Write(st)
  BY DEF Disassemble
<1>2. Sound(st) /\ SameHomes(tables, st)
  BY ClearSound DEF Inv, CardSlots
<1>3. status' \in [Deck -> {"none", "active", "archived"}]
  BY InvParts DEF Disassemble
<1> QED BY <1>1, <1>2, <1>3, InvParts, SettledSame DEF Disassemble

LEMMA AddCollectionItemsKeeps ==
  ASSUME Inv, NEW d \in Deck, NEW z \in Zone,
         NEW I \in SUBSET {i \in ItemId : items[i].copies > 0}, AddCollectionItems(d, I, z)
  PROVE  Inv' /\ SameHomes(tables, tables')
<1> DEFINE slotOf == [i \in I |-> Key(d, CardOf[items[i].printed], z)]
           group(s) == {i \in I : slotOf[i] = s}
           reserved == {i \in I : z # "considering" /\ ~Basic(slotOf[i])}
           take == [i \in ItemId |-> IF i \in reserved THEN 1 ELSE 0]
           grown(first) == [s \in Slot |->
             IF s \in DOMAIN first
             THEN [quantity |-> cards[s].quantity + Cardinality(group(s)),
                   proxies |-> cards[s].proxies,
                   preferred |-> items[first[s]].printed]
             ELSE cards[s]]
<1>1. \A i \in I : /\ i \in ItemId /\ items[i].copies > 0 /\ items[i].printed \in Printing
                  /\ CardOf[items[i].printed] \in Card
  BY InvParts, TablesAssumption DEF TablesAssumption
<1>2. \A i \in I : slotOf[i] \in Slot /\ CardIn(slotOf[i]) = CardOf[items[i].printed]
  BY <1>1 DEF Key, Slot, CardIn
<1>3. PICK first \in [{slotOf[i] : i \in I} -> I] :
        /\ \A s \in DOMAIN first : grown(first)[s].quantity <= MaxQuantity
        /\ \A i \in reserved : /\ items[i].filed \notin Lists
                               /\ Available(tables, CardIn(slotOf[i]), i) >= 1
        /\ cards' = grown(first)
  BY DEF AddCollectionItems
<1>4. PICK st \in Reserve(tables, slotOf, take) : Write(st)
  BY DEF AddCollectionItems
<1>5. UNCHANGED <<status, linked, kind>>
  BY DEF AddCollectionItems
<1>6. take \in [ItemId -> 0 .. MaxCopies]
  <2>1. ASSUME NEW i \in ItemId
        PROVE  take[i] \in 0 .. MaxCopies
    <3>1. CASE i \in reserved
      <4>1. items[i].copies > 0 /\ items[i].copies \in Nat /\ items[i].copies <= MaxCopies
        BY <1>1, <3>1, InvParts, TablesAssumption DEF TablesAssumption, Item
      <4> QED BY <3>1, <4>1, TablesAssumption DEF TablesAssumption
    <3>2. CASE i \notin reserved
      BY <3>2, TablesAssumption DEF TablesAssumption
    <3> QED BY <3>1, <3>2
  <2>2. take = [i \in ItemId |-> take[i]]
    OBVIOUS
  <2> HIDE DEF take
  <2> QED BY <2>1, <2>2
<1>7. ASSUME NEW i \in ItemId, take[i] > 0
      PROVE  /\ CardOf[tables.items[i].printed] = CardIn(slotOf[i])
             /\ \A r \in Slot :
                  tables.allocations[r][i].quantity + take[i] <= tables.items[i].copies
  <2>1. i \in reserved /\ take[i] = 1
    BY <1>7
  <2>2. i \in I
    BY <2>1
  <2>3. Candidate(tables, Lists, CardIn(slotOf[i]), i)
    <3>1. items[i].filed \notin Lists
      BY <1>3, <2>1
    <3> HIDE DEF slotOf
    <3> QED BY <1>1, <1>2, <2>2, <3>1, InvParts DEF Candidate
  <2>4. 1 <= Available(tables, CardIn(slotOf[i]), i)
    <3>1. Available(tables, CardIn(slotOf[i]), i) >= 1
      BY <1>3, <2>1
    <3> QED BY <3>1
  <2>5. CardIn(slotOf[i]) \in Card
    BY <1>2, <2>2, SlotParts
  <2> HIDE DEF slotOf, take
  <2>6. \A r \in Slot : tables.allocations[r][i].quantity + 1 <= tables.items[i].copies
    BY <2>3, <2>4, <2>5, AvailableFree DEF Inv
  <2> QED BY <2>1, <2>3, <2>6 DEF Candidate
<1>8. Sound(st) /\ SameHomes(tables, st)
  <2>1. \A i \in ItemId : take[i] > 0 => slotOf[i] \in Slot
    BY <1>2
  <2> HIDE DEF slotOf, take
  <2> QED BY <1>4, <1>6, <1>7, <2>1, ReserveSound, ReserveHomes DEF Inv
<1>9. cards' \in [Slot -> DeckCard]
  <2>1. ASSUME NEW s \in Slot
        PROVE  grown(first)[s] \in DeckCard
    <3>1. CASE s \in DOMAIN first
      <4>1. first[s] \in I
        BY <3>1
      <4>2. items[first[s]].printed \in Printing
        BY <1>1, <4>1
      <4>3. Cardinality(group(s)) \in Nat
        <5>1. group(s) \in SUBSET ItemId
          BY <1>1
        <5> HIDE DEF group
        <5>2. IsFiniteSet(group(s))
          BY <5>1, FS_Subset, TablesAssumption DEF TablesAssumption
        <5> QED BY <5>2, FS_CardinalityType
      <4> HIDE DEF group
      <4>4. grown(first)[s] = [quantity |-> cards[s].quantity + Cardinality(group(s)),
                               proxies |-> cards[s].proxies,
                               preferred |-> items[first[s]].printed]
        BY <3>1
      <4>5. cards[s].quantity + Cardinality(group(s)) \in 0 .. MaxQuantity
        <5>1. grown(first)[s].quantity <= MaxQuantity
          BY <1>3, <3>1
        <5>2. grown(first)[s].quantity = cards[s].quantity + Cardinality(group(s))
          BY <4>4
        <5> HIDE DEF grown
        <5> QED BY <4>3, <5>1, <5>2, CardFields
      <4> HIDE DEF grown
      <4> QED BY <4>2, <4>4, <4>5, CardFields DEF DeckCard
    <3>2. CASE s \notin DOMAIN first
      BY <3>2, InvParts
    <3> QED BY <3>1, <3>2
  <2>2. grown(first) = [s \in Slot |-> grown(first)[s]]
    OBVIOUS
  <2> HIDE DEF grown
  <2> QED BY <1>3, <2>1, <2>2
<1> QED BY <1>4, <1>5, <1>8, <1>9, InvParts, SettledSame

LEMMA AllocationKeeps == ASSUME Inv, AllocationNext PROVE Inv' /\ SameHomes(tables, tables')
<1>1. CASE \E s \in Slot, i \in ItemId, q \in 1 .. MaxCopies : Allocate(s, i, q)
  BY <1>1, AllocateKeeps
<1>2. CASE \E s \in Slot, i \in ItemId, q \in 1 .. MaxCopies : Deallocate(s, i, q)
  BY <1>2, DeallocateKeeps
<1>3. CASE \E s \in Slot, q \in 1 .. MaxQuantity : AllocateProxy(s, q)
  BY <1>3, AllocateProxyKeeps
<1>4. CASE \E s \in Slot, q \in 1 .. MaxQuantity : DeallocateProxy(s, q)
  BY <1>4, DeallocateProxyKeeps
<1>5. CASE \E S \in SUBSET {s \in Slot : Listed(s)} : BulkDeallocate(S)
  BY <1>5, BulkDeallocateKeeps
<1>6. CASE \E d \in Deck : Disassemble(d)
  BY <1>6, DisassembleKeeps
<1>7. CASE \E d \in Deck, z \in Zone :
             \E I \in SUBSET {i \in ItemId : items[i].copies > 0} : AddCollectionItems(d, I, z)
  BY <1>7, AddCollectionItemsKeeps
<1> QED BY <1>1, <1>2, <1>3, <1>4, <1>5, <1>6, <1>7 DEF AllocationNext

-----------------------------------------------------------------------------
(* CollectionItems                                                          *)

(* Items may change under a sound snapshot as long as the reserved ones     *)
(* keep their copies, their place and their card.                           *)
LEMMA ItemsSound ==
  ASSUME NEW st, Sound(st), NEW its \in [ItemId -> Item],
         \A i \in ItemId : its[i].copies > 0 => its[i].printed \in Printing,
         \A s \in Slot, i \in ItemId : st.allocations[s][i].quantity > 0 =>
           /\ st.allocations[s][i].quantity <= its[i].copies
           /\ its[i].filed = Unfiled
           /\ CardOf[its[i].printed] = CardIn(s)
  PROVE  Sound([items |-> its, allocations |-> st.allocations])
BY SoundParts DEF Sound, Snapshot

(* Copies of a place the user may name.                                     *)
LEMMA NewItemType ==
  ASSUME NEW n \in 1 .. MaxCopies, NEW p \in Printing, NEW place \in Place
  PROVE  [copies |-> n, printed |-> p, filed |-> place] \in Item
<1>1. n \in 0 .. MaxCopies
  BY TablesAssumption DEF TablesAssumption
<1> QED BY <1>1 DEF Item

(* What a deck card holds is promised.                                      *)
LEMMA HeldPromises ==
  ASSUME Inv, NEW s \in Slot, NEW i \in ItemId
  PROVE  /\ Promises(i) \in Nat
         /\ allocations[s][i].quantity \in Nat
         /\ allocations[s][i].quantity <= Promises(i)
<1>1. allocations \in [Slot -> [ItemId -> Row]] /\ Slot \in SUBSET Slot
  BY InvParts
<1>2. allocations[s][i].quantity \in Nat
  BY <1>1, TablesAssumption DEF TablesAssumption, Row
<1> QED BY <1>1, <1>2, HeldIsPromised DEF Promises

LEMMA CreateItemKeeps ==
  ASSUME Inv, NEW i \in ItemId, NEW n \in 1 .. MaxCopies, NEW p \in Printing,
         NEW place \in Place, CreateItem(i, n, p, place)
  PROVE  Inv'
<1> DEFINE its == [items EXCEPT ![i] = [copies |-> n, printed |-> p, filed |-> place]]
<1>1. its \in [ItemId -> Item]
  BY InvParts, NewItemType
<1>2. \A j \in ItemId : its[j].copies > 0 => its[j].printed \in Printing
  BY InvParts
<1>3. ASSUME NEW s \in Slot, NEW j \in ItemId, tables.allocations[s][j].quantity > 0
      PROVE  /\ tables.allocations[s][j].quantity <= its[j].copies
             /\ its[j].filed = Unfiled
             /\ CardOf[its[j].printed] = CardIn(s)
  <2>1. /\ tables.allocations[s][j].quantity <= tables.items[j].copies
        /\ tables.items[j].filed = Unfiled
        /\ CardOf[tables.items[j].printed] = CardIn(s)
        /\ tables.allocations[s][j].quantity \in Nat
    BY <1>3, SoundParts DEF Inv, Sound
  <2>2. j # i
    BY <1>3, <2>1, InvParts DEF CreateItem
  <2> QED BY <2>1, <2>2, InvParts
<1>4. Sound([items |-> its, allocations |-> tables.allocations])
  BY <1>1, <1>2, <1>3, ItemsSound DEF Inv
<1>5. Write([items |-> its, allocations |-> tables.allocations])
  BY InvParts DEF Write, CreateItem
<1> QED BY <1>4, <1>5, InvParts, Settled DEF CreateItem

LEMMA UpdateItemKeeps ==
  ASSUME Inv, ~CardEdits, NEW i \in ItemId, NEW n \in 1 .. MaxCopies, NEW p \in Printing,
         NEW place \in Place, UpdateItem(i, n, p, place)
  PROVE  Inv'
<1> DEFINE its == [items EXCEPT ![i] = [copies |-> n, printed |-> p, filed |-> place]]
<1>1. its \in [ItemId -> Item]
  BY InvParts, NewItemType
<1>2. \A j \in ItemId : its[j].copies > 0 => its[j].printed \in Printing
  BY InvParts
<1>3. ASSUME NEW s \in Slot, NEW j \in ItemId, tables.allocations[s][j].quantity > 0
      PROVE  /\ tables.allocations[s][j].quantity <= its[j].copies
             /\ its[j].filed = Unfiled
             /\ CardOf[its[j].printed] = CardIn(s)
  <2>1. /\ tables.allocations[s][j].quantity <= tables.items[j].copies
        /\ tables.items[j].filed = Unfiled
        /\ CardOf[tables.items[j].printed] = CardIn(s)
    BY <1>3 DEF Inv, Sound
  <2>2. CASE j # i
    BY <2>1, <2>2, InvParts
  <2>3. CASE j = i
    <3>1. /\ Promises(i) \in Nat /\ allocations[s][i].quantity \in Nat
          /\ allocations[s][i].quantity <= Promises(i)
      BY HeldPromises
    <3>2. Promises(i) > 0
      BY <1>3, <2>3, <3>1, InvParts
    <3>3. n >= Promises(i) /\ place = items[i].filed /\ CardOf[p] = CardOf[items[i].printed]
      BY <3>2 DEF UpdateItem, KeepsAllocations
    <3>4. its[i] = [copies |-> n, printed |-> p, filed |-> place]
      BY InvParts
    <3>5. n \in Nat
      BY TablesAssumption DEF TablesAssumption
    <3>6. allocations[s][i].quantity <= its[i].copies
      BY <3>1, <3>3, <3>4, <3>5
    <3> QED BY <2>1, <2>3, <3>3, <3>4, <3>6, InvParts
  <2> QED BY <2>2, <2>3
<1>4. Sound([items |-> its, allocations |-> tables.allocations])
  BY <1>1, <1>2, <1>3, ItemsSound DEF Inv
<1>5. Write([items |-> its, allocations |-> tables.allocations])
  BY InvParts DEF Write, UpdateItem
<1> QED BY <1>4, <1>5, InvParts, Settled DEF UpdateItem

(* Items and their rows may go, and items may leave their place, as long as *)
(* the rows that stay keep their item.                                      *)
LEMMA FewerSound ==
  ASSUME NEW st, Sound(st), NEW its \in [ItemId -> Item],
         NEW held \in [Slot -> [ItemId -> Row]],
         \A i \in ItemId : its[i].copies > 0 => its[i].printed \in Printing,
         \A s \in Slot, i \in ItemId : held[s][i].quantity > 0 =>
           /\ held[s][i].quantity = st.allocations[s][i].quantity
           /\ its[i].copies = st.items[i].copies /\ its[i].printed = st.items[i].printed
           /\ st.items[i].filed = Unfiled => its[i].filed = Unfiled
  PROVE  Sound([items |-> its, allocations |-> held])
<1> DEFINE new == [items |-> its, allocations |-> held]
<1>1. new \in Snapshot
  BY DEF Snapshot
<1>2. HeldOnce(new.allocations, Slot)
  BY DEF Sound, HeldOnce
<1>3. \A s \in Slot, i \in ItemId : held[s][i].quantity > 0 =>
        /\ held[s][i].quantity <= its[i].copies
        /\ its[i].filed = Unfiled
        /\ CardOf[its[i].printed] = CardIn(s)
  BY DEF Sound
<1> QED BY <1>1, <1>2, <1>3 DEF Sound

LEMMA AbsentType == Absent \in Item /\ NoRow \in Row
BY TablesAssumption DEF TablesAssumption, Absent, NoRow, Item, Row, Place

LEMMA DeleteItemsKeeps ==
  ASSUME Inv, NEW I \in SUBSET ItemId, DeleteItems(I)
  PROVE  Inv'
<1> DEFINE its == [i \in ItemId |-> IF i \in I THEN Absent ELSE items[i]]
           held == [s \in Slot |-> [i \in ItemId |->
                      IF i \in I THEN NoRow ELSE allocations[s][i]]]
<1>1. its \in [ItemId -> Item] /\ held \in [Slot -> [ItemId -> Row]]
  BY InvParts, AbsentType
<1>2. \A i \in ItemId : its[i].copies > 0 => its[i].printed \in Printing
  BY InvParts DEF Absent
<1>3. \A s \in Slot, i \in ItemId : held[s][i].quantity > 0 =>
        /\ held[s][i].quantity = tables.allocations[s][i].quantity
        /\ its[i].copies = tables.items[i].copies /\ its[i].printed = tables.items[i].printed
        /\ tables.items[i].filed = Unfiled => its[i].filed = Unfiled
  BY InvParts DEF NoRow
<1>4. Sound([items |-> its, allocations |-> held])
  <2> HIDE DEF its, held
  <2> QED BY <1>1, <1>2, <1>3, FewerSound DEF Inv
<1>5. Write([items |-> its, allocations |-> held])
  BY DEF Write, DeleteItems, WithoutItems
<1> QED BY <1>4, <1>5, InvParts, Settled DEF DeleteItems

LEMMA DeleteLocationKeeps ==
  ASSUME Inv, NEW l \in Location, DeleteLocation(l)
  PROVE  Inv'
<1> DEFINE gone == {i \in ItemId : kind[l] = "list" /\ items[i].filed = l}
           its == [i \in ItemId |->
                     IF i \in gone THEN Absent
                     ELSE IF items[i].filed = l THEN [items[i] EXCEPT !.filed = Unfiled]
                     ELSE items[i]]
           held == [s \in Slot |-> [i \in ItemId |->
                      IF i \in gone THEN NoRow
                      ELSE IF allocations[s][i].source = l
                      THEN [allocations[s][i] EXCEPT !.source = Unfiled]
                      ELSE allocations[s][i]]]
<1>1. its \in [ItemId -> Item]
  <2>1. ASSUME NEW i \in ItemId
        PROVE  [items[i] EXCEPT !.filed = Unfiled] \in Item
    BY InvParts DEF Item, Place
  <2> QED BY <2>1, InvParts, AbsentType
<1>2. held \in [Slot -> [ItemId -> Row]]
  <2>1. ASSUME NEW s \in Slot, NEW i \in ItemId
        PROVE  [allocations[s][i] EXCEPT !.source = Unfiled] \in Row
    <3>1. allocations[s][i] \in Row
      BY InvParts
    <3> QED BY <3>1 DEF Row, Place
  <2> QED BY <2>1, InvParts, AbsentType
<1>3. ASSUME NEW i \in ItemId, i \notin gone
      PROVE  /\ its[i].copies = items[i].copies /\ its[i].printed = items[i].printed
             /\ items[i].filed = Unfiled => its[i].filed = Unfiled
  <2>1. items[i] \in Item
    BY InvParts
  <2> QED BY <1>3, <2>1 DEF Item
<1>4. \A i \in ItemId : its[i].copies > 0 => its[i].printed \in Printing
  <2>1. \A i \in gone : its[i].copies = 0
    BY DEF Absent
  <2> HIDE DEF its, gone
  <2> QED BY <1>3, <2>1, InvParts
<1>5. ASSUME NEW s \in Slot, NEW i \in ItemId, held[s][i].quantity > 0
      PROVE  i \notin gone /\ held[s][i].quantity = allocations[s][i].quantity
  <2>1. i \notin gone
    BY <1>5 DEF NoRow
  <2>2. allocations[s][i] \in Row
    BY InvParts
  <2> QED BY <2>1, <2>2 DEF Row
<1>6. Sound([items |-> its, allocations |-> held])
  <2> HIDE DEF its, held, gone
  <2>1. \A s \in Slot, i \in ItemId : held[s][i].quantity > 0 =>
          /\ held[s][i].quantity = tables.allocations[s][i].quantity
          /\ its[i].copies = tables.items[i].copies /\ its[i].printed = tables.items[i].printed
          /\ tables.items[i].filed = Unfiled => its[i].filed = Unfiled
    BY <1>3, <1>5, InvParts
  <2> QED BY <1>1, <1>2, <1>4, <2>1, FewerSound DEF Inv
<1>7. Write([items |-> its, allocations |-> held])
  BY DEF Write, DeleteLocation
<1>8. kind' \in [Location -> {"none", "storage", "list"}]
  BY InvParts DEF DeleteLocation
<1> QED BY <1>6, <1>7, <1>8, InvParts, Settled DEF DeleteLocation

LEMMA CollectionKeeps == ASSUME Inv, ~CardEdits, CollectionNext PROVE Inv'
<1>1. CASE \E i \in ItemId, n \in 1 .. MaxCopies, p \in Printing, place \in Place :
             CreateItem(i, n, p, place)
  BY <1>1, CreateItemKeeps
<1>2. CASE \E i \in ItemId, n \in 1 .. MaxCopies, p \in Printing, place \in Place :
             UpdateItem(i, n, p, place)
  BY <1>2, UpdateItemKeeps
<1>3. CASE \E I \in SUBSET {i \in ItemId : items[i].copies > 0} : DeleteItems(I)
  BY <1>3, DeleteItemsKeeps
<1>4. CASE \E l \in Location, k \in {"storage", "list"} : CreateLocation(l, k) \/ SetKind(l, k)
  <2>1. kind' \in [Location -> {"none", "storage", "list"}]
    BY <1>4, InvParts DEF CreateLocation, SetKind
  <2>2. UNCHANGED <<items, allocations, cards, status, linked>>
    BY <1>4 DEF CreateLocation, SetKind
  <2> QED BY <2>1, <2>2, InvParts, Untouched
<1>5. CASE \E l \in Location : DeleteLocation(l)
  BY <1>5, DeleteLocationKeeps
<1> QED BY <1>1, <1>2, <1>3, <1>4, <1>5 DEF CollectionNext

-----------------------------------------------------------------------------
(* DeckCards: rows that change their key                                    *)

(* `from' moves to one zone without two rows meeting.                       *)
Distinct(from, z) == \A r, q \in from : In(r, z) = In(q, z) => r = q

LEMMA InSlot ==
  ASSUME NEW s \in Slot, NEW z \in Zone
  PROVE  In(s, z) \in Slot /\ CardIn(In(s, z)) = CardIn(s) /\ ZoneOf(In(s, z)) = z
         /\ DeckOf(In(s, z)) = DeckOf(s)
BY DEF Slot, In, DeckOf, CardIn, ZoneOf

(* Every row that holds something after the move held the same before it.   *)
LEMMA MovedAllocationsSound ==
  ASSUME NEW st, Sound(st), NEW from \in SUBSET Slot, NEW z \in Zone, Distinct(from, z)
  PROVE  LET new == [items |-> st.items, allocations |-> MovedAllocations(st.allocations, from, z)]
         IN  /\ Sound(new)
             /\ (\A r \in from : In(r, z) \in Slot \ from) => SameHomes(st, new)
<1> DEFINE al == st.allocations
           held == MovedAllocations(al, from, z)
           source(s) == CHOOSE r \in from : In(r, z) = s
<1>1. /\ al \in [Slot -> [ItemId -> Row]]
      /\ \A s \in Slot, i \in ItemId : al[s][i].quantity \in Nat /\ al[s][i] \in Row
  BY SoundParts
<1>2. ASSUME NEW s \in from, NEW i \in ItemId
      PROVE  held[s][i] = NoRow
  BY DEF MovedAllocations
<1>3. ASSUME NEW s \in Slot, s \notin from, Incoming(from, z, s) = {}
      PROVE  held[s] = al[s]
  BY <1>3 DEF MovedAllocations
<1>4. ASSUME NEW s \in Slot, s \notin from, Incoming(from, z, s) # {}
      PROVE  /\ source(s) \in from /\ In(source(s), z) = s
             /\ \A i \in ItemId :
                  held[s][i] = IF al[source(s)][i].quantity = 0 THEN al[s][i]
                               ELSE Grown(al[s][i], al[source(s)][i].quantity,
                                          al[source(s)][i].source)
  <2>1. source(s) \in from /\ In(source(s), z) = s
    BY <1>4 DEF Incoming
  <2>2. held[s] = [i \in ItemId |->
                     IF al[source(s)][i].quantity = 0 THEN al[s][i]
                     ELSE Grown(al[s][i], al[source(s)][i].quantity, al[source(s)][i].source)]
    BY <1>4 DEF MovedAllocations
  <2> QED BY <2>1, <2>2
(* A row that holds something got it from one row.                          *)
<1>5. ASSUME NEW s \in Slot, NEW i \in ItemId
      PROVE  \/ held[s][i].quantity = 0 /\ held[s][i] \in Row
             \/ /\ s \notin from /\ held[s][i] = al[s][i] /\ al[s][i].quantity > 0
             \/ /\ source(s) \in from /\ In(source(s), z) = s
                /\ held[s][i] = al[source(s)][i] /\ al[source(s)][i].quantity > 0
  <2>1. CASE s \in from
    BY <1>2, <2>1, AbsentType DEF NoRow
  <2>2. CASE s \notin from /\ Incoming(from, z, s) = {}
    BY <1>1, <1>3, <2>2
  <2>3. CASE s \notin from /\ Incoming(from, z, s) # {}
    <3>1. source(s) \in from /\ In(source(s), z) = s
      BY <1>4, <2>3
    <3>2. CASE al[source(s)][i].quantity = 0
      <4>1. held[s][i] = al[s][i]
        BY <1>4, <2>3, <3>2
      <4> QED BY <1>1, <2>3, <4>1
    <3>3. CASE al[source(s)][i].quantity # 0
      <4>1. source(s) \in Slot /\ al[source(s)][i].quantity > 0
        BY <1>1, <3>1, <3>3
      <4>2. source(s) # s
        BY <2>3, <3>1
      <4>3. al[s][i].quantity = 0
        <5>1. ~(al[s][i].quantity > 0)
          BY <4>1, <4>2 DEF Sound, HeldOnce
        <5> QED BY <1>1, <5>1
      <4>4. held[s][i] = Grown(al[s][i], al[source(s)][i].quantity, al[source(s)][i].source)
        BY <1>4, <2>3, <3>3
      <4>5. held[s][i] = [quantity |-> al[source(s)][i].quantity,
                          source |-> al[source(s)][i].source]
        BY <4>3, <4>4 DEF Grown
      <4>6. al[source(s)][i] = [quantity |-> al[source(s)][i].quantity,
                                source |-> al[source(s)][i].source]
        BY <1>1, <4>1 DEF Row
      <4> QED BY <3>1, <4>1, <4>5, <4>6
    <3> QED BY <3>2, <3>3
  <2> QED BY <2>1, <2>2, <2>3
<1>6. held \in [Slot -> [ItemId -> Row]]
  <2>1. ASSUME NEW s \in Slot
        PROVE  held[s] \in [ItemId -> Row]
    <3>1. \A i \in ItemId : held[s][i] \in Row
      <4> HIDE DEF held
      <4> QED BY <1>1, <1>5
    <3>2. held[s] = [i \in ItemId |-> held[s][i]]
      BY <1>1 DEF MovedAllocations
    <3> HIDE DEF held
    <3> QED BY <3>1, <3>2
  <2>2. held = [s \in Slot |-> held[s]]
    BY DEF MovedAllocations
  <2> HIDE DEF held
  <2> QED BY <2>1, <2>2
(* What a row held that moves or receives is in one row afterwards.         *)
<1>6a. ASSUME \A r \in from : In(r, z) \in Slot \ from,
              NEW o \in Slot, NEW i \in ItemId, al[o][i].quantity > 0
       PROVE  \E s \in Slot : held[s][i] = al[o][i]
  <2>1. CASE o \in from
    <3> DEFINE t == In(o, z)
    <3>1. t \in Slot /\ t \notin from /\ Incoming(from, z, t) # {}
      BY <1>6a, <2>1 DEF Incoming
    <3>2. source(t) \in from /\ In(source(t), z) = t
      BY <1>4, <3>1
    <3>3. source(t) = o
      <4> HIDE DEF source
      <4> QED BY <2>1, <3>2 DEF Distinct
    <3>4. al[t][i].quantity = 0
      <4>1. ~(al[t][i].quantity > 0)
        BY <1>6a, <2>1, <3>1 DEF Sound, HeldOnce
      <4> QED BY <1>1, <3>1, <4>1
    <3>5. held[t][i] = Grown(al[t][i], al[o][i].quantity, al[o][i].source)
      <4>1. al[o][i].quantity # 0
        BY <1>1, <1>6a
      <4> HIDE DEF held
      <4> QED BY <1>4, <3>1, <3>3, <4>1
    <3>6. held[t][i] = [quantity |-> al[o][i].quantity, source |-> al[o][i].source]
      BY <3>4, <3>5 DEF Grown
    <3>7. al[o][i] = [quantity |-> al[o][i].quantity, source |-> al[o][i].source]
      BY <1>1 DEF Row
    <3> QED BY <3>1, <3>6, <3>7
  <2>2. CASE o \notin from /\ Incoming(from, z, o) = {}
    BY <1>3, <2>2
  <2>3. CASE o \notin from /\ Incoming(from, z, o) # {}
    <3>1. source(o) \in from /\ source(o) \in Slot /\ source(o) # o
      BY <1>4, <2>3
    <3>2. al[source(o)][i].quantity = 0
      <4>1. ~(al[source(o)][i].quantity > 0)
        BY <1>6a, <3>1 DEF Sound, HeldOnce
      <4> QED BY <1>1, <3>1, <4>1
    <3>3. held[o][i] = al[o][i]
      BY <1>4, <2>3, <3>2
    <3> QED BY <3>3
  <2> QED BY <2>1, <2>2, <2>3
<1> HIDE DEF held
<1>7. HeldOnce(held, Slot)
  <2> SUFFICES ASSUME NEW i \in ItemId, NEW s \in Slot, NEW t \in Slot,
                      held[s][i].quantity > 0, held[t][i].quantity > 0
               PROVE  s = t
    BY DEF HeldOnce
  <2> DEFINE origin(u) == IF u \notin from /\ held[u][i] = al[u][i] /\ al[u][i].quantity > 0
                          THEN u ELSE source(u)
  <2>1. \A u \in {s, t} : /\ origin(u) \in Slot /\ al[origin(u)][i].quantity > 0
                           /\ \/ u = origin(u) /\ u \notin from
                              \/ origin(u) \in from /\ In(origin(u), z) = u
    BY <1>5
  <2>2. origin(s) = origin(t)
    BY <2>1 DEF Sound, HeldOnce
  <2> HIDE DEF origin
  <2> QED BY <2>1, <2>2
<1>8. ASSUME NEW s \in Slot, NEW i \in ItemId, held[s][i].quantity > 0
      PROVE  \E o \in Slot : /\ CardIn(o) = CardIn(s)
                            /\ al[o][i].quantity > 0
                            /\ held[s][i].quantity <= al[o][i].quantity
  <2>1. CASE s \notin from /\ held[s][i] = al[s][i] /\ al[s][i].quantity > 0
    BY <1>1, <2>1
  <2>2. CASE /\ source(s) \in from /\ In(source(s), z) = s
             /\ held[s][i] = al[source(s)][i] /\ al[source(s)][i].quantity > 0
    <3>1. source(s) \in Slot /\ CardIn(source(s)) = CardIn(s)
      BY <2>2, InSlot
    <3> HIDE DEF source
    <3> QED BY <1>1, <2>2, <3>1
  <2> QED BY <1>5, <1>8, <2>1, <2>2
<1>9. Sound([items |-> st.items, allocations |-> held])
  BY <1>6, <1>7, <1>8, RekeyedSound
<1>10. ASSUME \A r \in from : In(r, z) \in Slot \ from
       PROVE  SameHomes(st, [items |-> st.items, allocations |-> held])
  <2>1. ASSUME NEW s \in Slot, NEW i \in ItemId, held[s][i].quantity > 0
        PROVE  \E o \in Slot : held[s][i] = al[o][i]
    <3>1. \E o \in {s, source(s)} : o \in Slot /\ held[s][i] = al[o][i]
      BY <1>5, <2>1
    <3> QED BY <3>1
  <2> HIDE DEF source
  <2> QED BY <1>6, <1>6a, <1>10, <2>1, RekeyedHomes
<1> QED BY <1>9, <1>10 DEF held

(* One row, moved alone, meets no other.                                    *)
LEMMA DistinctOne ==
  ASSUME NEW s, NEW from, from \subseteq {s}, NEW z
  PROVE  Distinct(from, z)
BY DEF Distinct

(* The deck cards of a move, before a merged quantity is checked against    *)
(* its bound.                                                               *)
LooseCard == [quantity : Nat, proxies : 0 .. MaxQuantity, preferred : Printing \cup {NoPrinting}]

LEMMA MovedCardsType ==
  ASSUME NEW cs \in [Slot -> LooseCard], NEW from \in SUBSET Slot, NEW z
  PROVE  MovedCards(cs, from, z) \in [Slot -> LooseCard]
<1> DEFINE moved == MovedCards(cs, from, z)
<1>1. ASSUME NEW s \in Slot
      PROVE  moved[s] \in LooseCard
  <2>1. CASE s \in from
    <3>1. moved[s] = NoCard
      BY <2>1 DEF MovedCards
    <3> QED BY <3>1, QuantityAssumption DEF QuantityAssumption, NoCard, LooseCard
  <2>2. CASE s \notin from /\ Incoming(from, z, s) = {}
    BY <2>2 DEF MovedCards
  <2>3. CASE s \notin from /\ Incoming(from, z, s) # {}
    <3> DEFINE r == CHOOSE r \in from : In(r, z) = s
    <3>1. r \in Slot
      BY <2>3 DEF Incoming
    <3>2. moved[s] = IF cs[s].quantity = 0 THEN cs[r]
                     ELSE [cs[s] EXCEPT !.quantity = cs[s].quantity + cs[r].quantity]
      BY <2>3 DEF MovedCards
    <3> HIDE DEF r, moved
    <3>3. cs[s].quantity + cs[r].quantity \in Nat
      BY <3>1 DEF LooseCard
    <3> QED BY <3>1, <3>2, <3>3 DEF LooseCard
  <2> QED BY <2>1, <2>2, <2>3
<1>2. moved = [s \in Slot |-> moved[s]]
  BY DEF MovedCards
<1> HIDE DEF moved
<1>3. moved \in [Slot -> LooseCard]
  BY <1>1, <1>2
<1> QED BY <1>3 DEF moved

LEMMA LooseCards ==
  ASSUME Inv
  PROVE  cards \in [Slot -> LooseCard]
<1>1. DeckCard \subseteq LooseCard
  BY QuantityAssumption DEF QuantityAssumption, DeckCard, LooseCard
<1> QED BY <1>1, InvParts

(* Within its bound a loose card is a deck card.                            *)
LEMMA TightCards ==
  ASSUME NEW cs \in [Slot -> LooseCard], \A r \in Slot : cs[r].quantity <= MaxQuantity
  PROVE  cs \in [Slot -> DeckCard]
<1>1. ASSUME NEW r \in Slot
      PROVE  cs[r] \in DeckCard
  <2>1. cs[r].quantity \in 0 .. MaxQuantity
    BY QuantityAssumption DEF QuantityAssumption, LooseCard
  <2> QED BY <2>1 DEF LooseCard, DeckCard
<1> QED BY <1>1

-----------------------------------------------------------------------------
(* DeckCards: edits of deck cards                                           *)

(* The proxies left are no more than there were.                            *)
LEMMA ProxiesAtType ==
  ASSUME Inv, NEW s \in Slot, NEW quantity \in Nat
  PROVE  ProxiesAt(s, quantity) \in 0 .. MaxQuantity
<1>1. Physical(allocations, s) \in Nat
  BY TotalType DEF Physical
<1>2. Monus(quantity, Physical(allocations, s)) \in Nat
  BY <1>1 DEF Monus
<1> QED BY <1>2, CardFields DEF ProxiesAt, Less

LEMMA TrimmedSound ==
  ASSUME NEW st, Sound(st), NEW s \in Slot, NEW t \in Slot, NEW quantity,
         NEW new \in Trimmed(st, s, t, quantity)
  PROVE  Sound(new) /\ SameHomes(st, new)
<1>1. CASE new = st
  BY <1>1, SameHomesReflexive
<1>2. CASE new \in Trim(st, t, quantity)
  BY <1>2, TrimSound
<1> QED BY <1>1, <1>2 DEF Trimmed

(* A printing a request may name.                                           *)
LEMMA PrintingChoice ==
  ASSUME NEW c, NEW p \in PrintingsOf(c) \cup {NoPrinting}
  PROVE  p \in Printing \cup {NoPrinting}
BY DEF PrintingsOf

LEMMA WrittenCard ==
  ASSUME Inv, NEW s \in Slot, NEW q \in 1 .. MaxQuantity,
         NEW x \in 0 .. MaxQuantity, NEW p \in Printing \cup {NoPrinting}
  PROVE  /\ [quantity |-> q, proxies |-> x, preferred |-> p] \in DeckCard
         /\ q \in Nat
BY QuantityAssumption DEF QuantityAssumption, DeckCard

LEMMA AddCardKeeps ==
  ASSUME Inv, NEW s \in Slot, NEW total \in 1 .. MaxQuantity,
         NEW p \in Printing \cup {NoPrinting}, AddCard(s, total, p)
  PROVE  Inv' /\ SameHomes(tables, tables')
<1>1. PICK st \in Trimmed(tables, s, s, total) : Write(st)
  BY DEF AddCard
<1>2. Sound(st) /\ SameHomes(tables, st)
  BY TrimmedSound DEF Inv
<1>3. cards' \in [Slot -> DeckCard]
  <2>1. total \in Nat
    BY QuantityAssumption DEF QuantityAssumption
  <2>2. [quantity |-> total, proxies |-> ProxiesAt(s, total), preferred |-> p] \in DeckCard
    BY <2>1, ProxiesAtType, WrittenCard
  <2> QED BY <2>2, InvParts DEF AddCard
<1> QED BY <1>1, <1>2, <1>3, InvParts, SettledSame DEF AddCard

LEMMA ShelveCardKeeps ==
  ASSUME Inv, NEW s \in Slot, NEW q \in 1 .. MaxQuantity,
         NEW p \in Printing \cup {NoPrinting}, ShelveCard(s, q, p)
  PROVE  Inv' /\ SameHomes(tables, tables')
<1>1. PICK st \in Clear(tables, {s}) : Write(st)
  BY DEF ShelveCard
<1>2. Sound(st) /\ SameHomes(tables, st)
  BY ClearSound DEF Inv
<1>3. cards' \in [Slot -> DeckCard]
  <2>1. 0 \in 0 .. MaxQuantity
    BY QuantityAssumption DEF QuantityAssumption
  <2>2. [quantity |-> q, proxies |-> 0, preferred |-> p] \in DeckCard
    BY <2>1, WrittenCard
  <2> QED BY <2>2, NoCardType, InvParts DEF ShelveCard
<1> QED BY <1>1, <1>2, <1>3, InvParts, SettledSame DEF ShelveCard

LEMMA UpdateCardKeeps ==
  ASSUME Inv, NEW s \in Slot, NEW q \in 1 .. MaxQuantity, NEW z \in Zone,
         NEW p \in Printing \cup {NoPrinting}, UpdateCard(s, q, z, p)
  PROVE  Inv' /\ SameHomes(tables, tables')
<1> DEFINE t == In(s, z)
           from == {s} \ {t}
           keyed == [tables EXCEPT !.allocations = MovedAllocations(@, from, z)]
           room == IF Basic(s) THEN 0 ELSE Monus(q, ProxiesAt(s, q))
<1> DEFINE Exchanged(old) ==
             IF p = cards[s].preferred THEN {old}
             ELSE IF z = "considering" /\ Physical(old.allocations, t) > 0 THEN {}
             ELSE Switch(old, Lists, t, p, room)
<1>1. PICK trimmed \in Trimmed(keyed, s, t, q) : \E st \in Exchanged(trimmed) : Write(st)
  BY DEF UpdateCard
<1>1a. PICK st \in Exchanged(trimmed) : Write(st)
  BY <1>1
<1>2. t \in Slot /\ from \in SUBSET Slot /\ from \subseteq {s}
  BY InSlot
<1>3. keyed = [items |-> tables.items,
               allocations |-> MovedAllocations(tables.allocations, from, z)]
  <2>1. tables = [items |-> items, allocations |-> allocations]
    BY DEF tables
  <2> QED BY <2>1
<1>4. Sound(keyed) /\ SameHomes(tables, keyed)
  <2>2. \A r \in from : In(r, z) \in Slot \ from
    BY <1>2
  <2> HIDE DEF t, keyed
  <2>1. Distinct(from, z)
    BY <1>2, DistinctOne
  <2> HIDE DEF from
  <2> QED BY <1>2, <1>3, <2>1, <2>2, MovedAllocationsSound DEF Inv
<1>5. Sound(trimmed) /\ SameHomes(keyed, trimmed)
  <2> HIDE DEF t, keyed
  <2> QED BY <1>1, <1>2, <1>4, TrimmedSound
<1>6. Sound(st) /\ SameHomes(trimmed, st)
  <2>1. st = trimmed \/ st \in Switch(trimmed, Lists, t, p, room)
    OBVIOUS
  <2> HIDE DEF t, keyed, room, Exchanged
  <2> QED BY <1>2, <1>5, <2>1, SwitchSound, SameHomesReflexive
<1>6a. SameHomes(tables, st)
  <2> HIDE DEF keyed
  <2> QED BY <1>4, <1>5, <1>6, SameHomesTransitive
<1>7. cards' \in [Slot -> DeckCard]
  <2> DEFINE row == [quantity |-> q, proxies |-> ProxiesAt(s, q), preferred |-> p]
  <2>1. row \in DeckCard
    <3>1. q \in Nat
      BY QuantityAssumption DEF QuantityAssumption
    <3> QED BY <3>1, ProxiesAtType, WrittenCard
  <2>2. ASSUME NEW u \in Slot, u # t
        PROVE  MovedCards(cards, from, z)[u] \in DeckCard
    <3>1. Incoming(from, z, u) = {}
      BY <2>2 DEF Incoming
    <3>2. MovedCards(cards, from, z)[u] = NoCard \/ MovedCards(cards, from, z)[u] = cards[u]
      BY <3>1 DEF MovedCards
    <3> QED BY <3>2, NoCardType, InvParts
  <2>3. cards' = [MovedCards(cards, from, z) EXCEPT ![t] = row]
    BY DEF UpdateCard
  <2>4. MovedCards(cards, from, z) = [u \in Slot |-> MovedCards(cards, from, z)[u]]
    BY DEF MovedCards
  <2> HIDE DEF row, t, from
  <2> QED BY <1>2, <2>1, <2>2, <2>3, <2>4
<1>8. UNCHANGED <<status, linked, kind>>
  BY DEF UpdateCard
<1> QED BY <1>1a, <1>6, <1>6a, <1>7, <1>8, InvParts, SettledSame

LEMMA DeleteCardsKeeps ==
  ASSUME Inv, NEW S \in SUBSET Slot, DeleteCards(S)
  PROVE  Inv' /\ SameHomes(tables, tables')
<1>1. PICK st \in Clear(tables, S) : Write(st)
  BY DEF DeleteCards
<1>2. Sound(st) /\ SameHomes(tables, st)
  BY ClearSound DEF Inv
<1>3. cards' \in [Slot -> DeckCard]
  BY NoCardType, InvParts DEF DeleteCards
<1> QED BY <1>1, <1>2, <1>3, InvParts, SettledSame DEF DeleteCards

LEMMA OptimizePrintingsKeeps ==
  ASSUME Inv, NEW S \in SUBSET Slot, NEW cheapest \in [S -> Printing],
         OptimizePrintings(S, cheapest)
  PROVE  Inv' /\ SameHomes(tables, tables')
<1>1. PICK st \in Clear(tables, S) : Write(st)
  BY DEF OptimizePrintings
<1>2. Sound(st) /\ SameHomes(tables, st)
  BY ClearSound DEF Inv
<1>3. cards' \in [Slot -> DeckCard]
  <2>1. ASSUME NEW s \in S
        PROVE  [cards[s] EXCEPT !.preferred = cheapest[s]] \in DeckCard
    <3>1. cards[s] \in DeckCard
      BY InvParts
    <3> QED BY <3>1 DEF DeckCard
  <2>2. cards' = [s \in Slot |->
          IF s \in S THEN [cards[s] EXCEPT !.preferred = cheapest[s]] ELSE cards[s]]
    BY DEF OptimizePrintings
  <2> QED BY <2>1, <2>2, InvParts
<1> QED BY <1>1, <1>2, <1>3, InvParts, SettledSame DEF OptimizePrintings

LEMMA SetCommanderKeeps ==
  ASSUME Inv, NEW s \in Slot, SetCommander(s)
  PROVE  Inv' /\ SameHomes(tables, tables')
<1> DEFINE others == {r \in CardSlots(DeckOf(s)) : ZoneOf(r) = "commander" /\ Listed(r)} \ {s}
           self == {s} \ {In(s, "commander")}
           stepped == MovedCards(cards, others, "mainboard")
           down == MovedAllocations(allocations, others, "mainboard")
<1>1. /\ "mainboard" \in Zone /\ "commander" \in Zone
      /\ cards' = MovedCards(stepped, self, "commander")
      /\ \A r \in Slot : cards'[r].quantity <= MaxQuantity
      /\ allocations' = MovedAllocations(down, self, "commander")
      /\ UNCHANGED <<items, status, linked, kind>>
  BY DEF SetCommander
<1>2. others \in SUBSET Slot /\ self \in SUBSET Slot /\ self \subseteq {s}
  BY DEF CardSlots
<1>3. Distinct(others, "mainboard")
  <2> SUFFICES ASSUME NEW r \in others, NEW q \in others, In(r, "mainboard") = In(q, "mainboard")
               PROVE  r = q
    BY DEF Distinct
  <2>1. DeckOf(r) = DeckOf(q) /\ CardIn(r) = CardIn(q)
    BY DEF In
  <2>2. ZoneOf(r) = ZoneOf(q) /\ r \in Slot /\ q \in Slot
    BY DEF CardSlots
  <2> QED BY <2>1, <2>2 DEF Slot, DeckOf, CardIn, ZoneOf
<1>3a. \A r \in others : In(r, "mainboard") \in Slot \ others
  <2> SUFFICES ASSUME NEW r \in others PROVE In(r, "mainboard") \in Slot \ others
    OBVIOUS
  <2>1. In(r, "mainboard") \in Slot /\ ZoneOf(In(r, "mainboard")) = "mainboard"
    BY <1>1, <1>2, InSlot
  <2> QED BY <2>1
<1>3b. \A r \in self : In(r, "commander") \in Slot \ self
  BY <1>1, <1>2, InSlot
<1> HIDE DEF others
<1>4. Sound([items |-> items, allocations |-> down])
      /\ SameHomes(tables, [items |-> items, allocations |-> down])
  <2> DEFINE new == [items |-> tables.items,
                     allocations |-> MovedAllocations(tables.allocations, others, "mainboard")]
  <2>1. Sound(new) /\ SameHomes(tables, new)
    BY <1>1, <1>2, <1>3, <1>3a, MovedAllocationsSound DEF Inv
  <2>2. new = [items |-> items, allocations |-> down]
    BY InvParts
  <2> QED BY <2>1, <2>2
<1> HIDE DEF down
<1>5. Sound([items |-> items, allocations |-> MovedAllocations(down, self, "commander")])
      /\ SameHomes(tables, [items |-> items,
                            allocations |-> MovedAllocations(down, self, "commander")])
  <2> DEFINE mid == [items |-> items, allocations |-> down]
  <2>1. Distinct(self, "commander")
    BY <1>2, DistinctOne
  <2>2. mid.items = items /\ mid.allocations = down
    OBVIOUS
  <2>3. Sound(mid) /\ SameHomes(tables, mid)
    BY <1>4
  <2> HIDE DEF mid, self
  <2> DEFINE new == [items |-> mid.items,
                     allocations |-> MovedAllocations(mid.allocations, self, "commander")]
  <2>4. Sound(new) /\ SameHomes(mid, new)
    BY <1>1, <1>2, <1>3b, <2>1, <2>3, MovedAllocationsSound
  <2>5. new = [items |-> items, allocations |-> MovedAllocations(down, self, "commander")]
    BY <2>2
  <2> HIDE DEF new
  <2>6. SameHomes(tables, new)
    BY <2>3, <2>4, SameHomesTransitive
  <2> QED BY <2>4, <2>5, <2>6
<1>6. Write([items |-> items, allocations |-> MovedAllocations(down, self, "commander")])
  BY <1>1 DEF Write
<1>7. cards' \in [Slot -> DeckCard]
  <2>1. stepped \in [Slot -> LooseCard]
    BY <1>2, LooseCards, MovedCardsType
  <2> HIDE DEF stepped, self
  <2>2. cards' \in [Slot -> LooseCard]
    BY <1>1, <1>2, <2>1, MovedCardsType
  <2> QED BY <1>1, <2>2, TightCards
<1> QED BY <1>1, <1>5, <1>6, <1>7, InvParts, SettledSame

LEMMA AddPartnerKeeps ==
  ASSUME Inv, NEW s \in Slot, AddPartner(s)
  PROVE  Inv' /\ SameHomes(tables, tables')
<1>1. /\ cards' = MovedCards(cards, {s}, "commander")
      /\ \A r \in Slot : cards'[r].quantity <= MaxQuantity
      /\ allocations' = MovedAllocations(allocations, {s}, "commander")
      /\ UNCHANGED <<items, status, linked, kind>>
  BY DEF AddPartner
<1>2. "commander" \in Zone
  <2> DEFINE commanders == {r \in CardSlots(DeckOf(s)) : ZoneOf(r) = "commander" /\ Listed(r)}
  <2>1. Cardinality(commanders) = 1
    BY DEF AddPartner
  <2>2. commanders # {}
    BY <2>1, FS_EmptySet
  <2>3. PICK r \in Slot : ZoneOf(r) = "commander"
    BY <2>2 DEF CardSlots
  <2> QED BY <2>3, SlotParts
<1>3. Sound([items |-> items, allocations |-> MovedAllocations(allocations, {s}, "commander")])
      /\ SameHomes(tables, [items |-> items,
                            allocations |-> MovedAllocations(allocations, {s}, "commander")])
  <2>1. Distinct({s}, "commander") /\ {s} \in SUBSET Slot
    BY DistinctOne
  <2>2. \A r \in {s} : In(r, "commander") \in Slot \ {s}
    <3>1. In(s, "commander") \in Slot /\ ZoneOf(In(s, "commander")) = "commander"
      BY <1>2, InSlot
    <3> QED BY <3>1 DEF AddPartner
  <2> DEFINE new == [items |-> tables.items,
                     allocations |-> MovedAllocations(tables.allocations, {s}, "commander")]
  <2>3. Sound(new) /\ SameHomes(tables, new)
    BY <1>2, <2>1, <2>2, MovedAllocationsSound DEF Inv
  <2>4. new = [items |-> items, allocations |-> MovedAllocations(allocations, {s}, "commander")]
    BY InvParts
  <2> QED BY <2>3, <2>4
<1>4. Write([items |-> items, allocations |-> MovedAllocations(allocations, {s}, "commander")])
  BY <1>1 DEF Write
<1>5. cards' \in [Slot -> DeckCard]
  <2>1. cards' \in [Slot -> LooseCard]
    BY <1>1, LooseCards, MovedCardsType
  <2> QED BY <1>1, <2>1, TightCards
<1> QED BY <1>1, <1>3, <1>4, <1>5, InvParts, SettledSame

-----------------------------------------------------------------------------
(* DeckCards: decks and their remote lists                                  *)

LEMMA SetStatusKeeps ==
  ASSUME Inv, NEW d \in Deck, NEW new \in {"active", "archived"},
         CreateDeck(d, new) \/ SetStatus(d, new)
  PROVE  Inv' /\ SameHomes(tables, tables')
<1>1. status' \in [Deck -> {"none", "active", "archived"}]
  BY InvParts DEF CreateDeck, SetStatus
<1>2. UNCHANGED <<items, allocations, cards, linked, kind>>
  BY DEF CreateDeck, SetStatus
<1> QED BY <1>1, <1>2, InvParts, Untouched

LEMMA DeleteDeckKeeps ==
  ASSUME Inv, NEW d \in Deck, DeleteDeck(d)
  PROVE  Inv' /\ SameHomes(tables, tables')
<1>1. PICK st \in Clear(tables, CardSlots(d)) : Write(st)
  BY DEF DeleteDeck
<1>2. Sound(st) /\ SameHomes(tables, st)
  BY ClearSound DEF Inv, CardSlots
<1>3. cards' \in [Slot -> DeckCard]
  BY NoCardType, InvParts DEF DeleteDeck
<1>4. /\ status' \in [Deck -> {"none", "active", "archived"}]
      /\ linked' \in [Deck -> BOOLEAN] /\ kind' = kind
  BY InvParts DEF DeleteDeck
<1> QED BY <1>1, <1>2, <1>3, <1>4, InvParts, SettledSame

(* A carried row goes to a deck card of the same card, and no row is        *)
(* carried twice.                                                           *)
LEMMA CarriesFacts ==
  ASSUME NEW removed, NEW added, NEW carry \in Carries(removed, added)
  PROVE  /\ DOMAIN carry \subseteq added
         /\ \A s \in DOMAIN carry : carry[s] \in removed /\ CardIn(carry[s]) = CardIn(s)
         /\ \A s, t \in DOMAIN carry : carry[s] = carry[t] => s = t
<1>1. PICK C \in SUBSET added : carry \in [C -> removed]
  BY DEF Carries
<1>2. \A s \in DOMAIN carry : CardIn(carry[s]) = CardIn(s)
  BY DEF Carries
<1>3. \A s, t \in DOMAIN carry : carry[s] = carry[t] => s = t
  BY DEF Carries
<1> QED BY <1>1, <1>2, <1>3

LEMMA WriteEntriesKeeps ==
  ASSUME Inv, NEW d \in Deck, NEW remote \in RemoteLists, WriteEntries(d, remote),
         UNCHANGED <<status, kind>>, linked' \in [Deck -> BOOLEAN]
  PROVE  Inv'
<1> DEFINE wanted(s) == remote[<<CardIn(s), ZoneOf(s)>>]
           existing == {s \in CardSlots(d) : Listed(s)}
           desired == {s \in CardSlots(d) : wanted(s).quantity > 0}
<1>1. PICK carry \in Carries(existing \ desired, desired \ existing),
           give \in [ItemId -> 0 .. MaxCopies] :
        /\ \A i \in ItemId : give[i] <= HeldIn(allocations, existing, i)
        /\ \E st \in Release(tables, existing, give) :
             /\ items' = st.items
             /\ allocations' = [s \in Slot |->
                  IF s \in desired THEN st.allocations[Origin(carry, s)]
                  ELSE IF s \in existing THEN [i \in ItemId |-> NoRow]
                  ELSE st.allocations[s]]
        /\ \E preferred \in [desired -> Printing \cup {NoPrinting}] :
             cards' = [s \in Slot |->
               IF s \in desired
               THEN [quantity |-> wanted(s).quantity,
                     proxies |-> IF Shelved(carry, s) THEN 0
                                 ELSE ProxiesAt(Origin(carry, s), wanted(s).quantity),
                     preferred |-> preferred[s]]
               ELSE IF s \in existing THEN NoCard ELSE cards[s]]
  BY DEF WriteEntries
<1> DEFINE origin(s) == Origin(carry, s)
<1>2. existing \in SUBSET Slot /\ desired \in SUBSET Slot
  BY DEF CardSlots
<1>3. ASSUME NEW s \in desired
      PROVE  /\ origin(s) \in Slot /\ CardIn(origin(s)) = CardIn(s)
             /\ origin(s) \in existing \cup desired
             /\ origin(s) = s \/ (origin(s) \notin desired /\ s \in DOMAIN carry
                                   /\ origin(s) = carry[s])
  <2>1. CASE s \in DOMAIN carry
    <3>1. carry[s] \in existing \ desired /\ CardIn(carry[s]) = CardIn(s)
      <4> HIDE DEF existing, desired
      <4> QED BY <2>1, CarriesFacts
    <3> QED BY <1>2, <2>1, <3>1 DEF Origin
  <2>2. CASE s \notin DOMAIN carry
    BY <1>2, <2>2 DEF Origin
  <2> QED BY <2>1, <2>2
<1>4. \A s, t \in DOMAIN carry : carry[s] = carry[t] => s = t
  <2> HIDE DEF existing, desired
  <2> QED BY CarriesFacts
<1> HIDE DEF existing, desired, origin
<1>5. PICK st \in Release(tables, existing, give) :
        /\ items' = st.items
        /\ allocations' = [s \in Slot |->
             IF s \in desired THEN st.allocations[origin(s)]
             ELSE IF s \in existing THEN [i \in ItemId |-> NoRow]
             ELSE st.allocations[s]]
  BY <1>1 DEF origin
<1>6. Sound(st)
  <2>1. ASSUME NEW i \in ItemId, give[i] > 0
        PROVE  \E s \in existing : /\ tables.allocations[s][i].quantity > 0
                                   /\ give[i] <= tables.allocations[s][i].quantity
    <3>1. give[i] <= HeldIn(allocations, existing, i)
      BY <1>1
    <3>1a. give[i] \in Nat
      BY TablesAssumption DEF TablesAssumption
    <3>2. \/ HeldIn(allocations, existing, i) = 0
          \/ \E s \in existing : /\ allocations[s][i].quantity > 0
                                /\ HeldIn(allocations, existing, i) = allocations[s][i].quantity
      BY DEF HeldIn, HolderIn
    <3>3. HeldIn(allocations, existing, i) # 0
      BY <2>1, <3>1, <3>1a
    <3> QED BY <3>1, <3>2, <3>3, InvParts
  <2> QED BY <1>2, <1>5, <2>1, ReleaseSound DEF Inv
<1> DEFINE held == [s \in Slot |->
             IF s \in desired THEN st.allocations[origin(s)]
             ELSE IF s \in existing THEN [i \in ItemId |-> NoRow]
             ELSE st.allocations[s]]
<1>7. held \in [Slot -> [ItemId -> Row]]
  <2>1. st.allocations \in [Slot -> [ItemId -> Row]]
    BY <1>6, SoundParts
  <2>2. [i \in ItemId |-> NoRow] \in [ItemId -> Row]
    BY AbsentType
  <2> QED BY <1>3, <2>1, <2>2
(* A deck card that holds something holds what its origin held.             *)
<1> DEFINE from(s) == IF s \in desired THEN origin(s) ELSE s
<1>8. ASSUME NEW s \in Slot, NEW i \in ItemId, held[s][i].quantity > 0
      PROVE  /\ from(s) \in Slot /\ CardIn(from(s)) = CardIn(s)
             /\ held[s][i] = st.allocations[from(s)][i]
             /\ s \in desired \/ s \notin existing
  <2>1. CASE s \in desired
    BY <1>3, <2>1
  <2>2. CASE s \notin desired /\ s \in existing
    BY <1>8, <2>2 DEF NoRow
  <2>3. CASE s \notin desired /\ s \notin existing
    BY <2>3
  <2> QED BY <2>1, <2>2, <2>3
<1> HIDE DEF held
<1>9. HeldOnce(held, Slot)
  <2> SUFFICES ASSUME NEW i \in ItemId, NEW s \in Slot, NEW t \in Slot,
                      held[s][i].quantity > 0, held[t][i].quantity > 0
               PROVE  s = t
    BY DEF HeldOnce
  <2>1. from(s) = from(t)
    BY <1>6, <1>8 DEF Sound, HeldOnce
  <2>2. CASE s \in desired /\ t \in desired
    BY <1>3, <1>4, <2>1, <2>2
  <2>3. CASE s \in desired /\ t \notin desired
    BY <1>3, <1>8, <2>1, <2>3
  <2>4. CASE s \notin desired /\ t \in desired
    BY <1>3, <1>8, <2>1, <2>4
  <2>5. CASE s \notin desired /\ t \notin desired
    BY <2>1, <2>5
  <2> QED BY <2>2, <2>3, <2>4, <2>5
<1>10. ASSUME NEW s \in Slot, NEW i \in ItemId, held[s][i].quantity > 0
       PROVE  \E o \in Slot : /\ CardIn(o) = CardIn(s)
                             /\ st.allocations[o][i].quantity > 0
                             /\ held[s][i].quantity <= st.allocations[o][i].quantity
  <2>1. /\ from(s) \in Slot /\ CardIn(from(s)) = CardIn(s)
        /\ held[s][i] = st.allocations[from(s)][i]
    BY <1>8, <1>10
  <2> HIDE DEF from
  <2>2. st.allocations[from(s)][i].quantity \in Nat
    BY <1>6, <2>1, SoundParts
  <2> QED BY <1>10, <2>1, <2>2
<1> HIDE DEF from
<1>11. Sound([items |-> st.items, allocations |-> held])
  BY <1>6, <1>7, <1>9, <1>10, RekeyedSound
<1>12. Write([items |-> st.items, allocations |-> held])
  BY <1>5 DEF Write, held
<1>13. cards' \in [Slot -> DeckCard]
  <2>0. PICK preferred \in [desired -> Printing \cup {NoPrinting}] :
          cards' = [s \in Slot |->
            IF s \in desired
            THEN [quantity |-> wanted(s).quantity,
                  proxies |-> IF Shelved(carry, s) THEN 0
                              ELSE ProxiesAt(origin(s), wanted(s).quantity),
                  preferred |-> preferred[s]]
            ELSE IF s \in existing THEN NoCard ELSE cards[s]]
    BY <1>1 DEF origin
  <2>1. ASSUME NEW s \in desired
        PROVE  [quantity |-> wanted(s).quantity,
                proxies |-> IF Shelved(carry, s) THEN 0
                            ELSE ProxiesAt(origin(s), wanted(s).quantity),
                preferred |-> preferred[s]] \in DeckCard
    <3>1. wanted(s) \in RemoteCard
      <4>1. CardIn(s) \in Card /\ ZoneOf(s) \in Zone
        BY <1>2, SlotParts
      <4>2. remote \in [Card \X Zone -> RemoteCard]
        BY RemoteAssumption DEF RemoteAssumption
      <4> QED BY <4>1, <4>2
    <3> HIDE DEF wanted
    <3>2. wanted(s).quantity \in 0 .. MaxQuantity /\ wanted(s).quantity \in Nat
      BY <3>1, QuantityAssumption DEF QuantityAssumption, RemoteCard
    <3>3. origin(s) \in Slot
      BY <1>3
    <3>4. ProxiesAt(origin(s), wanted(s).quantity) \in 0 .. MaxQuantity
      BY <3>2, <3>3, ProxiesAtType
    <3>5. preferred[s] \in Printing \cup {NoPrinting} /\ 0 \in 0 .. MaxQuantity
      BY QuantityAssumption DEF QuantityAssumption
    <3> QED BY <3>2, <3>4, <3>5 DEF DeckCard
  <2> HIDE DEF wanted
  <2> QED BY <2>0, <2>1, NoCardType, InvParts
<1> QED BY <1>11, <1>12, <1>13, InvParts, Settled

LEMMA DeckCardsKeeps == ASSUME Inv, DeckCardsNext PROVE Inv' /\ SameHomes(tables, tables')
<1>1. CASE \E s \in Slot, total \in 1 .. MaxQuantity, p \in Printing \cup {NoPrinting} :
             AddCard(s, total, p)
  BY <1>1, AddCardKeeps
<1>2. CASE \E s \in Slot, q \in 1 .. MaxQuantity, p \in Printing \cup {NoPrinting} :
             ShelveCard(s, q, p)
  BY <1>2, ShelveCardKeeps
<1>3. CASE \E s \in Slot, q \in 1 .. MaxQuantity, z \in Zone, p \in Printing \cup {NoPrinting} :
             UpdateCard(s, q, z, p)
  BY <1>3, UpdateCardKeeps
<1>4. CASE \E S \in SUBSET {s \in Slot : Listed(s)} : DeleteCards(S)
  BY <1>4, DeleteCardsKeeps
<1>5. CASE \E S \in SUBSET {s \in Slot : Listed(s)} : \E cheapest \in [S -> Printing] :
             OptimizePrintings(S, cheapest)
  <2>1. PICK S \in SUBSET {s \in Slot : Listed(s)} :
          \E cheapest \in [S -> Printing] : OptimizePrintings(S, cheapest)
    BY <1>5
  <2>2. S \in SUBSET Slot
    OBVIOUS
  <2> QED BY <2>1, <2>2, OptimizePrintingsKeeps
<1>6. CASE \E s \in Slot : SetCommander(s)
  BY <1>6, SetCommanderKeeps
<1>7. CASE \E s \in Slot : AddPartner(s)
  BY <1>7, AddPartnerKeeps
<1>8. CASE \E d \in Deck, new \in {"active", "archived"} : CreateDeck(d, new) \/ SetStatus(d, new)
  BY <1>8, SetStatusKeeps
<1>9. CASE \E d \in Deck : DeleteDeck(d)
  BY <1>9, DeleteDeckKeeps
<1> QED BY <1>1, <1>2, <1>3, <1>4, <1>5, <1>6, <1>7, <1>8, <1>9 DEF DeckCardsNext

LEMMA ExternalKeeps == ASSUME Inv, ExternalNext PROVE Inv'
<1>1. CASE \/ \E d \in Deck : BeginLink(d) \/ BeginSync(d)
           \/ \E f \in fetching : FetchFails(f)
  <2>1. UNCHANGED <<items, allocations, cards, status, linked, kind>>
    BY <1>1 DEF BeginLink, BeginSync, FetchFails
  <2> QED BY <2>1, InvParts, Untouched
<1>2. CASE \E d \in Deck, remote \in RemoteLists : ApplyLink(d, remote) \/ ApplySync(d, remote)
  <2>1. PICK d \in Deck, remote \in RemoteLists : ApplyLink(d, remote) \/ ApplySync(d, remote)
    BY <1>2
  <2>2. WriteEntries(d, remote) /\ UNCHANGED <<status, kind>>
    BY <2>1 DEF ApplyLink, ApplySync
  <2>3. linked' \in [Deck -> BOOLEAN]
    BY <2>1, InvParts DEF ApplyLink, ApplySync
  <2> QED BY <2>2, <2>3, WriteEntriesKeeps
<1>3. CASE \E d \in Deck : Unlink(d)
  <2>1. linked' \in [Deck -> BOOLEAN]
    BY <1>3, InvParts DEF Unlink
  <2>2. UNCHANGED <<items, allocations, cards, status, kind>>
    BY <1>3 DEF Unlink
  <2> QED BY <2>1, <2>2, InvParts, Untouched
<1> QED BY <1>1, <1>2, <1>3 DEF ExternalNext

-----------------------------------------------------------------------------
(* The theorems                                                             *)

LEMMA InitInv == Init => Inv
<1> SUFFICES ASSUME TablesInit
             PROVE  Inv
  BY DEF Init
<1>1. items = [i \in ItemId |-> Absent] /\ allocations = [s \in Slot |-> [i \in ItemId |-> NoRow]]
  BY DEF TablesInit
<1>2. tables \in Snapshot
  BY <1>1, AbsentType DEF tables, Snapshot
<1>3. Sound(tables)
  <2>1. \A i \in ItemId : ~(tables.items[i].copies > 0)
    BY <1>1 DEF tables, Absent
  <2>2. \A s \in Slot, i \in ItemId : ~(tables.allocations[s][i].quantity > 0)
    BY <1>1 DEF tables, NoRow
  <2>3. HeldOnce(tables.allocations, Slot)
    BY <2>2 DEF HeldOnce
  <2> QED BY <1>2, <2>1, <2>2, <2>3 DEF Sound
<1>4. TablesOK
  BY <1>2, NoCardType DEF TablesOK, TablesInit
<1> QED BY <1>3, <1>4 DEF Inv

LEMMA NextInv == ASSUME ~CardEdits PROVE Inv /\ [Next]_vars => Inv'
<1> SUFFICES ASSUME Inv, [Next]_vars
             PROVE  Inv'
  OBVIOUS
<1>1. CASE AllocationNext
  BY <1>1, AllocationKeeps
<1>2. CASE DeckCardsNext
  BY <1>2, DeckCardsKeeps
<1>3. CASE CollectionNext
  BY <1>3, CollectionKeeps
<1>4. CASE ExternalNext
  BY <1>4, ExternalKeeps
<1>5. CASE UNCHANGED vars
  BY <1>5, InvParts, Untouched DEF vars
<1> QED BY <1>1, <1>2, <1>3, <1>4, <1>5 DEF Next

(* Every reachable state satisfies the inductive invariant, as long as an   *)
(* edit never turns reserved copies into another card's.                    *)
THEOREM Invariance == ASSUME ~CardEdits PROVE Spec => []Inv
<1>1. Init => Inv
  BY InitInv
<1>2. Inv /\ [Next]_vars => Inv'
  BY NextInv
<1> QED BY <1>1, <1>2, PTL DEF Spec

(* Only links and syncs are waited for.                                     *)
LEMMA FetchingTyped ==
  ASSUME fetching \subseteq Fetch, [Next]_vars
  PROVE  fetching' \subseteq Fetch
<1>1. CASE OthersKeepFetches
  BY <1>1 DEF OthersKeepFetches
<1>2. CASE ExternalNext
  <2>1. \A d \in Deck : <<d, "link">> \in Fetch /\ <<d, "sync">> \in Fetch
    BY DEF Fetch
  <2> DEFINE With(f) == fetching \cup {f}
  <2>6. \A f \in Fetch : With(f) \subseteq Fetch
    OBVIOUS
  <2>2. CASE \E d \in Deck : BeginLink(d) \/ BeginSync(d)
    <3>1. PICK d \in Deck : BeginLink(d) \/ BeginSync(d)
      BY <2>2
    <3>2. fetching' = With(<<d, "link">>) \/ fetching' = With(<<d, "sync">>)
      BY <3>1 DEF BeginLink, BeginSync
    <3> HIDE DEF With
    <3> QED BY <2>1, <2>6, <3>2
  <2>3. CASE \E f \in fetching : FetchFails(f)
    BY <2>3 DEF FetchFails
  <2>4. CASE \E d \in Deck, remote \in RemoteLists : ApplyLink(d, remote) \/ ApplySync(d, remote)
    <3>1. PICK d \in Deck, remote \in RemoteLists : ApplyLink(d, remote) \/ ApplySync(d, remote)
      BY <2>4
    <3>2. fetching' = fetching \ {<<d, "link">>} \/ fetching' = fetching \ {<<d, "sync">>}
      BY <3>1 DEF ApplyLink, ApplySync
    <3> QED BY <3>2
  <2>5. CASE \E d \in Deck : Unlink(d)
    BY <2>5 DEF Unlink
  <2> QED BY <1>2, <2>2, <2>3, <2>4, <2>5 DEF ExternalNext
<1>3. CASE UNCHANGED vars
  BY <1>3 DEF vars
<1> QED BY <1>1, <1>2, <1>3 DEF Next

(* Every operation keeps the tables typed: no count goes below zero or over *)
(* its bound, no row names a printing or place that is not there.           *)
THEOREM TypeCorrect == ASSUME ~CardEdits PROVE Spec => []TypeOK
<1>1. Init => Inv /\ fetching \subseteq Fetch
  BY InitInv DEF Init
<1>2. Inv /\ fetching \subseteq Fetch /\ [Next]_vars => (Inv /\ fetching \subseteq Fetch)'
  BY NextInv, FetchingTyped
<1>3. Inv /\ fetching \subseteq Fetch => TypeOK
  BY DEF Inv, TypeOK
<1> QED BY <1>1, <1>2, <1>3, PTL DEF Spec

(* What the invariant says of reservations.                                 *)
LEMMA InvSays ==
  ASSUME Inv
  PROVE  /\ NoDoublePromise /\ EveryReservationReleasable /\ OneHolder
         /\ HeldCopiesUnfiled /\ HoldsOwnCard
<1>1. NoDoublePromise
  <2> SUFFICES ASSUME NEW i \in ItemId
               PROVE  Promises(i) <= items[i].copies
    BY DEF NoDoublePromise
  <2>1. /\ allocations \in [Slot -> [ItemId -> Row]] /\ HeldOnce(allocations, Slot)
    BY InvParts DEF Sound
  <2>2. items[i].copies \in Nat /\ \A s \in Slot : allocations[s][i].quantity <= items[i].copies
    BY InvParts, SoundParts
  <2> QED BY <2>1, <2>2, PromisedToOne DEF Promises
<1>2. EveryReservationReleasable
  BY InvParts, SoundParts DEF EveryReservationReleasable
<1>3. OneHolder /\ HeldCopiesUnfiled
  BY InvParts DEF Sound, OneHolder, HeldCopiesUnfiled
<1>4. HoldsOwnCard
  <2> SUFFICES ASSUME NEW s \in Slot, NEW i \in ItemId, allocations[s][i].quantity > 0
               PROVE  /\ items[i].printed \in Printing
                      /\ CardOf[items[i].printed] = CardIn(s)
    BY DEF HoldsOwnCard
  <2>1. /\ allocations[s][i].quantity <= items[i].copies
        /\ CardOf[items[i].printed] = CardIn(s)
    BY InvParts DEF Sound
  <2>2. allocations[s][i].quantity \in Nat /\ items[i].copies \in Nat
    BY InvParts, SoundParts
  <2>3. items[i].copies > 0
    BY <2>1, <2>2
  <2> QED BY <2>1, <2>3, InvParts
<1> QED BY <1>1, <1>2, <1>3, <1>4

(* No copy is promised twice, in any collection and for any decks.          *)
THEOREM NeverPromisedTwice == ASSUME ~CardEdits PROVE Spec => []NoDoublePromise
BY InvSays, Invariance, PTL

(* The copies of every reservation are there to be released.                *)
THEOREM AlwaysReleasable == ASSUME ~CardEdits PROVE Spec => []EveryReservationReleasable
BY InvSays, Invariance, PTL

(* An item serves one deck card at most.                                    *)
THEOREM OneHolderEach == ASSUME ~CardEdits PROVE Spec => []OneHolder
BY InvSays, Invariance, PTL

(* Reserved copies are in no location, whatever happens to the locations.   *)
THEOREM HeldUnfiled == ASSUME ~CardEdits PROVE Spec => []HeldCopiesUnfiled
BY InvSays, Invariance, PTL

(* Deck cards hold copies of their own card only.                           *)
THEOREM OwnCardHeld == ASSUME ~CardEdits PROVE Spec => []HoldsOwnCard
BY InvSays, Invariance, PTL

-----------------------------------------------------------------------------
(* A step that leaves every copy where it belongs leaves what is counted    *)
(* in each place.                                                           *)
LEMMA HomesStay ==
  ASSUME Inv, Inv', SameHomes(tables, tables')
  PROVE  Homes' = Homes
<1>1. ASSUME NEW p, NEW place
      PROVE  /\ FreeUnits(p, place) = FreeIn(tables, p, place)
             /\ ReservedUnits(p, place) = ReservedIn(tables, p, place)
             /\ FreeUnits(p, place)' = FreeIn(tables', p, place)
             /\ ReservedUnits(p, place)' = ReservedIn(tables', p, place)
  BY DEF FreeUnits, FreeIn, ReservedUnits, ReservedIn, Promises, tables
<1>2. ASSUME NEW p \in Printing, NEW place \in Place
      PROVE  Cardinality(FreeIn(tables', p, place)) + Cardinality(ReservedIn(tables', p, place))
               = Cardinality(FreeIn(tables, p, place)) + Cardinality(ReservedIn(tables, p, place))
  <2>1. Sound(tables) /\ Sound(tables')
    BY DEF Inv
  <2>2. Cardinality(Belonging(tables', p, place)) = Cardinality(Belonging(tables, p, place))
    BY HomesCounted
  <2>3. Cardinality(FreeIn(tables, p, place)) + Cardinality(ReservedIn(tables, p, place))
          = Cardinality(Belonging(tables, p, place))
    BY <2>1, CountedHome
  <2>4. Cardinality(FreeIn(tables', p, place)) + Cardinality(ReservedIn(tables', p, place))
          = Cardinality(Belonging(tables', p, place))
    BY <2>1, CountedHome
  <2> QED BY <2>2, <2>3, <2>4
<1>3. Homes = [p \in Printing |-> [place \in Place |->
                 Cardinality(FreeIn(tables, p, place)) + Cardinality(ReservedIn(tables, p, place))]]
  BY <1>1 DEF Homes
<1>4. Homes' = [p \in Printing |-> [place \in Place |->
                 Cardinality(FreeIn(tables', p, place)) + Cardinality(ReservedIn(tables', p, place))]]
  BY <1>1 DEF Homes
<1> QED BY <1>2, <1>3, <1>4
=============================================================================
