--------------------------- MODULE CollectionItems --------------------------
(***************************************************************************)
(* Edits of the collection itself (crate manavault-collection, collection):*)
(* items are created, changed, moved and deleted, and locations come and   *)
(* go, while decks hold copies of some items.                              *)
(***************************************************************************)
EXTENDS Tables

CONSTANT
  CardEdits     \* may an edit turn reserved copies into copies of another card?

ASSUME CardEditsAssumption == CardEdits \in BOOLEAN

OpenPlaces == {Unfiled} \cup {l \in Location : kind[l] # "none"}
Promises(i) == Promised(allocations, Slot, i)

(* Bound: the collection holds at most as many copies as there are ids, so  *)
(* a split always finds a free one.                                         *)
WithinBound(its) == Total([i \in ItemId |-> its[i].copies]) <= Cardinality(ItemId)

CreateItem(i, n, p, place) ==
  /\ items[i].copies = 0
  /\ place \in OpenPlaces
  /\ items' = [items EXCEPT ![i] = [copies |-> n, printed |-> p, filed |-> place]]
  /\ WithinBound(items')
  /\ UNCHANGED <<allocations, cards, status, linked, kind>>

(* Seeded fault: reserved copies may be filed away.                         *)
KeepsQuantity(i, n, p, place) ==
  Promises(i) > 0 =>
    /\ n >= Promises(i)
    /\ CardEdits \/ CardOf[p] = CardOf[items[i].printed]

(* ensure_allocations_kept: an edit may neither shrink an item below its    *)
(* reserved copies nor file it while some are reserved.  The printing is    *)
(* not looked at, so the edit may name another card: CardEdits.             *)
KeepsAllocations(i, n, p, place) ==
  Promises(i) > 0 =>
    /\ n >= Promises(i)
    /\ place = items[i].filed
    /\ CardEdits \/ CardOf[p] = CardOf[items[i].printed]

(* update: also the auto-sort move and bulk clean's partial removal.        *)
UpdateItem(i, n, p, place) ==
  /\ items[i].copies > 0
  /\ place \in OpenPlaces
  /\ KeepsAllocations(i, n, p, place)
  /\ items' = [items EXCEPT ![i] = [copies |-> n, printed |-> p, filed |-> place]]
  /\ WithinBound(items')
  /\ UNCHANGED <<allocations, cards, status, linked, kind>>

(* The foreign key takes an item's allocations with it.                     *)
WithoutItems(I) ==
  /\ items' = [i \in ItemId |-> IF i \in I THEN Absent ELSE items[i]]
  /\ allocations' = [s \in Slot |-> [i \in ItemId |->
       IF i \in I THEN NoRow ELSE allocations[s][i]]]

DeleteItems(I) ==
  /\ \A i \in I : items[i].copies > 0
  /\ WithoutItems(I)
  /\ UNCHANGED <<cards, status, linked, kind>>

CreateLocation(l, k) ==
  /\ kind[l] = "none"
  /\ kind' = [kind EXCEPT ![l] = k]
  /\ UNCHANGED <<items, allocations, cards, status, linked>>

(* location::update: what is filed there is not looked at.                  *)
SetKind(l, k) ==
  /\ kind[l] # "none"
  /\ kind' = [kind EXCEPT ![l] = k]
  /\ UNCHANGED <<items, allocations, cards, status, linked>>

(* location::delete: a list's items go with it, a storage location's are    *)
(* unfiled; allocations taken from it forget their source.                  *)
DeleteLocation(l) ==
  LET gone == {i \in ItemId : kind[l] = "list" /\ items[i].filed = l}
  IN  /\ kind[l] # "none"
      /\ items' = [i \in ItemId |->
           IF i \in gone THEN Absent
           ELSE IF items[i].filed = l THEN [items[i] EXCEPT !.filed = Unfiled]
           ELSE items[i]]
      /\ allocations' = [s \in Slot |-> [i \in ItemId |->
           IF i \in gone THEN NoRow
           ELSE IF allocations[s][i].source = l
           THEN [allocations[s][i] EXCEPT !.source = Unfiled]
           ELSE allocations[s][i]]]
      /\ kind' = [kind EXCEPT ![l] = "none"]
      /\ UNCHANGED <<cards, status, linked>>

CollectionNext ==
  \/ \E i \in ItemId, n \in 1 .. MaxCopies, p \in Printing, place \in Place :
       CreateItem(i, n, p, place)
  \/ \E i \in ItemId, n \in 1 .. MaxCopies, p \in Printing, place \in Place :
       UpdateItem(i, n, p, place)
  \/ \E I \in SUBSET {i \in ItemId : items[i].copies > 0} : DeleteItems(I)
  \/ \E l \in Location, k \in {"storage", "list"} : CreateLocation(l, k)
  \/ \E l \in Location, k \in {"storage", "list"} : SetKind(l, k)
  \/ \E l \in Location : DeleteLocation(l)
=============================================================================
