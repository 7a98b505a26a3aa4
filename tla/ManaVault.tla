------------------------------ MODULE ManaVault -----------------------------
(***************************************************************************)
(* The collection, the decks and the allocation engine together: every     *)
(* interleaving of their transactions, and what must hold of the tables    *)
(* they share.                                                             *)
(***************************************************************************)
EXTENDS Allocation, ExternalSync, CollectionItems

vars == <<items, allocations, cards, status, linked, kind, fetching>>

TypeOK == TablesOK /\ fetching \subseteq Fetch

Init == TablesInit /\ fetching = {}

(* A fetch for a deck that is deleted meanwhile comes to nothing: the write *)
(* finds no deck row, and ids are never used again.                         *)
OthersKeepFetches == fetching' = {f \in fetching : status'[f[1]] # "none"}

Next ==
  \/ (AllocationNext \/ DeckCardsNext \/ CollectionNext) /\ OthersKeepFetches
  \/ ExternalNext

Spec == Init /\ [][Next]_vars

-----------------------------------------------------------------------------
(* A physical copy is never promised twice: the deck cards that reserve     *)
(* copies of an item reserve no more copies than the item has, so every     *)
(* release finds the copies it gives back (items.rs move_copies would fail  *)
(* with QuantityMismatch, changes.rs ensure_allocations_kept).              *)
NoDoublePromise == \A i \in ItemId : Promises(i) <= items[i].copies

(* Every reservation can be released (formal/README.md:44, changes.rs:449): *)
(* its item still has the copies it would give back.                        *)
EveryReservationReleasable ==
  \A s \in Slot, i \in ItemId : allocations[s][i].quantity <= items[i].copies

(* Splitting keeps stacks apart: an item serves one deck card at most, so   *)
(* the branch of reserve that grows an existing allocation and the merge of *)
(* two allocations of one item in move_to_zone are never needed.            *)
OneHolder == HeldOnce(allocations, Slot)

(* Copies a deck holds are nowhere else: their item is in no location       *)
(* (items.rs: allocated copies leave their location), so that deleting or   *)
(* relabelling a location can never take copies from a deck.                *)
HeldCopiesUnfiled ==
  \A s \in Slot, i \in ItemId : allocations[s][i].quantity > 0 => items[i].filed = Unfiled

(* A deck card only holds copies of its own card, in any printing           *)
(* (allocate.rs ensure_item_matches); availability is counted per card and  *)
(* would miss a copy filed under another one.                               *)
HoldsOwnCard ==
  \A s \in Slot, i \in ItemId :
    allocations[s][i].quantity > 0 => /\ items[i].printed \in Printing
                                      /\ CardOf[items[i].printed] = CardIn(s)

(* Proxies plus allocations never exceed the quantity the deck card lists   *)
(* (release.rs trim_deck_card_allocations), whatever edits, merges, printing*)
(* switches and syncs the card went through.                                *)
NotOverfilled ==
  \A s \in Slot : Physical(allocations, s) + cards[s].proxies <= cards[s].quantity

(* A card that is only an idea, and a basic land, which counts as held      *)
(* without copies, hold neither copies nor proxies, also after a card moved *)
(* between zones (cards.rs update_in, model.rs allocatable).                *)
IdeasHoldNothing ==
  \A s \in Slot : ZoneOf(s) = "considering" \/ Basic(s) =>
    Physical(allocations, s) + cards[s].proxies = 0

-----------------------------------------------------------------------------
(* Where copies belong.  A free copy belongs where it is filed, a reserved  *)
(* one in the location its allocation remembers.                            *)
FreeUnits(p, place) ==
  {u \in ItemId \X (1 .. MaxCopies) :
     LET item == items[u[1]] IN
       item.printed = p /\ item.filed = place /\ u[2] + Promises(u[1]) <= item.copies}

ReservedUnits(p, place) ==
  {u \in Slot \X ItemId \X (1 .. MaxCopies) :
     LET row == allocations[u[1]][u[2]] IN
       items[u[2]].printed = p /\ row.source = place /\ u[3] <= row.quantity}

Homes ==
  [p \in Printing |-> [place \in Place |->
     Cardinality(FreeUnits(p, place)) + Cardinality(ReservedUnits(p, place))]]

(* Reserving, releasing, trimming, exchanging, merging, syncing, importing, *)
(* swapping and taking decks apart neither create nor lose copies nor       *)
(* change where any of them belongs; only an edit of the collection does.   *)
(* (move_to_zone once stranded reserved copies outside any location:        *)
(* cards.rs:670-674.)                                                       *)
HomesKept == [][Homes' = Homes \/ CollectionNext]_tables

(* "Archived decks are frozen; every allocation change checks this first"   *)
(* (model.rs:34): while a deck stays archived its cards do not change and   *)
(* none of them gains a copy.  The exception is the sync, which never looks *)
(* at the status (external.rs:220).                                         *)
ArchivedFrozen ==
  [][\/ \A s \in Slot :
          status[DeckOf(s)] = "archived" /\ status'[DeckOf(s)] = "archived" =>
            /\ cards'[s] = cards[s]
            /\ \A i \in ItemId : allocations'[s][i].quantity <= allocations[s][i].quantity
     \/ ExternalNext]_vars
=============================================================================
