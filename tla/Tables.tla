------------------------------- MODULE Tables -------------------------------
(***************************************************************************)
(* The database as the collection, deck and allocation code sees it: which *)
(* physical copies exist and where they are (collection items), which      *)
(* copies decks hold (allocations), and what decks list (deck cards).      *)
(*                                                                         *)
(* Every write of the backend runs in one BEGIN IMMEDIATE transaction, so  *)
(* an operation is one action: its guard is the code's checks, and a check *)
(* that fails rolls everything back, which is no step.  Allocation,        *)
(* DeckCards, ExternalSync and CollectionItems hold the operations;        *)
(* ManaVault composes them.                                                *)
(***************************************************************************)
EXTENDS Stock

CONSTANTS
  MaxQuantity   \* bound: copies a deck card lists

ASSUME QuantityAssumption == MaxQuantity \in Nat

VARIABLES
  items,        \* collection_items
  allocations,  \* deck_allocations, by deck card and item
  cards,        \* deck_cards, by unique key
  status,       \* decks.status; brewing and active decks behave alike here
  linked,       \* decks.external_source is set
  kind          \* locations.kind

tables == [items |-> items, allocations |-> allocations]

NoCard == [quantity |-> 0, proxies |-> 0, preferred |-> NoPrinting]
DeckCard == [quantity : 0 .. MaxQuantity, proxies : 0 .. MaxQuantity,
             preferred : Printing \cup {NoPrinting}]

TablesOK ==
  /\ tables \in Snapshot
  /\ cards \in [Slot -> DeckCard]
  /\ status \in [Deck -> {"none", "active", "archived"}]
  /\ linked \in [Deck -> BOOLEAN]
  /\ kind \in [Location -> {"none", "storage", "list"}]

TablesInit ==
  /\ items = [i \in ItemId |-> Absent]
  /\ allocations = [s \in Slot |-> [i \in ItemId |-> NoRow]]
  /\ cards = [s \in Slot |-> NoCard]
  /\ status = [d \in Deck |-> "none"]
  /\ linked = [d \in Deck |-> FALSE]
  /\ kind = [l \in Location |-> "none"]

-----------------------------------------------------------------------------
(* What the handlers read.                                                  *)

Listed(s) == cards[s].quantity > 0               \* the deck card row exists
Editable(d) == status[d] = "active"              \* Deck::ensure_editable

(* Seeded fault: the remote link is not looked at.                          *)
ListEditableWhenLinked(d) == Editable(d)

ListEditable(d) == Editable(d) /\ ~linked[d]      \* ensure_decklist_editable
Lists == {l \in Location : kind[l] = "list"}
Basic(s) == CardIn(s) \in BasicLand
PrintingsOf(c) == {p \in Printing : CardOf[p] = c}
Key(d, c, z) == <<d, c, z>>
CardSlots(d) == {s \in Slot : DeckOf(s) = d}

(* Seeded fault: the deck is not asked whether it is archived.              *)
AllocatableInAnyDeck(s) == Listed(s) /\ ZoneOf(s) # "considering"

(* DeckCard::allocatable *)
Allocatable(s) == Listed(s) /\ Editable(DeckOf(s)) /\ ZoneOf(s) # "considering"

(* status.required - status.allocated: basic lands always count as held.    *)
Room(allocs, s, quantity, proxies) ==
  IF Basic(s) THEN 0 ELSE Monus(quantity, Physical(allocs, s) + proxies)

Write(st) == items' = st.items /\ allocations' = st.allocations
=============================================================================
