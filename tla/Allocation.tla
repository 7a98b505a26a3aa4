----------------------------- MODULE Allocation -----------------------------
(***************************************************************************)
(* The allocation engine (crate manavault-allocation): reserving physical  *)
(* copies for deck cards, proxies, releasing, taking a deck apart, and     *)
(* adding owned copies to a deck.  The bulk and pull-list allocations are  *)
(* sequences of Allocate inside one transaction and are not modelled here. *)
(***************************************************************************)
EXTENDS Tables

(* allocate_in: q copies of item i for deck card s, which switches to the   *)
(* item's printing.                                                         *)
Allocate(s, i, q) ==
  /\ Allocatable(s)
  /\ Candidate(tables, Lists, CardIn(s), i)
  /\ q <= Available(tables, CardIn(s), i)
  /\ q <= Room(allocations, s, cards[s].quantity, cards[s].proxies)
  /\ cards' = [cards EXCEPT ![s].preferred = items[i].printed]
  /\ \E st \in Reserve(tables, [j \in ItemId |-> s], Only(i, q)) : Write(st)
  /\ UNCHANGED <<status, linked, kind>>

(* deallocate: q copies, or all of them when the allocation has fewer.      *)
Deallocate(s, i, q) ==
  /\ allocations[s][i].quantity > 0
  /\ Editable(DeckOf(s))
  /\ \E st \in Release(tables, {s}, Only(i, Less(q, allocations[s][i].quantity))) : Write(st)
  /\ UNCHANGED <<cards, status, linked, kind>>

AllocateProxy(s, q) ==
  /\ Allocatable(s)
  /\ q <= Room(allocations, s, cards[s].quantity, cards[s].proxies)
  /\ cards' = [cards EXCEPT ![s].proxies = @ + q]
  /\ UNCHANGED <<items, allocations, status, linked, kind>>

(* Seeded fault: more proxies are given back than there are.                *)
DeallocateProxyUnchecked(s, q) ==
  /\ Listed(s)
  /\ Editable(DeckOf(s))
  /\ cards' = [cards EXCEPT ![s].proxies = @ - q]
  /\ UNCHANGED <<items, allocations, status, linked, kind>>

DeallocateProxy(s, q) ==
  /\ Listed(s)
  /\ Editable(DeckOf(s))
  /\ q <= cards[s].proxies
  /\ cards' = [cards EXCEPT ![s].proxies = @ - q]
  /\ UNCHANGED <<items, allocations, status, linked, kind>>

(* bulk_deallocate_deck_cards: all or nothing, over any decks.              *)
BulkDeallocate(S) ==
  /\ \A s \in S : Listed(s) /\ Editable(DeckOf(s))
  /\ \E st \in Clear(tables, S) : Write(st)
  /\ cards' = [s \in Slot |-> IF s \in S THEN [cards[s] EXCEPT !.proxies = 0] ELSE cards[s]]
  /\ UNCHANGED <<status, linked, kind>>

(* disassemble_deck: archived decks too; cards and proxies stay.            *)
Disassemble(d) ==
  /\ status[d] # "none"
  /\ \E st \in Clear(tables, CardSlots(d)) : Write(st)
  /\ status' = [status EXCEPT ![d] = "archived"]
  /\ UNCHANGED <<cards, linked, kind>>

(* add_collection_item_to_deck and bulk_add_collection_items_to_deck: the   *)
(* deck cards of the selected items are created or grown by one copy per    *)
(* item and take the printing of the first, then every copy is reserved;    *)
(* nothing is reserved in the considering zone or for basic lands.          *)
AddCollectionItems(d, I, z) ==
  LET slotOf == [i \in I |-> Key(d, CardOf[items[i].printed], z)]
      group(s) == {i \in I : slotOf[i] = s}
      reserved == {i \in I : z # "considering" /\ ~Basic(slotOf[i])}
      take == [i \in ItemId |-> IF i \in reserved THEN 1 ELSE 0]
      grown(first) == [s \in Slot |->
        IF s \in DOMAIN first
        THEN [quantity |-> cards[s].quantity + Cardinality(group(s)),
              proxies |-> cards[s].proxies,
              preferred |-> items[first[s]].printed]
        ELSE cards[s]]
  IN  /\ ListEditable(d)
      /\ \A i \in I : items[i].copies > 0
      /\ \E first \in [{slotOf[i] : i \in I} -> I] :
           /\ \A s \in DOMAIN first : slotOf[first[s]] = s
           /\ \A s \in DOMAIN first : grown(first)[s].quantity <= MaxQuantity
           /\ \A i \in reserved : LET s == slotOf[i] IN
                /\ items[i].filed \notin Lists
                /\ Available(tables, CardIn(s), i) >= 1
                /\ Cardinality(group(s)) <=
                     Room(allocations, s, grown(first)[s].quantity, cards[s].proxies)
           /\ cards' = grown(first)
      /\ \E st \in Reserve(tables, slotOf, take) : Write(st)
      /\ UNCHANGED <<status, linked, kind>>

AllocationNext ==
  \/ \E s \in Slot, i \in ItemId, q \in 1 .. MaxCopies : Allocate(s, i, q)
  \/ \E s \in Slot, i \in ItemId, q \in 1 .. MaxCopies : Deallocate(s, i, q)
  \/ \E s \in Slot, q \in 1 .. MaxQuantity : AllocateProxy(s, q)
  \/ \E s \in Slot, q \in 1 .. MaxQuantity : DeallocateProxy(s, q)
  \/ \E S \in SUBSET {s \in Slot : Listed(s)} : BulkDeallocate(S)
  \/ \E d \in Deck : Disassemble(d)
  \/ \E d \in Deck, z \in Zone : \E I \in SUBSET {i \in ItemId : items[i].copies > 0} :
       AddCollectionItems(d, I, z)
=============================================================================
