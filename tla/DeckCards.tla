------------------------------ MODULE DeckCards -----------------------------
(***************************************************************************)
(* Decks and the cards they list (crate manavault-collection, decks):      *)
(* every edit of a deck card also settles the copies and proxies the card  *)
(* holds - a lower quantity trims them, a new printing exchanges them, a   *)
(* deleted card gives them back and a card that changes zone takes them    *)
(* along.                                                                  *)
(***************************************************************************)
EXTENDS Tables

-----------------------------------------------------------------------------
(* Rows that change their key.                                              *)

In(s, z) == <<DeckOf(s), CardIn(s), z>>
Incoming(from, z, s) == {r \in from : In(r, z) = s}

(* move_to_zone for the rows `from': a row whose card is already listed in  *)
(* zone z merges into that row, which keeps its own printing and proxies.   *)
MovedCards(cs, from, z) ==
  [s \in Slot |->
     IF s \in from THEN NoCard
     ELSE IF Incoming(from, z, s) = {} THEN cs[s]
     ELSE LET r == CHOOSE r \in from : In(r, z) = s
          IN  IF cs[s].quantity = 0 THEN cs[r]
              ELSE [cs[s] EXCEPT !.quantity = @ + cs[r].quantity]]

MovedAllocations(allocs, from, z) ==
  [s \in Slot |->
     IF s \in from THEN [i \in ItemId |-> NoRow]
     ELSE IF Incoming(from, z, s) = {} THEN allocs[s]
     ELSE LET r == CHOOSE r \in from : In(r, z) = s
          IN  [i \in ItemId |->
                 IF allocs[r][i].quantity = 0 THEN allocs[s][i]
                 ELSE Grown(allocs[s][i], allocs[r][i].quantity, allocs[r][i].source)]]

-----------------------------------------------------------------------------
(* cards.rs                                                                 *)

(* The proxies left when a card's quantity changes: a lower one trims them  *)
(* first (trim_deck_card_allocations).                                      *)
ProxiesAt(s, quantity) ==
  IF quantity < cards[s].quantity
  THEN Less(cards[s].proxies, Monus(quantity, Physical(allocations, s)))
  ELSE cards[s].proxies

(* The copies left: trimmed only when the quantity got lower.               *)
Trimmed(st, s, t, quantity) ==
  IF quantity < cards[s].quantity THEN Trim(st, t, quantity) ELSE {st}

(* add_card_in: the row ends at `total' copies and in printing p (its own   *)
(* when the request names none).                                            *)
AddCard(s, total, p) ==
  /\ ListEditable(DeckOf(s))
  /\ p \in PrintingsOf(CardIn(s)) \cup {cards[s].preferred}
  /\ cards' = [cards EXCEPT ![s] =
       [quantity |-> total, proxies |-> ProxiesAt(s, total), preferred |-> p]]
  /\ \E st \in Trimmed(tables, s, s, total) : Write(st)
  /\ UNCHANGED <<status, linked, kind>>

(* update_in, the row moving to Considering: its copies and proxies go.     *)
ShelveCard(s, quantity, p) ==
  LET t == In(s, "considering")
  IN  /\ Listed(s) /\ ListEditable(DeckOf(s))
      /\ t \in Slot /\ t # s /\ ~Listed(t)
      /\ p \in PrintingsOf(CardIn(s)) \cup {NoPrinting}
      /\ cards' = [cards EXCEPT ![s] = NoCard,
                     ![t] = [quantity |-> quantity, proxies |-> 0, preferred |-> p]]
      /\ \E st \in Clear(tables, {s}) : Write(st)
      /\ UNCHANGED <<status, linked, kind>>

(* update_in otherwise: quantity, zone z and printing p are written; then a *)
(* lower quantity trims, then a new printing exchanges the copies held.     *)
(* The target zone must not list the card already (unique key).             *)
UpdateCard(s, quantity, z, p) ==
  LET t == In(s, z)
      from == {s} \ {t}
      keyed == [tables EXCEPT !.allocations = MovedAllocations(@, from, z)]
      room == IF Basic(s) THEN 0 ELSE Monus(quantity, ProxiesAt(s, quantity))
      Exchanged(st) ==
        IF p = cards[s].preferred THEN {st}
        ELSE IF z = "considering" /\ Physical(st.allocations, t) > 0 THEN {}
        ELSE Switch(st, Lists, t, p, room)
  IN  /\ Listed(s) /\ ListEditable(DeckOf(s))
      /\ z = "considering" => ZoneOf(s) = "considering"
      /\ t # s => ~Listed(t)
      /\ p \in PrintingsOf(CardIn(s)) \cup {NoPrinting}
      /\ cards' = [MovedCards(cards, from, z) EXCEPT ![t] =
           [quantity |-> quantity, proxies |-> ProxiesAt(s, quantity), preferred |-> p]]
      /\ \E trimmed \in Trimmed(keyed, s, t, quantity) :
           \E st \in Exchanged(trimmed) : Write(st)
      /\ UNCHANGED <<status, linked, kind>>

(* delete_deck_card, bulk_delete: all or nothing.                           *)
DeleteCards(S) ==
  /\ \A s \in S : Listed(s) /\ ListEditable(DeckOf(s))
  /\ \E st \in Clear(tables, S) : Write(st)
  /\ cards' = [s \in Slot |-> IF s \in S THEN NoCard ELSE cards[s]]
  /\ UNCHANGED <<status, linked, kind>>

(* optimize_printings: each card switches to its cheapest priced printing   *)
(* (prices are outside the model) and its copies go back.                   *)
OptimizePrintings(S, cheapest) ==
  /\ \A s \in S : /\ Listed(s) /\ ListEditable(DeckOf(s))
                  /\ CardOf[cheapest[s]] = CardIn(s)
                  /\ cheapest[s] # cards[s].preferred
  /\ \E st \in Clear(tables, S) : Write(st)
  /\ cards' = [s \in Slot |->
       IF s \in S THEN [cards[s] EXCEPT !.preferred = cheapest[s]] ELSE cards[s]]
  /\ UNCHANGED <<status, linked, kind>>

(* set_commander: the other commanders of the deck move to the mainboard,   *)
(* then the card moves to the command zone.  Which cards may lead a deck is *)
(* outside the model.                                                       *)
SetCommander(s) ==
  LET others == {r \in CardSlots(DeckOf(s)) : ZoneOf(r) = "commander" /\ Listed(r)} \ {s}
      self == {s} \ {In(s, "commander")}
      stepped == MovedCards(cards, others, "mainboard")
      down == MovedAllocations(allocations, others, "mainboard")
  IN  /\ Listed(s) /\ ListEditable(DeckOf(s))
      /\ {"mainboard", "commander"} \subseteq Zone
      /\ cards' = MovedCards(stepped, self, "commander")
      /\ \A r \in Slot : cards'[r].quantity <= MaxQuantity
      /\ allocations' = MovedAllocations(down, self, "commander")
      /\ UNCHANGED <<items, status, linked, kind>>

(* add_partner: a second commander joins the deck's only one.               *)
AddPartner(s) ==
  LET commanders == {r \in CardSlots(DeckOf(s)) : ZoneOf(r) = "commander" /\ Listed(r)}
  IN  /\ Listed(s) /\ ListEditable(DeckOf(s))
      /\ ZoneOf(s) # "commander"
      /\ Cardinality(commanders) = 1
      /\ cards' = MovedCards(cards, {s}, "commander")
      /\ \A r \in Slot : cards'[r].quantity <= MaxQuantity
      /\ allocations' = MovedAllocations(allocations, {s}, "commander")
      /\ UNCHANGED <<items, status, linked, kind>>

-----------------------------------------------------------------------------
(* records.rs                                                               *)

CreateDeck(d, new) ==
  /\ status[d] = "none"
  /\ status' = [status EXCEPT ![d] = new]
  /\ UNCHANGED <<items, allocations, cards, linked, kind>>

(* update_deck with a new status: reservations are left alone.              *)
SetStatus(d, new) ==
  /\ status[d] # "none"
  /\ status' = [status EXCEPT ![d] = new]
  /\ UNCHANGED <<items, allocations, cards, linked, kind>>

(* delete_deck: archived decks too.                                         *)
DeleteDeck(d) ==
  /\ status[d] # "none"
  /\ \E st \in Clear(tables, CardSlots(d)) : Write(st)
  /\ cards' = [s \in Slot |-> IF DeckOf(s) = d THEN NoCard ELSE cards[s]]
  /\ status' = [status EXCEPT ![d] = "none"]
  /\ linked' = [linked EXCEPT ![d] = FALSE]
  /\ UNCHANGED kind

-----------------------------------------------------------------------------
DeckCardsNext ==
  \/ \E s \in Slot, total \in 1 .. MaxQuantity, p \in Printing \cup {NoPrinting} :
       AddCard(s, total, p)
  \/ \E s \in Slot, q \in 1 .. MaxQuantity, p \in Printing \cup {NoPrinting} :
       ShelveCard(s, q, p)
  \/ \E s \in Slot, q \in 1 .. MaxQuantity, z \in Zone, p \in Printing \cup {NoPrinting} :
       UpdateCard(s, q, z, p)
  \/ \E S \in SUBSET {s \in Slot : Listed(s)} : DeleteCards(S)
  \/ \E S \in SUBSET {s \in Slot : Listed(s)} : \E cheapest \in [S -> Printing] :
       OptimizePrintings(S, cheapest)
  \/ \E s \in Slot : SetCommander(s)
  \/ \E s \in Slot : AddPartner(s)
  \/ \E d \in Deck, new \in {"active", "archived"} : CreateDeck(d, new)
  \/ \E d \in Deck, new \in {"active", "archived"} : SetStatus(d, new)
  \/ \E d \in Deck : DeleteDeck(d)
=============================================================================
