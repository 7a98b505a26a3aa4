------------------------------- MODULE Stock --------------------------------
(***************************************************************************)
(* The two tables the allocation engine writes, and the moves it makes     *)
(* between them: collection_items (a row is a stack of copies of one       *)
(* printing in one place) and deck_allocations (a row reserves copies of   *)
(* one item for one deck card).                                            *)
(*                                                                         *)
(* Every operator works on a snapshot                                      *)
(*     st = [items |-> ..., allocations |-> ...]                           *)
(* of both tables and returns the SET of snapshots one step of a           *)
(* transaction can lead to (which fresh row id a split gets, and which     *)
(* rows a partial release drains, are left open).  The empty set is a      *)
(* failed step, which rolls the whole transaction back.                    *)
(*                                                                         *)
(* A deck card is named by its unique key <<deck, card, zone>>; a printing *)
(* stands for the pair of scryfall id and finish.                          *)
(***************************************************************************)
EXTENDS Naturals, FiniteSets

CONSTANTS
  Deck,         \* deck ids
  Card,         \* oracle ids
  BasicLand,    \* the cards that are basic lands
  Zone,         \* the zones in use
  Printing,     \* printing and finish pairs
  CardOf,       \* the card each printing shows
  Location,     \* location ids
  ItemId,       \* collection item ids
  MaxCopies,    \* bound: copies in one collection item
  NoPrinting,   \* NULL preferred_printing_id
  Unfiled       \* NULL location_id

ASSUME TablesAssumption ==
  /\ IsFiniteSet(Deck) /\ IsFiniteSet(Card) /\ IsFiniteSet(ItemId)
  /\ BasicLand \subseteq Card
  /\ Zone \subseteq {"mainboard", "commander", "considering"}
  /\ CardOf \in [Printing -> Card]
  /\ MaxCopies \in Nat
  /\ NoPrinting \notin Printing
  /\ Unfiled \notin Location

Place == Location \cup {Unfiled}
Slot == Deck \X Card \X Zone
DeckOf(s) == s[1]
CardIn(s) == s[2]
ZoneOf(s) == s[3]

Item == [copies : 0 .. MaxCopies, printed : Printing \cup {NoPrinting}, filed : Place]
Row == [quantity : 0 .. MaxCopies, source : Place]

(* A row that is not in its table: its count is 0.                          *)
Absent == [copies |-> 0, printed |-> NoPrinting, filed |-> Unfiled]
NoRow == [quantity |-> 0, source |-> Unfiled]

Snapshot == [items : [ItemId -> Item], allocations : [Slot -> [ItemId -> Row]]]

(***************************************************************************)
(* Counting: a total is the number of its units.                           *)
(***************************************************************************)
Units(amount) == {u \in ItemId \X (1 .. MaxCopies) : u[2] <= amount[u[1]]}
Total(amount) == Cardinality(Units(amount))

Less(m, n) == IF m <= n THEN m ELSE n            \* min
Monus(m, n) == IF m <= n THEN 0 ELSE m - n       \* saturating_sub

HeldBy(allocs, s) == [i \in ItemId |-> allocs[s][i].quantity]
Physical(allocs, s) == Total(HeldBy(allocs, s))

(* The copies of item i reserved by the deck cards of S.                    *)
PromisedUnits(allocs, S, i) ==
  {u \in S \X (1 .. MaxCopies) : u[2] <= allocs[u[1]][i].quantity}
Promised(allocs, S, i) == Cardinality(PromisedUnits(allocs, S, i))

(***************************************************************************)
(* items.rs: moving copies between places.  `amount' copies of each item   *)
(* move to `place'.  An item that gives all of its copies moves whole; one *)
(* that gives some keeps the rest, and a new row holds what moved: `at'    *)
(* tells which row holds the moved copies of each item.                    *)
(***************************************************************************)
Moved(amount) == {i \in ItemId : amount[i] > 0}

(* {} when an item has too few copies: move_copies fails.                    *)
Destinations(items, amount) ==
  {at \in [Moved(amount) -> ItemId] :
     /\ \A i \in ItemId : amount[i] <= items[i].copies
     /\ \A i \in Moved(amount) :
          IF amount[i] = items[i].copies THEN at[i] = i
                                         ELSE items[at[i]].copies = 0
     /\ \A i, j \in Moved(amount) : at[i] = at[j] => i = j}

MovedItems(items, amount, place, at) ==
  [j \in ItemId |->
     IF \E i \in Moved(amount) : at[i] = j
     THEN LET i == CHOOSE i \in Moved(amount) : at[i] = j
          IN  [copies |-> amount[i], printed |-> items[i].printed, filed |-> place[i]]
     ELSE [copies |-> items[j].copies - amount[j],
           printed |-> items[j].printed, filed |-> items[j].filed]]

(***************************************************************************)
(* release.rs: the deck cards of S give back copies, which go to the       *)
(* source location of the allocation that held them.                       *)
(***************************************************************************)
HeldOnce(allocs, S) ==
  \A i \in ItemId : \A s, t \in S :
    allocs[s][i].quantity > 0 /\ allocs[t][i].quantity > 0 => s = t

HolderIn(allocs, S, i) == CHOOSE s \in S : allocs[s][i].quantity > 0

HeldIn(allocs, S, i) ==
  IF \E s \in S : allocs[s][i].quantity > 0
  THEN allocs[HolderIn(allocs, S, i)][i].quantity ELSE 0

Reduced(row, n) ==
  IF row.quantity <= n THEN NoRow
                       ELSE [quantity |-> row.quantity - n, source |-> row.source]

Release(st, S, give) ==
  LET home == [i \in Moved(give) |->
                 st.allocations[HolderIn(st.allocations, S, i)][i].source]
  IN  {[items |-> MovedItems(st.items, give, home, at),
        allocations |-> [s \in Slot |-> [i \in ItemId |->
          IF s \in S THEN Reduced(st.allocations[s][i], give[i])
                     ELSE st.allocations[s][i]]]] :
       at \in Destinations(st.items, give)}

(* clear_deck_card_allocations, for every deck card of S.  An item two of   *)
(* them hold would be given back twice: no reachable state has one while    *)
(* item edits keep the card (see OneHolder in Allocation).                  *)
Clear(st, S) ==
  IF HeldOnce(st.allocations, S)
  THEN Release(st, S, [i \in ItemId |-> HeldIn(st.allocations, S, i)])
  ELSE {}

(* The physical half of trim_deck_card_allocations: copies above `required' *)
(* go back.  The code drains the oldest allocations first; any choice of    *)
(* rows is allowed here.                                                    *)
Trim(st, s, required) ==
  LET physical == Physical(st.allocations, s)
  IN  UNION {Release(st, {s}, give) :
        give \in {g \in [ItemId -> 0 .. MaxCopies] :
                    /\ \A i \in ItemId : g[i] <= st.allocations[s][i].quantity
                    /\ Total(g) = Monus(physical, required)}}

(***************************************************************************)
(* allocate.rs: reserving.  take[i] copies of item i leave their place for *)
(* deck card to[i]; a new allocation remembers where they came from.       *)
(***************************************************************************)
Grown(row, n, from) ==
  IF row.quantity > 0 THEN [quantity |-> row.quantity + n, source |-> row.source]
                      ELSE [quantity |-> n, source |-> from]

(* Seeded fault: part of an item is reserved without splitting it off.      *)
ReserveUnsplit(st, to, take) ==
  {[items |-> [i \in ItemId |-> IF take[i] > 0 THEN [st.items[i] EXCEPT !.filed = Unfiled]
                                              ELSE st.items[i]],
    allocations |-> [s \in Slot |-> [i \in ItemId |->
      IF take[i] > 0 /\ to[i] = s
      THEN Grown(st.allocations[s][i], take[i], st.items[i].filed)
      ELSE st.allocations[s][i]]]]}

Reserve(st, to, take) ==
  {[items |-> MovedItems(st.items, take, [i \in Moved(take) |-> Unfiled], at),
    allocations |-> [s \in Slot |-> [j \in ItemId |->
      IF \E i \in Moved(take) : at[i] = j /\ to[i] = s
      THEN LET i == CHOOSE i \in Moved(take) : at[i] = j
           IN  Grown(st.allocations[s][j], take[i], st.items[i].filed)
      ELSE st.allocations[s][j]]]] :
   at \in Destinations(st.items, take)}

Only(i, n) == [j \in ItemId |-> IF j = i THEN n ELSE 0]

(***************************************************************************)
(* status.rs: which copies a card may still take.  A copy counts as taken  *)
(* when a deck card OF THE SAME CARD holds it (load_allocation_counts      *)
(* selects by the deck card's oracle id, not by the item's).  `lists' are  *)
(* the list locations: what is filed there is wanted, not owned.           *)
(***************************************************************************)
SlotsOf(c) == {s \in Slot : CardIn(s) = c}

(* Seeded fault: the item may show any card.                                *)
CandidateOfAnyCard(st, lists, c, i) ==
  st.items[i].copies > 0 /\ st.items[i].filed \notin lists

Candidate(st, lists, c, i) ==
  /\ st.items[i].copies > 0
  /\ CardOf[st.items[i].printed] = c
  /\ st.items[i].filed \notin lists

(* Seeded fault: copies other decks hold are not counted.                   *)
AvailableUncounted(st, c, i) == st.items[i].copies

Available(st, c, i) == Monus(st.items[i].copies, Promised(st.allocations, SlotsOf(c), i))

(* allocate_available_preferred_printing: up to `needed' copies of the      *)
(* printing, from any of its items (the code: lowest item id first).        *)
ReservePreferred(st, lists, s, printing, needed) ==
  LET avail == [i \in ItemId |->
                  IF Candidate(st, lists, CardIn(s), i) /\ st.items[i].printed = printing
                  THEN Available(st, CardIn(s), i) ELSE 0]
  IN  UNION {Reserve(st, [i \in ItemId |-> s], take) :
        take \in {t \in [ItemId -> 0 .. MaxCopies] :
                    /\ \A i \in ItemId : t[i] <= avail[i]
                    /\ Total(t) = Less(needed, Total(avail))}}

(* switch_allocation_to_preferred_printing: every copy goes back, then as   *)
(* many copies of the printing are reserved, if there is `room' for them.   *)
Switch(st, lists, s, printing, room) ==
  LET physical == Physical(st.allocations, s)
  IN  UNION {ReservePreferred(cleared, lists, s, printing, Less(physical, room)) :
               cleared \in Clear(st, {s})}
=============================================================================
