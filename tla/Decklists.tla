------------------------------ MODULE Decklists ------------------------------
(***************************************************************************)
(* Decklist imports and card swaps (manavault-collection,                  *)
(* decks/decklist.rs and decks/swap.rs).  Both read the deck and ask       *)
(* whether its list may be edited, and begin their transaction only later: *)
(* the import has a text to parse and names to look up in between.  Other  *)
(* transactions run in that gap.                                           *)
(***************************************************************************)
EXTENDS ManaVault, Sequences

Seqs == INSTANCE SequencesExt
Sums == INSTANCE Functions

CONSTANTS
  MaxEntries,   \* bound: cuts, and adds, of one swap
  MaxRequests   \* bound: links, syncs, imports and swaps under way at once

(* The catalog is a table, and the zones are a fixed list.                  *)
ASSUME DecklistsAssumption == IsFiniteSet(Card) /\ IsFiniteSet(Zone)

VARIABLE
  pending       \* imports and swaps that have read their deck

listVars == <<items, allocations, cards, status, linked, kind, fetching, pending>>

Pending == Deck \X {"import", "swap"}

PendingOK == pending \subseteq Pending

-----------------------------------------------------------------------------
(* One transaction of several card edits: a snapshot of the tables with the *)
(* deck cards, and the set of snapshots each edit may leave.                *)
database == [items |-> items, allocations |-> allocations, cards |-> cards]

WithCards(snapshots, cs) ==
  {[items |-> st.items, allocations |-> st.allocations, cards |-> cs] : st \in snapshots}

Commit(db) == Write(db) /\ cards' = db.cards

(* The deck card's quantity has a limit; beyond it the transaction fails.   *)
WithinLimit(cs) == \A s \in Slot : cs[s].quantity <= MaxQuantity

(* The printing and finish pair a row prefers once an entry named `wanted': *)
(* an entry without a printing still sets the finish.                       *)
Named(own, wanted, c) ==
  IF wanted # NoPrinting THEN {wanted}
  ELSE IF own = NoPrinting THEN {NoPrinting} ELSE PrintingsOf(c)

-----------------------------------------------------------------------------
(* decklist.rs                                                              *)

ListEntry(s) == [quantity : 1 .. MaxQuantity,
                 printing : PrintingsOf(CardIn(s)) \cup {NoPrinting}]

(* A parsed list: the copies its lines name, by card and zone.              *)
ParsedLists(d) ==
  {list \in UNION {[entries -> UNION {ListEntry(s) : s \in entries}] :
                     entries \in SUBSET CardSlots(d)} :
     \A s \in DOMAIN list : list[s] \in ListEntry(s)}

(* Seeded fault: the rows go, and their allocations with them, but no copy  *)
(* goes back.                                                               *)
EmptiedUnreturned(d) ==
  WithCards({[items |-> items,
              allocations |-> [s \in Slot |-> IF DeckOf(s) = d THEN [i \in ItemId |-> NoRow]
                                              ELSE allocations[s]]]},
            [s \in Slot |-> IF DeckOf(s) = d THEN NoCard ELSE cards[s]])

(* `replace': the deck's rows are deleted, unchecked, and give back copies. *)
Emptied(d) ==
  WithCards(Clear(tables, CardSlots(d)),
            [s \in Slot |-> IF DeckOf(s) = d THEN NoCard ELSE cards[s]])

(* import_decklist up to its transaction.                                   *)
BeginImport(d) ==
  /\ ListEditable(d)
  /\ pending' = pending \cup {<<d, "import">>}
  /\ UNCHANGED vars

(* Its transaction: the deck is loaded again but not asked again, and       *)
(* write_import_row has no guard of its own.  A listed card grows; nothing  *)
(* is trimmed or exchanged.                                                 *)
ImportDecklist(d, list, replace) ==
  LET entries == DOMAIN list
  IN  /\ <<d, "import">> \in pending
      /\ status[d] # "none"
      /\ \E db \in IF replace THEN Emptied(d) ELSE {database} :
           \E preferred \in [entries -> Printing \cup {NoPrinting}] :
             /\ \A s \in entries :
                  preferred[s] \in Named(db.cards[s].preferred, list[s].printing, CardIn(s))
             /\ Commit([db EXCEPT !.cards =
                  [s \in Slot |->
                     IF s \in entries
                     THEN [quantity |-> @[s].quantity + list[s].quantity,
                           proxies |-> @[s].proxies, preferred |-> preferred[s]]
                     ELSE @[s]]])
      /\ WithinLimit(cards')
      /\ pending' = pending \ {<<d, "import">>}
      /\ UNCHANGED <<status, linked, kind, fetching>>

-----------------------------------------------------------------------------
(* swap.rs                                                                  *)

InDeck(s) == ZoneOf(s) # "considering"

(* Cuts name rows of the deck.  Adds name a card to consider, which moves   *)
(* to the mainboard, or, by its name, a card of the mainboard.              *)
Cut == [slot : {s \in Slot : InDeck(s)}, quantity : 1 .. MaxQuantity,
        destination : {"remove"} \cup (Zone \cap {"considering"})]
Add == [slot : {s \in Slot : ZoneOf(s) \in {"considering", "mainboard"}
                             /\ In(s, "mainboard") \in Slot},
        quantity : 1 .. MaxQuantity]

ByName(add) == InDeck(add.slot)

(* Seeded fault: a lower quantity leaves the copies reserved.               *)
LoweredUntrimmed(db, s, n) ==
  {[db EXCEPT !.cards[s] = IF n >= @.quantity THEN NoCard
                           ELSE [@ EXCEPT !.quantity = @ - n]]}

(* reduce_or_delete                                                         *)
Lowered(db, s, n) ==
  LET card == db.cards[s]
      left == card.quantity - n
  IN  IF n >= card.quantity
      THEN WithCards(Clear(db, {s}), [db.cards EXCEPT ![s] = NoCard])
      ELSE WithCards(Trim(db, s, left),
             [db.cards EXCEPT ![s] =
                [card EXCEPT !.quantity = left,
                             !.proxies = Less(@, Monus(left, Physical(db.allocations, s)))]])

(* add_copies, and add_card_in for a name: the row of s gets n copies more  *)
(* and one of the printings p.                                              *)
Raised(db, s, n, p) ==
  {[db EXCEPT !.cards[s] = [quantity |-> @.quantity + n, proxies |-> @.proxies,
                            preferred |-> q]] : q \in p}

Copied(db, s, t, n, row) == Raised(db, t, n, Named(db.cards[t].preferred, row.preferred, CardIn(s)))

(* Seeded fault: the row keeps its copies while it is only considered.      *)
ConsideredWithCopies(db, s, t) ==
  {[items |-> db.items,
    allocations |-> MovedAllocations(db.allocations, {s}, "considering"),
    cards |-> MovedCards(db.cards, {s}, "considering")]}

(* update_in, the row moving to Considering: copies and proxies go.         *)
Considered(db, s, t) ==
  WithCards(Clear(db, {s}), [db.cards EXCEPT ![s] = NoCard,
                               ![t] = [db.cards[s] EXCEPT !.proxies = 0]])

(* Seeded fault: the copies are listed as considered before they are cut.   *)
ApplyCutTwice(db, cut) ==
  LET t == In(cut.slot, "considering")
  IN  IF cut.destination = "remove" THEN Lowered(db, cut.slot, cut.quantity)
      ELSE Copied(db, cut.slot, t, cut.quantity, db.cards[cut.slot])

ApplyCut(db, cut) ==
  LET s == cut.slot
      t == In(s, "considering")
      lowered == Lowered(db, s, cut.quantity)
  IN  IF cut.destination = "remove" THEN lowered
      ELSE IF cut.quantity = db.cards[s].quantity /\ db.cards[t].quantity = 0
      THEN Considered(db, s, t)
      ELSE UNION {Copied(st, s, t, cut.quantity, db.cards[s]) : st \in lowered}

ApplyAdd(db, add) ==
  LET s == add.slot
      t == In(s, "mainboard")
  IN  IF ByName(add) THEN Raised(db, s, add.quantity, {db.cards[s].preferred})
      ELSE IF add.quantity = db.cards[s].quantity /\ db.cards[t].quantity = 0
      THEN {[items |-> db.items,
             allocations |-> MovedAllocations(db.allocations, {s}, "mainboard"),
             cards |-> MovedCards(db.cards, {s}, "mainboard")]}
      ELSE UNION {Copied(st, s, t, add.quantity, db.cards[s]) : st \in Lowered(db, s, add.quantity)}

(* normalize and validate_references: what a swap of deck d may ask for.    *)
Asks(d, wishes) ==
  {seq \in Seqs!BoundedSeq({w \in wishes : DeckOf(w.slot) = d}, MaxEntries) :
     \A m, n \in DOMAIN seq : seq[m].slot = seq[n].slot => m = n}

Cuts(d) == Asks(d, {cut \in Cut : cut.quantity <= cards[cut.slot].quantity})
Adds(d) == Asks(d, {add \in Add : ByName(add) \/ add.quantity <= cards[add.slot].quantity})

(* Every cut, then every add, each on what the one before it left.          *)
Applied(db, cuts, adds, n) ==
  IF n <= Len(cuts) THEN ApplyCut(db, cuts[n]) ELSE ApplyAdd(db, adds[n - Len(cuts)])

Swapped(cuts, adds) ==
  LET after[n \in 0 .. Len(cuts) + Len(adds)] ==
        IF n = 0 THEN {database}
        ELSE UNION {Applied(db, cuts, adds, n) : db \in after[n - 1]}
  IN  after[Len(cuts) + Len(adds)]

(* apply up to its transaction.                                             *)
BeginSwap(d) ==
  /\ ListEditable(d)
  /\ pending' = pending \cup {<<d, "swap">>}
  /\ UNCHANGED vars

(* Its transaction, all or nothing.  Cutting, and moving a considered card, *)
(* ask the deck again (update_in, delete_checked_in); adding by name asks   *)
(* the deck read before the transaction.                                    *)
ApplySwap(d, cuts, adds) ==
  /\ <<d, "swap">> \in pending
  /\ status[d] # "none"
  /\ cuts # <<>> \/ adds # <<>>
  /\ cuts # <<>> \/ (\E n \in DOMAIN adds : ~ByName(adds[n])) => ListEditable(d)
  /\ \E db \in Swapped(cuts, adds) : Commit(db)
  /\ WithinLimit(cards')
  /\ pending' = pending \ {<<d, "swap">>}
  /\ UNCHANGED <<status, linked, kind, fetching>>

(* The text names an unknown zone, the swap is invalid, or the server stops.*)
RequestFails(r) ==
  /\ r \in pending
  /\ pending' = pending \ {r}
  /\ UNCHANGED vars

-----------------------------------------------------------------------------
DecklistsInit == Init /\ pending = {}

(* A request for a deck that is deleted meanwhile finds no deck row.        *)
OthersKeepRequests == pending' = {r \in pending : status'[r[1]] # "none"}

RequestsNext ==
  \/ \E d \in Deck : BeginImport(d)
  \/ \E d \in Deck : \E list \in ParsedLists(d), replace \in BOOLEAN :
       ImportDecklist(d, list, replace)
  \/ \E d \in Deck : BeginSwap(d)
  \/ \E d \in Deck : \E cuts \in Cuts(d), adds \in Adds(d) : ApplySwap(d, cuts, adds)
  \/ \E r \in pending : RequestFails(r)

FewRequests == Cardinality(fetching' \cup pending') <= MaxRequests

DecklistsNext ==
  /\ \/ Next /\ OthersKeepRequests
     \/ RequestsNext
  /\ FewRequests

DecklistsSpec == DecklistsInit /\ [][DecklistsNext]_listVars

-----------------------------------------------------------------------------
(* swap.rs preview: the cards the swapped deck would count, computed from   *)
(* the rows alone, without applying anything.                               *)
DeckRows(d) == {s \in CardSlots(d) : InDeck(s)}

Counted(cs, d) == Sums!SumFunction([s \in DeckRows(d) |-> cs[s].quantity])

CutFrom(cuts, s) ==
  Sums!SumFunction([n \in {n \in DOMAIN cuts : cuts[n].slot = s} |-> cuts[n].quantity])

Preview(d, cuts, adds) ==
  Sums!SumFunction([s \in DeckRows(d) |-> Monus(cards[s].quantity, CutFrom(cuts, s))])
  + Sums!SumFunction([n \in DOMAIN adds |-> adds[n].quantity])

(* What the workbench shows is what is applied: a swap that is under way    *)
(* would end, on the deck as it is by now, at the count preview computes    *)
(* from the staged entries ("the swapped list's legality and count",        *)
(* swap.rs:168), although apply moves, merges, lowers and deletes rows one  *)
(* entry after the other.                                                   *)
SwapAsPreviewed ==
  \A d \in Deck : <<d, "swap">> \in pending /\ ListEditable(d) =>
    \A cuts \in Cuts(d), adds \in Adds(d) :
      \A db \in Swapped(cuts, adds) : Counted(db.cards, d) = Preview(d, cuts, adds)

(* "archived decks are frozen", and the card list of a linked deck "only    *)
(* changes through sync" (decks/mod.rs:107, 116): while a deck is archived  *)
(* or linked no other operation changes how many copies of a card it lists, *)
(* save requests that read the deck before: a late import, which is not     *)
(* asked again (decklist.rs:276), and a late swap, which only gets its      *)
(* named cards in (swap.rs:265).                                            *)
GuardedListsKept ==
  [][\A s \in Slot :
       LET d == DeckOf(s)
           Ends(r) == <<d, r>> \in (fetching \cup pending) \ (fetching' \cup pending')
       IN  /\ status[d] = "archived" \/ linked[d]
           /\ status'[d] # "none"
           /\ cards'[s].quantity # cards[s].quantity
           => \/ Ends("link") \/ Ends("sync") \/ Ends("import")
              \/ Ends("swap") /\ cards'[s].quantity > cards[s].quantity]_cards
=============================================================================
