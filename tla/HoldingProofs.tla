---------------------------- MODULE HoldingProofs ----------------------------
(***************************************************************************)
(* What deck cards hold, for every deck, card, item and bound, provided    *)
(* that edits of reserved items keep the card: never more than their       *)
(* quantity beside their proxies, and nothing when they are an idea or a   *)
(* basic land.                                                             *)
(*                                                                         *)
(* A total is the number of its units, so totals are compared by mapping   *)
(* units to units.  What each move of Stock does to one deck card comes    *)
(* first, then one lemma per action that touches deck cards or             *)
(* allocations, once for each of the two invariants; that every copy keeps *)
(* its home comes with the first; then, that the cards and copies of an    *)
(* archived deck stay as they are.                                         *)
(*                                                                         *)
(* Last the imports and swaps of Decklists.  A swap applies any number of  *)
(* entries one after the other, so what each entry keeps has to be carried *)
(* along all of them: SwappedThrough does it once, for any sets of         *)
(* databases that the entries lead through.  What a preview counts is a    *)
(* sum over the deck's rows, and a sum is the number of its parts.         *)
(***************************************************************************)
EXTENDS ManaVaultProofs, Decklists, FunctionTheorems

Idle(s) == ZoneOf(s) = "considering" \/ Basic(s)

Empty(allocs, s) == \A i \in ItemId : allocs[s][i].quantity = 0

IdleEmpty(allocs, cs) == \A s \in Slot : Idle(s) => Empty(allocs, s) /\ cs[s].proxies = 0

-----------------------------------------------------------------------------
(* Totals.                                                                  *)
LEMMA UnitsFinite ==
  ASSUME NEW amount
  PROVE  IsFiniteSet(Units(amount))
<1>1. IsFiniteSet(1 .. MaxCopies)
  BY FS_Interval, TablesAssumption DEF TablesAssumption
<1>2. IsFiniteSet(ItemId \X (1 .. MaxCopies))
  BY <1>1, FS_Product, TablesAssumption DEF TablesAssumption
<1>3. Units(amount) \in SUBSET (ItemId \X (1 .. MaxCopies))
  BY DEF Units
<1> QED BY <1>2, <1>3, FS_Subset

(* A total of nothing is nothing, and only that.                            *)
LEMMA TotalZero ==
  ASSUME NEW amount \in [ItemId -> 0 .. MaxCopies]
  PROVE  Total(amount) = 0 <=> \A i \in ItemId : amount[i] = 0
<1>0. MaxCopies \in Nat
  BY TablesAssumption DEF TablesAssumption
<1>1. Total(amount) = 0 <=> Units(amount) = {}
  BY UnitsFinite, FS_EmptySet DEF Total
<1>2. ASSUME NEW i \in ItemId, amount[i] # 0 PROVE <<i, 1>> \in Units(amount)
  BY <1>0, <1>2 DEF Units
<1>3. ASSUME NEW u \in Units(amount) PROVE amount[u[1]] # 0 /\ u[1] \in ItemId
  BY <1>0, <1>3 DEF Units
<1> QED BY <1>1, <1>2, <1>3

(* A deck card that holds no copies has empty rows.                         *)
LEMMA PhysicalZero ==
  ASSUME NEW allocs \in [Slot -> [ItemId -> Row]], NEW s \in Slot
  PROVE  /\ HeldBy(allocs, s) \in [ItemId -> 0 .. MaxCopies]
         /\ Physical(allocs, s) = 0 <=> Empty(allocs, s)
<1>1. HeldBy(allocs, s) \in [ItemId -> 0 .. MaxCopies]
  BY DEF HeldBy, Row
<1>2. \A i \in ItemId : HeldBy(allocs, s)[i] = allocs[s][i].quantity
  BY DEF HeldBy
<1> QED BY <1>1, <1>2, TotalZero DEF Physical, Empty

-----------------------------------------------------------------------------
(* Moves that leave an empty row empty.                                     *)
LEMMA ReleaseEmpty ==
  ASSUME NEW st, Sound(st), NEW S, NEW give \in [ItemId -> 0 .. MaxCopies],
         NEW new \in Release(st, S, give), NEW s \in Slot
  PROVE  /\ Empty(st.allocations, s) => Empty(new.allocations, s)
         /\ s \in S /\ (\A i \in ItemId : st.allocations[s][i].quantity <= give[i])
              => Empty(new.allocations, s)
<1> DEFINE al == st.allocations
           home == [i \in Moved(give) |-> al[HolderIn(al, S, i)][i].source]
           left == [r \in Slot |-> [i \in ItemId |->
                      IF r \in S THEN Reduced(al[r][i], give[i]) ELSE al[r][i]]]
<1>1. PICK at \in Destinations(st.items, give) :
        new = [items |-> MovedItems(st.items, give, home, at), allocations |-> left]
  BY DEF Release
<1>2. \A i \in ItemId : new.allocations[s][i] =
        IF s \in S THEN Reduced(al[s][i], give[i]) ELSE al[s][i]
  BY <1>1
<1>3. \A i \in ItemId : give[i] \in Nat /\ al[s][i].quantity \in Nat
  BY SoundParts, TablesAssumption DEF TablesAssumption
<1> HIDE DEF al
<1>4. ASSUME NEW i \in ItemId, al[s][i].quantity = 0
      PROVE  new.allocations[s][i].quantity = 0
  <2>1. CASE s \in S
    <3>1. Reduced(al[s][i], give[i]) = NoRow
      BY <1>3, <1>4 DEF Reduced
    <3> QED BY <1>2, <2>1, <3>1 DEF NoRow
  <2>2. CASE s \notin S
    BY <1>2, <1>4, <2>2
  <2> QED BY <2>1, <2>2
<1>5. ASSUME NEW i \in ItemId, s \in S, al[s][i].quantity <= give[i]
      PROVE  new.allocations[s][i].quantity = 0
  <2>1. Reduced(al[s][i], give[i]) = NoRow
    BY <1>3, <1>5 DEF Reduced
  <2> QED BY <1>2, <1>5, <2>1 DEF NoRow
<1> QED BY <1>4, <1>5 DEF Empty, al

(* Returning everything leaves an empty row empty.                          *)
LEMMA ClearEmpty ==
  ASSUME NEW st, Sound(st), NEW S \in SUBSET Slot, NEW new \in Clear(st, S), NEW s \in Slot,
         Empty(st.allocations, s)
  PROVE  Empty(new.allocations, s)
<1> DEFINE give == [i \in ItemId |-> HeldIn(st.allocations, S, i)]
<1>1. new \in Release(st, S, give)
  BY DEF Clear
<1>2. ASSUME NEW i \in ItemId PROVE give[i] \in 0 .. MaxCopies
  <2>1. \/ give[i] = 0
        \/ \E r \in S : give[i] = st.allocations[r][i].quantity
    BY DEF HeldIn, HolderIn
  <2> QED BY <2>1, SoundParts, TablesAssumption DEF TablesAssumption
<1>3. give \in [ItemId -> 0 .. MaxCopies]
  BY <1>2
<1> HIDE DEF give
<1> QED BY <1>1, <1>3, ReleaseEmpty

(* So does a trim.                                                          *)
LEMMA TrimEmpty ==
  ASSUME NEW st, Sound(st), NEW t \in Slot, NEW required, NEW new \in Trim(st, t, required),
         NEW s \in Slot, Empty(st.allocations, s)
  PROVE  Empty(new.allocations, s)
<1>1. PICK give \in [ItemId -> 0 .. MaxCopies] : new \in Release(st, {t}, give)
  BY DEF Trim
<1> QED BY <1>1, ReleaseEmpty

(* Copies are reserved for the deck cards named only.                       *)
LEMMA ReserveEmpty ==
  ASSUME NEW st, NEW to, NEW take \in [ItemId -> 0 .. MaxCopies],
         NEW new \in Reserve(st, to, take), NEW s \in Slot,
         Empty(st.allocations, s), \A i \in Moved(take) : to[i] # s
  PROVE  Empty(new.allocations, s)
<1> DEFINE al == st.allocations
           nowhere == [i \in Moved(take) |-> Unfiled]
<1>1. PICK at \in Destinations(st.items, take) :
        new = [items |-> MovedItems(st.items, take, nowhere, at),
               allocations |-> [r \in Slot |-> [j \in ItemId |->
                 IF \E i \in Moved(take) : at[i] = j /\ to[i] = r
                 THEN LET i == CHOOSE i \in Moved(take) : at[i] = j
                      IN  Grown(al[r][j], take[i], st.items[i].filed)
                 ELSE al[r][j]]]]
  BY DEF Reserve
<1>2. ~ \E i \in Moved(take) : to[i] = s
  OBVIOUS
<1>3. ASSUME NEW j \in ItemId PROVE new.allocations[s][j] = al[s][j]
  <2>1. ~ \E i \in Moved(take) : at[i] = j /\ to[i] = s
    BY <1>2
  <2> QED BY <1>1, <2>1
<1> QED BY <1>3 DEF Empty

(* An exchange puts nothing into an empty row.                              *)
LEMMA SwitchEmpty ==
  ASSUME NEW st, Sound(st), NEW lists, NEW t \in Slot, NEW printing, NEW room \in Nat,
         NEW new \in Switch(st, lists, t, printing, room),
         NEW s \in Slot, Empty(st.allocations, s)
  PROVE  Empty(new.allocations, s)
<1> DEFINE needed == Less(Physical(st.allocations, t), room)
<1>1. PICK cleared \in Clear(st, {t}) : new \in ReservePreferred(cleared, lists, t, printing, needed)
  BY DEF Switch
<1>2. Empty(cleared.allocations, s)
  BY ClearEmpty
<1>3. s = t => Physical(st.allocations, t) = 0
  BY SoundParts, PhysicalZero
<1>4. s = t => needed = 0
  BY <1>3 DEF Less
<1> HIDE DEF needed
<1> DEFINE avail == [i \in ItemId |->
                       IF Candidate(cleared, lists, CardIn(t), i)
                          /\ cleared.items[i].printed = printing
                       THEN Available(cleared, CardIn(t), i) ELSE 0]
<1>5. PICK take \in [ItemId -> 0 .. MaxCopies] :
        /\ Total(take) = Less(needed, Total(avail))
        /\ new \in Reserve(cleared, [i \in ItemId |-> t], take)
  BY <1>1 DEF ReservePreferred
<1> HIDE DEF avail
<1>6. CASE s # t
  <2>1. \A i \in Moved(take) : [j \in ItemId |-> t][i] # s
    BY <1>6 DEF Moved
  <2> QED BY <1>2, <1>5, <2>1, ReserveEmpty
<1>7. CASE s = t
  <2>1. Total(take) = 0
    BY <1>4, <1>5, <1>7, TotalType DEF Less
  <2>2. Moved(take) = {}
    BY <2>1, TotalZero DEF Moved
  <2> QED BY <1>2, <1>5, <2>2, ReserveEmpty
<1> QED BY <1>6, <1>7

-----------------------------------------------------------------------------
(* The actions.                                                             *)
IdeaInv == Inv /\ IdleEmpty(allocations, cards)

(* What the idle deck cards held stays nothing.                             *)
LEMMA StaysIdle ==
  ASSUME IdeaInv, NEW st, Write(st),
         \A s \in Slot : Idle(s) => Empty(st.allocations, s) /\ cards'[s].proxies = 0
  PROVE  IdleEmpty(allocations, cards)'
  BY DEF IdleEmpty, Write, Idle, Basic, Empty

(* What the invariant says of one idle deck card.                           *)
LEMMA IdleParts ==
  ASSUME IdeaInv, NEW s \in Slot, Idle(s)
  PROVE  /\ Empty(tables.allocations, s) /\ Empty(allocations, s)
         /\ cards[s].proxies = 0 /\ Physical(allocations, s) = 0
<1>1. Empty(allocations, s) /\ cards[s].proxies = 0
  BY DEF IdeaInv, IdleEmpty
<1>2. tables.allocations = allocations /\ allocations \in [Slot -> [ItemId -> Row]]
  BY InvParts DEF IdeaInv
<1> QED BY <1>1, <1>2, PhysicalZero

(* No proxies stay none when the quantity changes.                          *)
LEMMA IdleProxies ==
  ASSUME IdeaInv, NEW s \in Slot, Idle(s), NEW quantity \in Nat
  PROVE  ProxiesAt(s, quantity) = 0
<1>1. cards[s].proxies = 0
  BY IdleParts
<1>2. Monus(quantity, Physical(allocations, s)) \in Nat
  BY TotalType DEF Physical, Monus
<1> QED BY <1>1, <1>2 DEF ProxiesAt, Less

(* Basic lands and Considering have no room.                                *)
LEMMA AllocationIdle ==
  ASSUME IdeaInv, AllocationNext
  PROVE  IdleEmpty(allocations, cards)'
<1>0. Sound(tables) /\ \A s \in Slot : cards[s].quantity \in Nat /\ cards[s].proxies \in Nat
  BY CardFields DEF IdeaInv, Inv
<1>1. ASSUME NEW s \in Slot, NEW i \in ItemId, NEW q \in 1 .. MaxCopies, Allocate(s, i, q)
      PROVE  IdleEmpty(allocations, cards)'
  <2>1. PICK st \in Reserve(tables, [j \in ItemId |-> s], Only(i, q)) : Write(st)
    BY <1>1 DEF Allocate
  <2>2. q \in Nat /\ q > 0 /\ q <= MaxCopies /\ MaxCopies \in Nat
    BY TablesAssumption DEF TablesAssumption
  <2>3. Only(i, q) \in [ItemId -> 0 .. MaxCopies]
    BY <2>2 DEF Only
  <2>4. ~Idle(s)
    BY <1>1, <2>2 DEF Allocate, Allocatable, Room, Idle
  <2>5. \A r \in Slot : Idle(r) => Empty(st.allocations, r)
    <3> SUFFICES ASSUME NEW r \in Slot, Idle(r) PROVE Empty(st.allocations, r)
      OBVIOUS
    <3>1. r # s /\ Empty(tables.allocations, r)
      BY <2>4, IdleParts
    <3>2. \A j \in Moved(Only(i, q)) : [k \in ItemId |-> s][j] # r
      BY <3>1 DEF Moved
    <3> QED BY <2>1, <2>3, <3>1, <3>2, ReserveEmpty
  <2>6. \A r \in Slot : Idle(r) => cards'[r].proxies = 0
    <3>1. \A r \in Slot : r # s => cards'[r] = cards[r]
      BY <1>1, InvParts DEF Allocate, IdeaInv
    <3> QED BY <2>4, <3>1, IdleParts
  <2> QED BY <2>1, <2>5, <2>6, StaysIdle
<1>2. ASSUME NEW s \in Slot, NEW i \in ItemId, NEW q \in 1 .. MaxCopies, Deallocate(s, i, q)
      PROVE  IdleEmpty(allocations, cards)'
  <2> DEFINE n == Less(q, allocations[s][i].quantity)
  <2>1. PICK st \in Release(tables, {s}, Only(i, n)) : Write(st)
    BY <1>2 DEF Deallocate
  <2>2. /\ allocations[s][i].quantity \in Nat /\ allocations[s][i].quantity <= MaxCopies
        /\ q \in Nat /\ MaxCopies \in Nat
    BY InvParts, TablesAssumption DEF TablesAssumption, Row, IdeaInv
  <2>3. n \in 0 .. MaxCopies
    BY <2>2 DEF Less
  <2> HIDE DEF n
  <2>4. Only(i, n) \in [ItemId -> 0 .. MaxCopies]
    BY <2>2, <2>3 DEF Only
  <2>5. \A r \in Slot : Idle(r) => Empty(st.allocations, r)
    BY <1>0, <2>1, <2>4, IdleParts, ReleaseEmpty
  <2>6. \A r \in Slot : Idle(r) => cards'[r].proxies = 0
    BY <1>2, IdleParts DEF Deallocate
  <2> QED BY <2>1, <2>5, <2>6, StaysIdle
<1>3. ASSUME NEW s \in Slot, NEW q \in 1 .. MaxQuantity, AllocateProxy(s, q)
      PROVE  IdleEmpty(allocations, cards)'
  <2>1. q \in Nat /\ q > 0
    BY CardFields DEF IdeaInv
  <2>2. ~Idle(s)
    BY <1>3, <2>1 DEF AllocateProxy, Allocatable, Room, Idle
  <2>3. \A r \in Slot : r # s => cards'[r] = cards[r]
    BY <1>3, InvParts DEF AllocateProxy, IdeaInv
  <2>4. Write(tables)
    BY <1>3 DEF AllocateProxy, Write, tables
  <2> QED BY <2>2, <2>3, <2>4, IdleParts, StaysIdle
<1>4. ASSUME NEW s \in Slot, NEW q \in 1 .. MaxQuantity, DeallocateProxy(s, q)
      PROVE  IdleEmpty(allocations, cards)'
  <2>1. q \in Nat /\ q > 0 /\ q <= cards[s].proxies
    BY <1>4, CardFields DEF IdeaInv, DeallocateProxy
  <2>2. ~Idle(s)
    BY <2>1, IdleParts
  <2>3. \A r \in Slot : r # s => cards'[r] = cards[r]
    BY <1>4, InvParts DEF DeallocateProxy, IdeaInv
  <2>4. Write(tables)
    BY <1>4 DEF DeallocateProxy, Write, tables
  <2> QED BY <2>2, <2>3, <2>4, IdleParts, StaysIdle
<1>5. ASSUME NEW S \in SUBSET Slot, BulkDeallocate(S)
      PROVE  IdleEmpty(allocations, cards)'
  <2>1. PICK st \in Clear(tables, S) : Write(st)
    BY <1>5 DEF BulkDeallocate
  <2>2. \A r \in Slot : Idle(r) => Empty(st.allocations, r)
    BY <1>0, <2>1, IdleParts, ClearEmpty
  <2>3. ASSUME NEW r \in Slot, Idle(r) PROVE cards'[r].proxies = 0
    <3>1. cards[r] \in DeckCard /\ cards[r].proxies = 0
      BY <2>3, IdleParts, InvParts DEF IdeaInv
    <3>2. cards'[r] = IF r \in S THEN [cards[r] EXCEPT !.proxies = 0] ELSE cards[r]
      BY <1>5 DEF BulkDeallocate
    <3>3. [cards[r] EXCEPT !.proxies = 0].proxies = 0
      BY <3>1 DEF DeckCard
    <3> QED BY <3>1, <3>2, <3>3
  <2> QED BY <2>1, <2>2, <2>3, StaysIdle
<1>6. ASSUME NEW d \in Deck, Disassemble(d)
      PROVE  IdleEmpty(allocations, cards)'
  <2>1. PICK st \in Clear(tables, CardSlots(d)) : Write(st)
    BY <1>6 DEF Disassemble
  <2>2. CardSlots(d) \in SUBSET Slot
    BY DEF CardSlots
  <2>3. \A r \in Slot : Idle(r) => Empty(st.allocations, r)
    BY <1>0, <2>1, <2>2, IdleParts, ClearEmpty
  <2> QED BY <1>6, <2>1, <2>3, IdleParts, StaysIdle DEF Disassemble
<1>7. ASSUME NEW d \in Deck, NEW z \in Zone,
             NEW I \in SUBSET {i \in ItemId : items[i].copies > 0}, AddCollectionItems(d, I, z)
      PROVE  IdleEmpty(allocations, cards)'
  <2> DEFINE slotOf == [i \in I |-> Key(d, CardOf[items[i].printed], z)]
             group(s) == {i \in I : slotOf[i] = s}
             reserved == {i \in I : z # "considering" /\ ~Basic(slotOf[i])}
             take == [i \in ItemId |-> IF i \in reserved THEN 1 ELSE 0]
             grown(first) == [s \in Slot |->
               IF s \in DOMAIN first
               THEN [quantity |-> cards[s].quantity + Cardinality(group(s)),
                     proxies |-> cards[s].proxies,
                     preferred |-> items[first[s]].printed]
               ELSE cards[s]]
  <2>1. PICK first \in [{slotOf[i] : i \in I} -> I] : cards' = grown(first)
    BY <1>7 DEF AddCollectionItems
  <2>2. PICK st \in Reserve(tables, slotOf, take) : Write(st)
    BY <1>7 DEF AddCollectionItems
  <2>3. take \in [ItemId -> 0 .. MaxCopies]
    <3>1. \A i \in ItemId : items[i].copies \in 0 .. MaxCopies
      BY InvParts DEF IdeaInv, Item
    <3>2. \A i \in I : items[i].copies > 0 /\ i \in ItemId
      OBVIOUS
    <3>3. \A i \in ItemId : take[i] \in 0 .. MaxCopies
      BY <3>1, <3>2, TablesAssumption DEF TablesAssumption
    <3>4. take = [i \in ItemId |-> take[i]]
      OBVIOUS
    <3> HIDE DEF take
    <3> QED BY <3>3, <3>4
  <2>4. \A i \in Moved(take) : i \in I /\ z # "considering" /\ ~Basic(slotOf[i])
    BY DEF Moved
  <2>5. \A i \in I : ZoneOf(slotOf[i]) = z
    BY DEF Key, ZoneOf
  <2>6. \A r \in Slot : Idle(r) => cards'[r].proxies = 0
    <3>1. \A r \in Slot : grown(first)[r].proxies = cards[r].proxies
      OBVIOUS
    <3> HIDE DEF grown
    <3> QED BY <2>1, <3>1, IdleParts
  <2> HIDE DEF slotOf, take
  <2>7. \A r \in Slot : Idle(r) => Empty(st.allocations, r)
    <3> SUFFICES ASSUME NEW r \in Slot, Idle(r) PROVE Empty(st.allocations, r)
      OBVIOUS
    <3>1. \A i \in Moved(take) : slotOf[i] # r
      BY <2>4, <2>5 DEF Idle
    <3> QED BY <2>2, <2>3, <3>1, IdleParts, ReserveEmpty
  <2> QED BY <2>2, <2>6, <2>7, StaysIdle
<1> QED BY <1>1, <1>2, <1>3, <1>4, <1>5, <1>6, <1>7 DEF AllocationNext

(* Deleting items and locations only takes rows away.                       *)
LEMMA RowsKept ==
  ASSUME Inv, CollectionNext
  PROVE  \A s \in Slot, i \in ItemId :
           allocations'[s][i].quantity \in {0, allocations[s][i].quantity}
<1>1. CASE allocations' = allocations
  BY <1>1
<1>2. ASSUME NEW I, WithoutItems(I)
      PROVE  \A s \in Slot, i \in ItemId :
               allocations'[s][i].quantity \in {0, allocations[s][i].quantity}
  BY <1>2 DEF WithoutItems, NoRow
<1>3. ASSUME NEW l \in Location, DeleteLocation(l), NEW s \in Slot, NEW i \in ItemId
      PROVE  allocations'[s][i].quantity \in {0, allocations[s][i].quantity}
  <2>1. allocations[s][i] \in Row
    BY InvParts
  <2>2. allocations'[s][i] \in {NoRow, allocations[s][i], [allocations[s][i] EXCEPT !.source = Unfiled]}
    BY <1>3 DEF DeleteLocation
  <2> QED BY <2>1, <2>2 DEF Row, NoRow
<1> QED BY <1>1, <1>2, <1>3
        DEF CollectionNext, CreateItem, UpdateItem, DeleteItems, CreateLocation, SetKind

LEMMA CollectionIdle ==
  ASSUME IdeaInv, CollectionNext
  PROVE  IdleEmpty(allocations, cards)'
<1>1. \A s \in Slot, i \in ItemId :
        allocations'[s][i].quantity \in {0, allocations[s][i].quantity}
  BY RowsKept DEF IdeaInv
<1>2. cards' = cards
  BY DEF CollectionNext, CreateItem, UpdateItem, DeleteItems, CreateLocation, SetKind,
         DeleteLocation
<1> QED BY <1>1, <1>2 DEF IdeaInv, IdleEmpty, Idle, Basic, Empty

-----------------------------------------------------------------------------
(* Rows that change their key: what meets in an idle row comes from idle    *)
(* ones, as nothing moves to Considering this way.                          *)
LEMMA MovedIdle ==
  ASSUME NEW allocs \in [Slot -> [ItemId -> Row]], NEW cs \in [Slot -> LooseCard],
         IdleEmpty(allocs, cs), NEW from \in SUBSET Slot, NEW z,
         z # "considering" \/ from = {}
  PROVE  IdleEmpty(MovedAllocations(allocs, from, z), MovedCards(cs, from, z))
<1> SUFFICES ASSUME NEW s \in Slot, Idle(s)
             PROVE  /\ Empty(MovedAllocations(allocs, from, z), s)
                    /\ MovedCards(cs, from, z)[s].proxies = 0
  BY DEF IdleEmpty
<1>0. Empty(allocs, s) /\ cs[s].proxies = 0
  BY DEF IdleEmpty
<1>1. CASE s \in from
  <2>1. MovedAllocations(allocs, from, z)[s] = [i \in ItemId |-> NoRow]
    BY <1>1 DEF MovedAllocations
  <2>2. MovedCards(cs, from, z)[s] = NoCard
    BY <1>1 DEF MovedCards
  <2> QED BY <2>1, <2>2 DEF Empty, NoRow, NoCard
<1>2. CASE s \notin from /\ Incoming(from, z, s) = {}
  <2>1. MovedAllocations(allocs, from, z)[s] = allocs[s]
    BY <1>2 DEF MovedAllocations
  <2>2. MovedCards(cs, from, z)[s] = cs[s]
    BY <1>2 DEF MovedCards
  <2> QED BY <1>0, <2>1, <2>2 DEF Empty
<1>3. CASE s \notin from /\ Incoming(from, z, s) # {}
  <2> DEFINE r == CHOOSE r \in from : In(r, z) = s
  <2>1. r \in from /\ In(r, z) = s
    BY <1>3 DEF Incoming
  <2>2. MovedAllocations(allocs, from, z)[s] =
          [i \in ItemId |->
             IF allocs[r][i].quantity = 0 THEN allocs[s][i]
             ELSE Grown(allocs[s][i], allocs[r][i].quantity, allocs[r][i].source)]
    BY <1>3 DEF MovedAllocations
  <2>3. MovedCards(cs, from, z)[s] =
          IF cs[s].quantity = 0 THEN cs[r]
          ELSE [cs[s] EXCEPT !.quantity = cs[s].quantity + cs[r].quantity]
    BY <1>3 DEF MovedCards
  <2> HIDE DEF r
  <2>4. Idle(r)
    <3>1. ZoneOf(s) = z /\ CardIn(s) = CardIn(r)
      BY <2>1 DEF In, ZoneOf, CardIn
    <3> QED BY <2>1, <3>1 DEF Idle, Basic
  <2>5. Empty(allocs, r) /\ cs[r].proxies = 0
    BY <2>1, <2>4 DEF IdleEmpty
  <2>6. \A i \in ItemId : MovedAllocations(allocs, from, z)[s][i] = allocs[s][i]
    BY <2>2, <2>5 DEF Empty
  <2>7. MovedCards(cs, from, z)[s].proxies = 0
    BY <1>0, <2>1, <2>3, <2>5 DEF LooseCard
  <2> QED BY <1>0, <2>6, <2>7 DEF Empty
<1> QED BY <1>1, <1>2, <1>3

(* The rows of a move stay rows.                                            *)
LEMMA MovedRows ==
  ASSUME NEW from \in SUBSET Slot, NEW z \in Zone, Distinct(from, z), IdeaInv
  PROVE  MovedAllocations(allocations, from, z) \in [Slot -> [ItemId -> Row]]
<1>1. Sound([items |-> tables.items,
             allocations |-> MovedAllocations(tables.allocations, from, z)])
  BY MovedAllocationsSound DEF IdeaInv, Inv
<1>2. tables.allocations = allocations
  BY InvParts DEF IdeaInv
<1> QED BY <1>1, <1>2, SoundParts

(* What an idle row holds does not depend on the moment.                    *)
LEMMA Primed ==
  ASSUME IdleEmpty(allocations', cards')
  PROVE  IdleEmpty(allocations, cards)'
BY DEF IdleEmpty, Idle, Basic, Empty

LEMMA TrimmedEmpty ==
  ASSUME NEW st, Sound(st), NEW s, NEW t \in Slot, NEW quantity,
         NEW new \in Trimmed(st, s, t, quantity), NEW r \in Slot, Empty(st.allocations, r)
  PROVE  Empty(new.allocations, r)
BY TrimEmpty DEF Trimmed

(* Clearing deck cards and writing none with proxies.                       *)
LEMMA ClearedIdle ==
  ASSUME IdeaInv, NEW S \in SUBSET Slot, NEW st \in Clear(tables, S), Write(st),
         \A s \in Slot : Idle(s) => cards'[s].proxies = 0
  PROVE  IdleEmpty(allocations, cards)'
<1>1. \A s \in Slot : Idle(s) => Empty(st.allocations, s)
  BY IdleParts, ClearEmpty DEF IdeaInv, Inv
<1> QED BY <1>1, StaysIdle

LEMMA AddCardIdle ==
  ASSUME IdeaInv, NEW s \in Slot, NEW total \in 1 .. MaxQuantity,
         NEW p \in Printing \cup {NoPrinting}, AddCard(s, total, p)
  PROVE  IdleEmpty(allocations, cards)'
<1>1. PICK st \in Trimmed(tables, s, s, total) : Write(st)
  BY DEF AddCard
<1>2. \A r \in Slot : Idle(r) => Empty(st.allocations, r)
  BY <1>1, IdleParts, TrimmedEmpty DEF IdeaInv, Inv
<1>3. total \in Nat
  BY QuantityAssumption DEF QuantityAssumption
<1>4. ASSUME NEW r \in Slot, Idle(r) PROVE cards'[r].proxies = 0
  <2>1. cards' = [cards EXCEPT ![s] =
          [quantity |-> total, proxies |-> ProxiesAt(s, total), preferred |-> p]]
    BY DEF AddCard
  <2>2. CASE r = s
    <3>1. cards'[r].proxies = ProxiesAt(s, total)
      BY <2>1, <2>2, InvParts DEF IdeaInv
    <3> QED BY <1>3, <1>4, <2>2, <3>1, IdleProxies
  <2>3. CASE r # s
    <3>1. cards'[r] = cards[r]
      BY <2>1, <2>3, InvParts DEF IdeaInv
    <3> QED BY <1>4, <3>1, IdleParts
  <2> QED BY <2>2, <2>3
<1> QED BY <1>1, <1>2, <1>4, StaysIdle

LEMMA ShelveCardIdle ==
  ASSUME IdeaInv, NEW s \in Slot, NEW q \in 1 .. MaxQuantity,
         NEW p \in Printing \cup {NoPrinting}, ShelveCard(s, q, p)
  PROVE  IdleEmpty(allocations, cards)'
<1> DEFINE t == In(s, "considering")
<1>1. PICK st \in Clear(tables, {s}) : Write(st)
  BY DEF ShelveCard
<1>2. cards' = [cards EXCEPT ![s] = NoCard,
                  ![t] = [quantity |-> q, proxies |-> 0, preferred |-> p]]
  BY DEF ShelveCard
<1> HIDE DEF t
<1>3. \A r \in Slot : \/ cards'[r] = NoCard \/ cards'[r] = cards[r]
                      \/ cards'[r] = [quantity |-> q, proxies |-> 0, preferred |-> p]
  BY <1>2, InvParts DEF IdeaInv
<1>4. \A r \in Slot : Idle(r) => cards'[r].proxies = 0
  BY <1>3, IdleParts DEF NoCard
<1> QED BY <1>1, <1>4, ClearedIdle

LEMMA UpdateCardIdle ==
  ASSUME IdeaInv, NEW s \in Slot, NEW q \in 1 .. MaxQuantity, NEW z \in Zone,
         NEW p \in Printing \cup {NoPrinting}, UpdateCard(s, q, z, p)
  PROVE  IdleEmpty(allocations, cards)'
<1> DEFINE t == In(s, z)
           from == {s} \ {t}
           keyed == [tables EXCEPT !.allocations = MovedAllocations(@, from, z)]
           room == IF Basic(s) THEN 0 ELSE Monus(q, ProxiesAt(s, q))
           row == [quantity |-> q, proxies |-> ProxiesAt(s, q), preferred |-> p]
           Exchanged(old) ==
             IF p = cards[s].preferred THEN {old}
             ELSE IF z = "considering" /\ Physical(old.allocations, t) > 0 THEN {}
             ELSE Switch(old, Lists, t, p, room)
<1>1. PICK trimmed \in Trimmed(keyed, s, t, q) : \E st \in Exchanged(trimmed) : Write(st)
  BY DEF UpdateCard
<1>2. PICK st \in Exchanged(trimmed) : Write(st)
  BY <1>1
<1>3. /\ t \in Slot /\ from \in SUBSET Slot /\ from \subseteq {s}
      /\ CardIn(t) = CardIn(s) /\ ZoneOf(t) = z
  BY InSlot
<1>4. z # "considering" \/ from = {}
  <2>1. z = "considering" => ZoneOf(s) = "considering"
    BY DEF UpdateCard
  <2>2. ZoneOf(s) = z => t = s
    BY DEF In, Slot, DeckOf, CardIn, ZoneOf
  <2> QED BY <2>1, <2>2
<1>5. keyed = [items |-> tables.items,
               allocations |-> MovedAllocations(tables.allocations, from, z)]
  <2>1. tables = [items |-> items, allocations |-> allocations]
    BY DEF tables
  <2> QED BY <2>1
<1>6. cards' = [MovedCards(cards, from, z) EXCEPT ![t] = row]
  BY DEF UpdateCard
<1>7. q \in Nat /\ room \in Nat
  <2>1. q \in Nat
    BY QuantityAssumption DEF QuantityAssumption
  <2>2. ProxiesAt(s, q) \in Nat
    BY <2>1, ProxiesAtType, QuantityAssumption DEF QuantityAssumption, IdeaInv
  <2> QED BY <2>1, <2>2 DEF Monus
<1>8. Sound(keyed)
  <2> HIDE DEF t, keyed
  <2>1. Distinct(from, z)
    BY <1>3, DistinctOne
  <2> HIDE DEF from
  <2> QED BY <1>3, <1>5, <2>1, MovedAllocationsSound DEF IdeaInv, Inv
<1>9. Sound(trimmed)
  <2> HIDE DEF t, keyed
  <2> QED BY <1>1, <1>3, <1>8, TrimmedSound
<1>10. IdleEmpty(keyed.allocations, MovedCards(cards, from, z))
  <2>1. /\ allocations \in [Slot -> [ItemId -> Row]] /\ tables.allocations = allocations
        /\ cards \in [Slot -> LooseCard]
    BY InvParts, LooseCards DEF IdeaInv
  <2>2. keyed.allocations = MovedAllocations(allocations, from, z)
    BY <1>5, <2>1
  <2> HIDE DEF keyed, from
  <2> QED BY <1>3, <1>4, <2>1, <2>2, MovedIdle DEF IdeaInv
<1>11. st = trimmed \/ st \in Switch(trimmed, Lists, t, p, room)
  OBVIOUS
<1> HIDE DEF t, from, keyed, room, row, Exchanged
<1>12. ASSUME NEW r \in Slot, Idle(r) PROVE Empty(st.allocations, r)
  <2>1. Empty(keyed.allocations, r)
    BY <1>10, <1>12 DEF IdleEmpty
  <2>2. Empty(trimmed.allocations, r)
    BY <1>1, <1>3, <1>8, <2>1, TrimmedEmpty
  <2> QED BY <1>3, <1>7, <1>9, <1>11, <2>2, SwitchEmpty
<1>13. ASSUME NEW r \in Slot, Idle(r) PROVE cards'[r].proxies = 0
  <2>1. MovedCards(cards, from, z)[r].proxies = 0
    BY <1>10, <1>13 DEF IdleEmpty
  <2>2. MovedCards(cards, from, z) = [u \in Slot |-> MovedCards(cards, from, z)[u]]
    BY DEF MovedCards
  <2>3. CASE r # t
    BY <1>6, <2>1, <2>2, <2>3
  <2>4. CASE r = t
    <3>1. Idle(s)
      <4>1. z = "considering" => ZoneOf(s) = "considering"
        BY DEF UpdateCard
      <4> QED BY <1>3, <1>13, <2>4, <4>1 DEF Idle, Basic
    <3>2. cards'[r] = row
      BY <1>3, <1>6, <2>2, <2>4
    <3>3. row.proxies = ProxiesAt(s, q)
      BY DEF row
    <3> QED BY <1>7, <3>1, <3>2, <3>3, IdleProxies
  <2> QED BY <2>3, <2>4
<1> QED BY <1>2, <1>12, <1>13, StaysIdle

(* The commanders of a deck that step down do not meet.                     *)
LEMMA CommandersApart ==
  ASSUME NEW s \in Slot
  PROVE  Distinct({r \in CardSlots(DeckOf(s)) : ZoneOf(r) = "commander" /\ Listed(r)} \ {s},
                  "mainboard")
<1> DEFINE others == {r \in CardSlots(DeckOf(s)) : ZoneOf(r) = "commander" /\ Listed(r)} \ {s}
<1> SUFFICES ASSUME NEW r \in others, NEW q \in others, In(r, "mainboard") = In(q, "mainboard")
             PROVE  r = q
  BY DEF Distinct
<1>1. DeckOf(r) = DeckOf(q) /\ CardIn(r) = CardIn(q)
  BY DEF In
<1>2. ZoneOf(r) = ZoneOf(q) /\ r \in Slot /\ q \in Slot
  BY DEF CardSlots
<1> QED BY <1>1, <1>2 DEF Slot, DeckOf, CardIn, ZoneOf

(* A partner needs a commander to join.                                     *)
LEMMA PartnerZone ==
  ASSUME NEW s \in Slot, AddPartner(s)
  PROVE  "commander" \in Zone
<1> DEFINE commanders == {r \in CardSlots(DeckOf(s)) : ZoneOf(r) = "commander" /\ Listed(r)}
<1>1. Cardinality(commanders) = 1
  BY DEF AddPartner
<1>2. commanders # {}
  BY <1>1, FS_EmptySet
<1>3. PICK r \in Slot : ZoneOf(r) = "commander"
  BY <1>2 DEF CardSlots
<1> QED BY <1>3, SlotParts

LEMMA SetCommanderIdle ==
  ASSUME IdeaInv, NEW s \in Slot, SetCommander(s)
  PROVE  IdleEmpty(allocations, cards)'
<1> DEFINE others == {r \in CardSlots(DeckOf(s)) : ZoneOf(r) = "commander" /\ Listed(r)} \ {s}
           self == {s} \ {In(s, "commander")}
           stepped == MovedCards(cards, others, "mainboard")
           down == MovedAllocations(allocations, others, "mainboard")
<1>1. /\ "mainboard" \in Zone /\ "commander" \in Zone
      /\ cards' = MovedCards(stepped, self, "commander")
      /\ allocations' = MovedAllocations(down, self, "commander")
      /\ UNCHANGED items
  BY DEF SetCommander
<1>2. others \in SUBSET Slot /\ self \in SUBSET Slot
  BY DEF CardSlots
<1>3. /\ allocations \in [Slot -> [ItemId -> Row]] /\ cards \in [Slot -> LooseCard]
      /\ IdleEmpty(allocations, cards)
  BY InvParts, LooseCards DEF IdeaInv
<1>3a. Distinct(others, "mainboard")
  BY CommandersApart
<1> HIDE DEF others, self
<1>4. IdleEmpty(down, stepped)
  BY <1>2, <1>3, MovedIdle
<1>5. stepped \in [Slot -> LooseCard]
  BY <1>2, <1>3, MovedCardsType
<1>6. down \in [Slot -> [ItemId -> Row]]
  BY <1>1, <1>2, <1>3a, MovedRows
<1> HIDE DEF stepped, down
<1>7. IdleEmpty(allocations', cards')
  BY <1>1, <1>2, <1>4, <1>5, <1>6, MovedIdle
<1> QED BY <1>7, Primed

LEMMA AddPartnerIdle ==
  ASSUME IdeaInv, NEW s \in Slot, AddPartner(s)
  PROVE  IdleEmpty(allocations, cards)'
<1>1. /\ cards' = MovedCards(cards, {s}, "commander")
      /\ allocations' = MovedAllocations(allocations, {s}, "commander")
  BY DEF AddPartner
<1>2. /\ allocations \in [Slot -> [ItemId -> Row]] /\ cards \in [Slot -> LooseCard]
      /\ IdleEmpty(allocations, cards)
  BY InvParts, LooseCards DEF IdeaInv
<1>3. IdleEmpty(allocations', cards')
  BY <1>1, <1>2, MovedIdle
<1> QED BY <1>3, Primed

LEMMA DeckCardsIdle ==
  ASSUME IdeaInv, DeckCardsNext
  PROVE  IdleEmpty(allocations, cards)'
<1>1. CASE \E s \in Slot, total \in 1 .. MaxQuantity, p \in Printing \cup {NoPrinting} :
             AddCard(s, total, p)
  BY <1>1, AddCardIdle
<1>2. CASE \E s \in Slot, q \in 1 .. MaxQuantity, p \in Printing \cup {NoPrinting} :
             ShelveCard(s, q, p)
  BY <1>2, ShelveCardIdle
<1>3. CASE \E s \in Slot, q \in 1 .. MaxQuantity, z \in Zone, p \in Printing \cup {NoPrinting} :
             UpdateCard(s, q, z, p)
  BY <1>3, UpdateCardIdle
<1>4. ASSUME NEW S \in SUBSET {s \in Slot : Listed(s)}, DeleteCards(S)
      PROVE  IdleEmpty(allocations, cards)'
  <2>1. PICK st \in Clear(tables, S) : Write(st)
    BY <1>4 DEF DeleteCards
  <2>2. \A r \in Slot : Idle(r) => cards'[r].proxies = 0
    BY <1>4, IdleParts DEF DeleteCards, NoCard
  <2>3. S \in SUBSET Slot
    OBVIOUS
  <2> QED BY <2>1, <2>2, <2>3, ClearedIdle
<1>5. ASSUME NEW S \in SUBSET {s \in Slot : Listed(s)}, NEW cheapest \in [S -> Printing],
             OptimizePrintings(S, cheapest)
      PROVE  IdleEmpty(allocations, cards)'
  <2>1. PICK st \in Clear(tables, S) : Write(st)
    BY <1>5 DEF OptimizePrintings
  <2>2. ASSUME NEW r \in Slot, Idle(r) PROVE cards'[r].proxies = 0
    <3>1. cards[r] \in DeckCard /\ cards[r].proxies = 0
      BY <2>2, IdleParts, InvParts DEF IdeaInv
    <3>2. cards'[r] = IF r \in S THEN [cards[r] EXCEPT !.preferred = cheapest[r]] ELSE cards[r]
      BY <1>5 DEF OptimizePrintings
    <3> QED BY <3>1, <3>2 DEF DeckCard
  <2>3. S \in SUBSET Slot
    OBVIOUS
  <2> QED BY <2>1, <2>2, <2>3, ClearedIdle
<1>6. CASE \E s \in Slot : SetCommander(s)
  BY <1>6, SetCommanderIdle
<1>7. CASE \E s \in Slot : AddPartner(s)
  BY <1>7, AddPartnerIdle
<1>8. CASE \E d \in Deck, new \in {"active", "archived"} : CreateDeck(d, new) \/ SetStatus(d, new)
  <2>1. UNCHANGED <<allocations, cards>>
    BY <1>8 DEF CreateDeck, SetStatus
  <2> QED BY <2>1 DEF IdeaInv, IdleEmpty, Idle, Basic, Empty
<1>9. ASSUME NEW d \in Deck, DeleteDeck(d)
      PROVE  IdleEmpty(allocations, cards)'
  <2>1. PICK st \in Clear(tables, CardSlots(d)) : Write(st)
    BY <1>9 DEF DeleteDeck
  <2>2. \A r \in Slot : Idle(r) => cards'[r].proxies = 0
    BY <1>9, IdleParts DEF DeleteDeck, NoCard
  <2>3. CardSlots(d) \in SUBSET Slot
    BY DEF CardSlots
  <2> QED BY <2>1, <2>2, <2>3, ClearedIdle
<1> QED BY <1>1, <1>2, <1>3, <1>4, <1>5, <1>6, <1>7, <1>8, <1>9 DEF DeckCardsNext

-----------------------------------------------------------------------------
(* Totals and what one move does to them.                                   *)

Amount == [ItemId -> 0 .. MaxCopies]

(* Smaller amounts have smaller totals.                                     *)
LEMMA TotalMono ==
  ASSUME NEW small \in Amount, NEW large \in Amount, \A i \in ItemId : small[i] <= large[i]
  PROVE  Total(small) <= Total(large)
<1>0. MaxCopies \in Nat
  BY TablesAssumption DEF TablesAssumption
<1>1. Units(small) \subseteq Units(large)
  BY <1>0 DEF Units, Amount
<1> QED BY <1>1, UnitsFinite, FS_Subset DEF Total

(* What a total gains is at most as many units as they map to.              *)
LEMMA TotalGain ==
  ASSUME NEW old, NEW new, NEW T, IsFiniteSet(T),
         NEW f \in Injection(Units(new) \ Units(old), T)
  PROVE  Total(new) <= Total(old) + Cardinality(T)
<1> DEFINE gain == Units(new) \ Units(old)
<1>1. IsFiniteSet(gain) /\ IsFiniteSet(Units(old)) /\ IsFiniteSet(Units(new))
  <2>1. gain \in SUBSET Units(new)
    OBVIOUS
  <2> QED BY <2>1, UnitsFinite, FS_Subset
<1>2. Cardinality(gain) <= Cardinality(T)
  BY FS_Injection
<1>3. IsFiniteSet(Units(old) \cup gain) /\
      Cardinality(Units(old) \cup gain) =
        Cardinality(Units(old)) + Cardinality(gain) - Cardinality(Units(old) \cap gain)
  <2> HIDE DEF gain
  <2> QED BY <1>1, FS_Union
<1>4. Units(old) \cap gain = {}
  OBVIOUS
<1>5. Cardinality(Units(old) \cap gain) = 0
  BY <1>4, FS_EmptySet
<1>6. Units(new) \in SUBSET (Units(old) \cup gain)
  OBVIOUS
<1>7. Cardinality(Units(new)) <= Cardinality(Units(old) \cup gain)
  <2> HIDE DEF gain
  <2> QED BY <1>3, <1>6, FS_Subset
<1>8. /\ Cardinality(Units(new)) \in Nat /\ Cardinality(Units(old)) \in Nat
      /\ Cardinality(gain) \in Nat /\ Cardinality(T) \in Nat
  <2> HIDE DEF gain
  <2> QED BY <1>1, FS_CardinalityType
<1> HIDE DEF gain
<1> QED BY <1>2, <1>3, <1>5, <1>7, <1>8 DEF Total

(* Two amounts that fit beside each other.                                  *)
LEMMA TotalApart ==
  ASSUME NEW a \in Amount, NEW b \in Amount, NEW c \in Amount,
         \A i \in ItemId : a[i] + b[i] <= c[i]
  PROVE  Total(a) + Total(b) <= Total(c)
<1>0. MaxCopies \in Nat
  BY TablesAssumption DEF TablesAssumption
<1>1. \A i \in ItemId : a[i] \in Nat /\ b[i] \in Nat /\ c[i] \in Nat /\ c[i] <= MaxCopies
  BY <1>0 DEF Amount
<1> DEFINE rest == Units(c) \ Units(a)
           f == [u \in Units(b) |-> <<u[1], a[u[1]] + u[2]>>]
<1>2. f \in Injection(Units(b), rest)
  <2>1. ASSUME NEW u \in Units(b)
        PROVE  f[u] \in rest /\ u[1] \in ItemId /\ u[2] \in Nat /\ u = <<u[1], u[2]>>
    <3>1. u[1] \in ItemId /\ u[2] \in 1 .. MaxCopies /\ u[2] <= b[u[1]] /\ u = <<u[1], u[2]>>
      BY DEF Units
    <3>2. a[u[1]] + u[2] \in 1 .. MaxCopies /\ a[u[1]] + u[2] <= c[u[1]]
          /\ ~(a[u[1]] + u[2] <= a[u[1]])
      BY <1>0, <1>1, <3>1
    <3>3. <<u[1], a[u[1]] + u[2]>> \in rest
      BY <3>1, <3>2 DEF Units
    <3> QED BY <1>0, <3>1, <3>3
  <2>2. ASSUME NEW u \in Units(b), NEW v \in Units(b), f[u] = f[v]
        PROVE  u = v
    <3>1. u[1] = v[1] /\ a[u[1]] + u[2] = a[v[1]] + v[2]
      BY <2>2
    <3>2. u[2] = v[2]
      <4>1. /\ u[2] \in Nat /\ v[2] \in Nat /\ a[u[1]] \in Nat
            /\ a[u[1]] + u[2] = a[u[1]] + v[2]
        BY <1>1, <2>1, <3>1
      <4> QED BY <4>1
    <3> QED BY <2>1, <3>1, <3>2
  <2>3. f \in [Units(b) -> rest]
    BY <2>1
  <2> HIDE DEF f, rest
  <2> QED BY <2>2, <2>3, Fun_IsInj
<1>3. Units(a) \in SUBSET Units(c)
  BY <1>0, <1>1 DEF Units
<1>4. IsFiniteSet(rest) /\ IsFiniteSet(Units(a)) /\ IsFiniteSet(Units(b))
  <2>1. rest \in SUBSET Units(c)
    OBVIOUS
  <2> QED BY <2>1, UnitsFinite, FS_Subset
<1>5. Cardinality(Units(b)) <= Cardinality(rest)
  <2> HIDE DEF f, rest
  <2> QED BY <1>2, <1>4, FS_Injection
<1>6. Cardinality(Units(a) \cup rest) =
        Cardinality(Units(a)) + Cardinality(rest) - Cardinality(Units(a) \cap rest)
  <2> HIDE DEF rest
  <2> QED BY <1>4, FS_Union
<1>7. Units(a) \cup rest = Units(c) /\ Units(a) \cap rest = {}
  BY <1>3
<1>8. Cardinality(Units(a) \cap rest) = 0
  BY <1>7, FS_EmptySet
<1>9. /\ Cardinality(Units(a)) \in Nat /\ Cardinality(Units(b)) \in Nat
      /\ Cardinality(rest) \in Nat
  <2> HIDE DEF rest
  <2> QED BY <1>4, FS_CardinalityType
<1>10. Cardinality(Units(c)) = Cardinality(Units(a)) + Cardinality(rest)
  <2>1. Cardinality(Units(a) \cup rest) = Cardinality(Units(c))
    BY <1>7
  <2> HIDE DEF rest
  <2> QED BY <1>6, <1>8, <1>9, <2>1
<1> HIDE DEF rest
<1> QED BY <1>5, <1>9, <1>10 DEF Total

-----------------------------------------------------------------------------
(* What a deck card holds before and after a move.                          *)
LEMMA HeldType ==
  ASSUME NEW st, Sound(st), NEW s \in Slot
  PROVE  /\ HeldBy(st.allocations, s) \in Amount
         /\ \A i \in ItemId : HeldBy(st.allocations, s)[i] = st.allocations[s][i].quantity
         /\ Physical(st.allocations, s) \in Nat
<1>1. \A i \in ItemId : st.allocations[s][i].quantity \in 0 .. MaxCopies
  BY SoundParts, TablesAssumption DEF TablesAssumption
<1>2. Physical(st.allocations, s) \in Nat
  BY TotalType DEF Physical
<1> QED BY <1>1, <1>2 DEF HeldBy, Amount

(* A release takes exactly what is given, as far as the row has it.         *)
LEMMA ReleaseHeld ==
  ASSUME NEW st, Sound(st), NEW S, NEW give \in Amount, NEW new \in Release(st, S, give),
         NEW s \in Slot, NEW i \in ItemId
  PROVE  new.allocations[s][i].quantity =
           IF s \in S THEN Monus(st.allocations[s][i].quantity, give[i])
           ELSE st.allocations[s][i].quantity
<1>1. new.allocations[s][i] =
        IF s \in S THEN Reduced(st.allocations[s][i], give[i]) ELSE st.allocations[s][i]
  <2> DEFINE al == st.allocations
             home == [j \in Moved(give) |-> al[HolderIn(al, S, j)][j].source]
             left == [r \in Slot |-> [j \in ItemId |->
                        IF r \in S THEN Reduced(al[r][j], give[j]) ELSE al[r][j]]]
  <2>1. PICK at \in Destinations(st.items, give) :
          new = [items |-> MovedItems(st.items, give, home, at), allocations |-> left]
    BY DEF Release
  <2> QED BY <2>1
<1>2. Reduced(st.allocations[s][i], give[i]).quantity = Monus(st.allocations[s][i].quantity, give[i])
  BY DEF Reduced, NoRow, Monus
<1> QED BY <1>1, <1>2

(* No release adds to a deck card.                                          *)
LEMMA ReleaseShrinks ==
  ASSUME NEW st, Sound(st), NEW S, NEW give \in Amount, NEW new \in Release(st, S, give),
         Sound(new), NEW s \in Slot
  PROVE  Physical(new.allocations, s) <= Physical(st.allocations, s)
<1>1. \A i \in ItemId : give[i] \in Nat /\ st.allocations[s][i].quantity \in Nat
  BY SoundParts, TablesAssumption DEF TablesAssumption, Amount
<1>2. ASSUME NEW i \in ItemId
      PROVE  HeldBy(new.allocations, s)[i] <= HeldBy(st.allocations, s)[i]
  <2>1. new.allocations[s][i].quantity <= st.allocations[s][i].quantity
    BY <1>1, ReleaseHeld DEF Monus
  <2> QED BY <2>1, HeldType
<1> QED BY <1>2, HeldType, TotalMono DEF Physical

(* Clearing empties the named deck cards and adds to none.                  *)
LEMMA ClearHeld ==
  ASSUME NEW st, Sound(st), NEW S \in SUBSET Slot, NEW new \in Clear(st, S), NEW s \in Slot
  PROVE  /\ Physical(new.allocations, s) <= Physical(st.allocations, s)
         /\ s \in S => Physical(new.allocations, s) = 0
<1> DEFINE give == [i \in ItemId |-> HeldIn(st.allocations, S, i)]
<1>1. new \in Release(st, S, give) /\ HeldOnce(st.allocations, S)
  BY DEF Clear
<1>2. ASSUME NEW i \in ItemId PROVE give[i] \in 0 .. MaxCopies
  <2>1. \/ give[i] = 0
        \/ \E r \in S : give[i] = st.allocations[r][i].quantity
    BY DEF HeldIn, HolderIn
  <2> QED BY <2>1, SoundParts, TablesAssumption DEF TablesAssumption
<1>3. give \in Amount
  BY <1>2 DEF Amount
<1>4. Sound(new)
  BY ClearSound
<1>5. ASSUME s \in S, NEW i \in ItemId
      PROVE  st.allocations[s][i].quantity <= give[i]
  <2>0. st.allocations[s][i].quantity \in Nat
    BY SoundParts
  <2>1. CASE st.allocations[s][i].quantity > 0
    <3>1. HeldIn(st.allocations, S, i) = st.allocations[s][i].quantity
      BY <1>1, <1>5, <2>1 DEF HeldOnce, HeldIn, HolderIn
    <3> QED BY <2>0, <3>1
  <2>2. CASE ~(st.allocations[s][i].quantity > 0)
    BY <1>2, <2>0, <2>2, TablesAssumption DEF TablesAssumption
  <2> QED BY <2>1, <2>2
<1> HIDE DEF give
<1>6. s \in S => Empty(new.allocations, s)
  BY <1>1, <1>3, <1>5, ReleaseEmpty DEF Amount
<1>7. s \in S => Physical(new.allocations, s) = 0
  BY <1>4, <1>6, SoundParts, PhysicalZero
<1> QED BY <1>1, <1>3, <1>4, <1>7, ReleaseShrinks

(* A trim leaves what is required and adds to no deck card.                 *)
LEMMA TrimHeld ==
  ASSUME NEW st, Sound(st), NEW t \in Slot, NEW required \in Nat,
         NEW new \in Trim(st, t, required), NEW s \in Slot
  PROVE  /\ Physical(new.allocations, s) <= Physical(st.allocations, s)
         /\ Physical(new.allocations, t) <= required
<1>1. PICK give \in [ItemId -> 0 .. MaxCopies] :
        /\ \A i \in ItemId : give[i] <= st.allocations[t][i].quantity
        /\ Total(give) = Monus(Physical(st.allocations, t), required)
        /\ new \in Release(st, {t}, give)
  BY DEF Trim
<1>2. Sound(new)
  BY TrimSound
<1>3. give \in Amount
  BY DEF Amount
<1>4. \A r \in Slot : Physical(new.allocations, r) <= Physical(st.allocations, r)
  BY <1>1, <1>2, <1>3, ReleaseShrinks
<1>5. \A i \in ItemId : HeldBy(new.allocations, t)[i] + give[i] <= HeldBy(st.allocations, t)[i]
  <2> SUFFICES ASSUME NEW i \in ItemId
               PROVE  new.allocations[t][i].quantity + give[i] <= st.allocations[t][i].quantity
    BY <1>2, HeldType
  <2>1. new.allocations[t][i].quantity = Monus(st.allocations[t][i].quantity, give[i])
    BY <1>1, <1>3, ReleaseHeld
  <2>2. give[i] \in Nat /\ st.allocations[t][i].quantity \in Nat
    BY SoundParts, TablesAssumption DEF TablesAssumption
  <2> QED BY <1>1, <2>1, <2>2 DEF Monus
<1>6. Physical(new.allocations, t) + Total(give) <= Physical(st.allocations, t)
  BY <1>2, <1>3, <1>5, HeldType, TotalApart DEF Physical
<1>7. Physical(new.allocations, t) \in Nat /\ Physical(st.allocations, t) \in Nat
  BY <1>2, HeldType
<1> QED BY <1>1, <1>4, <1>6, <1>7 DEF Monus

Share(take, to, s) == [i \in ItemId |-> IF take[i] > 0 /\ to[i] = s THEN take[i] ELSE 0]

LEMMA ShareType ==
  ASSUME NEW take \in Amount, NEW to, NEW s
  PROVE  Share(take, to, s) \in Amount /\ \A i \in ItemId : take[i] \in Nat
BY TablesAssumption DEF TablesAssumption, Amount, Share

(* A reservation gives a deck card at most its share of what is taken.      *)
LEMMA ReserveHeld ==
  ASSUME NEW st, Sound(st), NEW to, NEW take \in Amount, NEW new \in Reserve(st, to, take),
         Sound(new), NEW s \in Slot
  PROVE  Physical(new.allocations, s) <= Physical(st.allocations, s) + Total(Share(take, to, s))
<1> DEFINE old == HeldBy(st.allocations, s)
           now == HeldBy(new.allocations, s)
           share == Share(take, to, s)
           nowhere == [i \in Moved(take) |-> Unfiled]
<1>1. PICK at \in Destinations(st.items, take) :
        new = [items |-> MovedItems(st.items, take, nowhere, at),
               allocations |-> [r \in Slot |-> [j \in ItemId |->
                 IF \E i \in Moved(take) : at[i] = j /\ to[i] = r
                 THEN LET i == CHOOSE i \in Moved(take) : at[i] = j
                      IN  Grown(st.allocations[r][j], take[i], st.items[i].filed)
                 ELSE st.allocations[r][j]]]]
  BY DEF Reserve
<1>2. \A i, k \in Moved(take) : at[i] = at[k] => i = k
  BY DEF Destinations
<1> DEFINE origin(j) == CHOOSE i \in Moved(take) : at[i] = j
<1>3. ASSUME NEW j \in ItemId
      PROVE  \/ now[j] = old[j]
             \/ /\ origin(j) \in Moved(take) /\ at[origin(j)] = j
                /\ to[origin(j)] = s
                /\ now[j] = old[j] + take[origin(j)]
  <2>0. now[j] = new.allocations[s][j].quantity /\ old[j] = st.allocations[s][j].quantity
    BY HeldType
  <2>1. CASE \E i \in Moved(take) : at[i] = j /\ to[i] = s
    <3>1. PICK i \in Moved(take) : at[i] = j /\ to[i] = s
      BY <2>1
    <3>2. origin(j) = i
      BY <1>2, <3>1
    <3>3. new.allocations[s][j] =
            Grown(st.allocations[s][j], take[origin(j)], st.items[origin(j)].filed)
      BY <1>1, <2>1
    <3> HIDE DEF origin
    <3>4. st.allocations[s][j].quantity \in Nat /\ take[i] \in Nat
      BY SoundParts, ShareType DEF Moved
    <3>5. new.allocations[s][j].quantity = st.allocations[s][j].quantity + take[origin(j)]
      BY <3>2, <3>3, <3>4 DEF Grown
    <3> QED BY <2>0, <3>1, <3>2, <3>5
  <2>2. CASE ~ \E i \in Moved(take) : at[i] = j /\ to[i] = s
    <3>1. new.allocations[s][j] = st.allocations[s][j]
      BY <1>1, <2>2
    <3> QED BY <2>0, <3>1
  <2> QED BY <2>1, <2>2
<1>4. \A j \in ItemId : old[j] \in Nat /\ now[j] \in Nat /\ share[j] \in Nat /\ take[j] \in Nat
  <2>1. old \in Amount /\ now \in Amount
    BY HeldType
  <2>2. share \in Amount
    BY ShareType
  <2> HIDE DEF old, now, share
  <2> QED BY <2>1, <2>2, ShareType, TablesAssumption DEF TablesAssumption, Amount
<1>5. \A i \in Moved(take) : to[i] = s => share[i] = take[i]
  BY DEF Share, Moved
<1> HIDE DEF old, now, share, origin
<1> DEFINE gain == Units(now) \ Units(old)
           f == [u \in gain |-> <<origin(u[1]), u[2] - old[u[1]]>>]
<1>6. ASSUME NEW u \in gain
      PROVE  /\ u = <<u[1], u[2]>> /\ u[1] \in ItemId /\ u[2] \in Nat
             /\ origin(u[1]) \in Moved(take) /\ at[origin(u[1])] = u[1]
             /\ f[u] \in Units(share)
  <2>1. /\ u[1] \in ItemId /\ u[2] \in 1 .. MaxCopies /\ u = <<u[1], u[2]>>
        /\ u[2] <= now[u[1]] /\ ~(u[2] <= old[u[1]])
    BY DEF Units
  <2>2. MaxCopies \in Nat /\ u[2] \in Nat /\ u[2] <= MaxCopies
    BY <2>1, TablesAssumption DEF TablesAssumption
  <2>3. /\ origin(u[1]) \in Moved(take) /\ at[origin(u[1])] = u[1] /\ to[origin(u[1])] = s
        /\ now[u[1]] = old[u[1]] + take[origin(u[1])]
    BY <1>3, <1>4, <2>1, <2>2
  <2>4. origin(u[1]) \in ItemId /\ share[origin(u[1])] = take[origin(u[1])]
    BY <1>5, <2>3 DEF Moved
  <2>5. /\ u[2] - old[u[1]] \in 1 .. MaxCopies
        /\ u[2] - old[u[1]] <= share[origin(u[1])]
    <3>1. old[u[1]] \in Nat /\ take[origin(u[1])] \in Nat
      BY <1>4, <2>1, <2>4
    <3> QED BY <2>1, <2>2, <2>3, <2>4, <3>1
  <2>6. <<origin(u[1]), u[2] - old[u[1]]>> \in Units(share)
    BY <2>4, <2>5 DEF Units
  <2> QED BY <2>1, <2>2, <2>3, <2>6
<1>7. f \in Injection(gain, Units(share))
  <2>1. ASSUME NEW u \in gain, NEW v \in gain, f[u] = f[v]
        PROVE  u = v
    <3>1. origin(u[1]) = origin(v[1]) /\ u[2] - old[u[1]] = v[2] - old[v[1]]
      BY <2>1
    <3>1a. at[origin(u[1])] = u[1] /\ at[origin(v[1])] = v[1]
      BY <1>6
    <3>2. u[1] = v[1]
      <4> HIDE DEF f, gain
      <4> QED BY <3>1, <3>1a
    <3>3. /\ u[2] \in Nat /\ v[2] \in Nat /\ old[u[1]] \in Nat
          /\ u[2] - old[u[1]] = v[2] - old[u[1]]
      BY <1>4, <1>6, <3>1, <3>2
    <3>4. u[2] = v[2]
      BY <3>3
    <3> QED BY <1>6, <3>2, <3>4
  <2>2. f \in [gain -> Units(share)]
    BY <1>6
  <2> HIDE DEF f, gain
  <2> QED BY <2>1, <2>2, Fun_IsInj
<1>8. Total(now) <= Total(old) + Cardinality(Units(share))
  <2> HIDE DEF f
  <2> QED BY <1>7, UnitsFinite, TotalGain
<1> QED BY <1>8 DEF Total, Physical, old, now, share

(* Nobody's share is nothing, everybody's share is all.                     *)
LEMMA ShareTotals ==
  ASSUME NEW take \in Amount, NEW to, NEW s
  PROVE  /\ Total(Share(take, to, s)) <= Total(take)
         /\ (\A i \in Moved(take) : to[i] # s) => Total(Share(take, to, s)) = 0
<1>1. ASSUME NEW i \in ItemId PROVE Share(take, to, s)[i] <= take[i]
  <2>1. take[i] \in Nat
    BY ShareType
  <2>2. Share(take, to, s)[i] = IF take[i] > 0 /\ to[i] = s THEN take[i] ELSE 0
    BY DEF Share
  <2> QED BY <2>1, <2>2
<1>2. ASSUME \A i \in Moved(take) : to[i] # s
      PROVE  \A i \in ItemId : Share(take, to, s)[i] = 0
  BY <1>2 DEF Share, Moved
<1>3. Share(take, to, s) \in [ItemId -> 0 .. MaxCopies]
  BY ShareType DEF Amount
<1> QED BY <1>1, <1>2, <1>3, ShareType, TotalMono, TotalZero

LEMMA OnlyTotal ==
  ASSUME NEW i \in ItemId, NEW q \in 1 .. MaxCopies
  PROVE  Only(i, q) \in Amount /\ Total(Only(i, q)) = q
<1>1. q \in Nat /\ MaxCopies \in Nat /\ q <= MaxCopies /\ q > 0
  BY TablesAssumption DEF TablesAssumption
<1>2. Only(i, q) \in Amount
  BY <1>1 DEF Only, Amount
<1>3. Units(Only(i, q)) = {i} \X (1 .. q)
  BY <1>1 DEF Units, Only
<1> QED BY <1>1, <1>2, <1>3, StackOfUnits DEF Total

(* An exchange never ends with more copies than there is room for.          *)
LEMMA SwitchHeld ==
  ASSUME NEW st, Sound(st), NEW lists, NEW t \in Slot, NEW printing, NEW room \in Nat,
         NEW new \in Switch(st, lists, t, printing, room), NEW s \in Slot
  PROVE  /\ s # t => Physical(new.allocations, s) <= Physical(st.allocations, s)
         /\ Physical(new.allocations, t) <= room
<1> DEFINE needed == Less(Physical(st.allocations, t), room)
<1>1. PICK cleared \in Clear(st, {t}) : new \in ReservePreferred(cleared, lists, t, printing, needed)
  BY DEF Switch
<1>2. Sound(cleared) /\ Sound(new)
  BY <1>1, ClearSound, SwitchSound
<1>3. needed \in Nat /\ needed <= room
  BY HeldType DEF Less
<1> HIDE DEF needed
<1> DEFINE avail == [i \in ItemId |->
                       IF Candidate(cleared, lists, CardIn(t), i)
                          /\ cleared.items[i].printed = printing
                       THEN Available(cleared, CardIn(t), i) ELSE 0]
           to == [i \in ItemId |-> t]
<1>4. PICK take \in [ItemId -> 0 .. MaxCopies] :
        /\ Total(take) = Less(needed, Total(avail))
        /\ new \in Reserve(cleared, to, take)
  BY <1>1 DEF ReservePreferred
<1>5. Total(take) <= needed /\ Total(take) \in Nat
  BY <1>3, <1>4, TotalType DEF Less
<1>6. take \in Amount /\ \A i \in Moved(take) : to[i] = t
  BY DEF Amount, Moved
<1> HIDE DEF to, avail
<1>7. /\ Physical(new.allocations, t) <=
           Physical(cleared.allocations, t) + Total(Share(take, to, t))
      /\ Physical(new.allocations, s) <=
           Physical(cleared.allocations, s) + Total(Share(take, to, s))
  BY <1>2, <1>4, <1>6, ReserveHeld
<1>8. /\ Physical(cleared.allocations, t) = 0
      /\ Physical(cleared.allocations, s) <= Physical(st.allocations, s)
  BY <1>1, ClearHeld
<1>9. /\ Total(Share(take, to, t)) <= Total(take)
      /\ s # t => Total(Share(take, to, s)) = 0
  BY <1>6, ShareTotals
<1>10. /\ Total(Share(take, to, t)) \in Nat
       /\ Physical(new.allocations, t) \in Nat /\ Physical(new.allocations, s) \in Nat
       /\ Physical(cleared.allocations, s) \in Nat /\ Physical(st.allocations, s) \in Nat
  BY <1>2, HeldType, TotalType
<1>11. Physical(new.allocations, t) <= room
  BY <1>3, <1>5, <1>7, <1>8, <1>9, <1>10
<1>12. ASSUME s # t PROVE Physical(new.allocations, s) <= Physical(st.allocations, s)
  BY <1>7, <1>8, <1>9, <1>10, <1>12
<1> QED BY <1>11, <1>12

(* The total of a sum is at most the sum of the totals.                     *)
LEMMA TotalSum ==
  ASSUME NEW a \in Amount, NEW b \in Amount, NEW c \in Amount,
         \A i \in ItemId : c[i] <= a[i] + b[i]
  PROVE  Total(c) <= Total(a) + Total(b)
<1>0. MaxCopies \in Nat
  BY TablesAssumption DEF TablesAssumption
<1>1. \A i \in ItemId : a[i] \in Nat /\ b[i] \in Nat /\ c[i] \in Nat
  BY <1>0 DEF Amount
<1> DEFINE gain == Units(c) \ Units(a)
           f == [u \in gain |-> <<u[1], u[2] - a[u[1]]>>]
<1>2. ASSUME NEW u \in gain
      PROVE  u[1] \in ItemId /\ u[2] \in Nat /\ u = <<u[1], u[2]>> /\ f[u] \in Units(b)
  <2>1. /\ u[1] \in ItemId /\ u[2] \in 1 .. MaxCopies /\ u = <<u[1], u[2]>>
        /\ u[2] <= c[u[1]] /\ ~(u[2] <= a[u[1]])
    BY DEF Units
  <2>2. u[2] - a[u[1]] \in 1 .. MaxCopies /\ u[2] - a[u[1]] <= b[u[1]]
    BY <1>0, <1>1, <2>1
  <2> QED BY <1>0, <2>1, <2>2 DEF Units
<1>3. ASSUME NEW u \in gain, NEW v \in gain, f[u] = f[v]
      PROVE  u = v
  <2>1. u[1] = v[1] /\ u[2] - a[u[1]] = v[2] - a[v[1]]
    BY <1>3
  <2>2. u[2] = v[2]
    <3>1. u[2] \in Nat /\ v[2] \in Nat /\ a[u[1]] \in Nat /\ u[2] - a[u[1]] = v[2] - a[u[1]]
      BY <1>1, <1>2, <2>1
    <3> QED BY <3>1
  <2> QED BY <1>2, <2>1, <2>2
<1>4. f \in [gain -> Units(b)]
  BY <1>2
<1>5. f \in Injection(gain, Units(b))
  <2> HIDE DEF f, gain
  <2> QED BY <1>3, <1>4, Fun_IsInj
<1> HIDE DEF f
<1> QED BY <1>5, UnitsFinite, TotalGain DEF Total

(* What a deck card holds after rows changed their key.                     *)
LEMMA MovedHeld ==
  ASSUME NEW st, Sound(st), NEW from \in SUBSET Slot, NEW z \in Zone, Distinct(from, z),
         NEW s \in Slot
  PROVE  LET held == MovedAllocations(st.allocations, from, z)
             r == CHOOSE r \in from : In(r, z) = s
         IN  /\ s \in from => Physical(held, s) = 0
             /\ s \notin from /\ Incoming(from, z, s) = {} =>
                  Physical(held, s) = Physical(st.allocations, s)
             /\ s \notin from /\ Incoming(from, z, s) # {} =>
                  /\ r \in from /\ In(r, z) = s
                  /\ Physical(held, s) <= Physical(st.allocations, s) + Physical(st.allocations, r)
<1> DEFINE al == st.allocations
           held == MovedAllocations(al, from, z)
           r == CHOOSE r \in from : In(r, z) = s
           mid == [items |-> st.items, allocations |-> held]
<1>1. Sound(mid) /\ mid.allocations = held
  BY MovedAllocationsSound
<1>2. CASE s \in from
  <2>1. held[s] = [i \in ItemId |-> NoRow]
    BY <1>2 DEF MovedAllocations
  <2>2. Empty(held, s)
    BY <2>1 DEF Empty, NoRow
  <2> HIDE DEF held
  <2>3. Physical(held, s) = 0
    BY <1>1, <2>2, SoundParts, PhysicalZero
  <2> QED BY <1>2, <2>3 DEF held
<1>3. CASE s \notin from /\ Incoming(from, z, s) = {}
  <2>1. held[s] = al[s]
    BY <1>3 DEF MovedAllocations
  <2>2. Physical(held, s) = Physical(al, s)
    BY <2>1 DEF Physical, HeldBy
  <2> QED BY <1>3, <2>2
<1>4. CASE s \notin from /\ Incoming(from, z, s) # {}
  <2>1. r \in from /\ In(r, z) = s
    BY <1>4 DEF Incoming
  <2>2. held[s] = [i \in ItemId |->
                     IF al[r][i].quantity = 0 THEN al[s][i]
                     ELSE Grown(al[s][i], al[r][i].quantity, al[r][i].source)]
    BY <1>4 DEF MovedAllocations
  <2> HIDE DEF held, r
  <2>3. ASSUME NEW i \in ItemId
        PROVE  HeldBy(held, s)[i] <= HeldBy(al, s)[i] + HeldBy(al, r)[i]
    <3>1. al[s][i].quantity \in Nat /\ al[r][i].quantity \in Nat
      BY <2>1, SoundParts
    <3>2. held[s][i].quantity <= al[s][i].quantity + al[r][i].quantity
      BY <2>2, <3>1 DEF Grown
    <3> QED BY <3>2 DEF HeldBy
  <2>4. HeldBy(held, s) \in Amount /\ HeldBy(al, s) \in Amount /\ HeldBy(al, r) \in Amount
    <3> HIDE DEF mid
    <3> QED BY <1>1, <2>1, HeldType
  <2>5. Physical(held, s) <= Physical(al, s) + Physical(al, r)
    BY <2>3, <2>4, TotalSum DEF Physical
  <2> QED BY <1>4, <2>1, <2>5 DEF held, r
<1> QED BY <1>2, <1>3, <1>4

-----------------------------------------------------------------------------
Fits(allocs, cs) == \A s \in Slot : Physical(allocs, s) + cs[s].proxies <= cs[s].quantity

FitInv == Inv /\ Fits(allocations, cards)

(* What the invariant says of one deck card.                                *)
LEMMA FitParts ==
  ASSUME FitInv, NEW s \in Slot
  PROVE  /\ Sound(tables) /\ tables.allocations = allocations
         /\ Physical(allocations, s) \in Nat
         /\ cards[s].proxies \in Nat /\ cards[s].quantity \in Nat
         /\ Physical(allocations, s) + cards[s].proxies <= cards[s].quantity
BY InvParts, CardFields, TotalType DEF FitInv, Fits, Physical

(* A written snapshot that fits.                                            *)
LEMMA FitsAfter ==
  ASSUME NEW st, Write(st),
         \A s \in Slot : Physical(st.allocations, s) + cards'[s].proxies <= cards'[s].quantity
  PROVE  Fits(allocations, cards)'
<1>1. \A s \in Slot : Physical(st.allocations, s) = Physical(allocations', s)
  BY DEF Write
<1> QED BY <1>1 DEF Fits, Physical, HeldBy, Total, Units

(* A snapshot that was written is sound when the tables are.                *)
LEMMA WrittenSound ==
  ASSUME Inv', NEW st, Write(st), st = [items |-> st.items, allocations |-> st.allocations]
  PROVE  Sound(st)
<1>1. tables' = st
  BY DEF Write, tables
<1> QED BY <1>1 DEF Inv

(* What a release or a reservation returns is a snapshot.                   *)
LEMMA Shapes ==
  ASSUME NEW st, NEW S, NEW to, NEW amount, NEW new,
         new \in Release(st, S, amount) \/ new \in Reserve(st, to, amount)
  PROVE  new = [items |-> new.items, allocations |-> new.allocations]
<1>1. CASE new \in Release(st, S, amount)
  <2> DEFINE home == [i \in Moved(amount) |->
                       st.allocations[HolderIn(st.allocations, S, i)][i].source]
             left == [s \in Slot |-> [i \in ItemId |->
                        IF s \in S THEN Reduced(st.allocations[s][i], amount[i])
                        ELSE st.allocations[s][i]]]
  <2>1. PICK at \in Destinations(st.items, amount) :
          new = [items |-> MovedItems(st.items, amount, home, at), allocations |-> left]
    BY <1>1 DEF Release
  <2> HIDE DEF home, left
  <2> QED BY <2>1
<1>2. CASE new \in Reserve(st, to, amount)
  BY <1>2 DEF Reserve
<1> QED BY <1>1, <1>2

(* Rows that change their key, with their cards, still fit.                 *)
LEMMA MovedFits ==
  ASSUME NEW st, Sound(st), NEW cs \in [Slot -> LooseCard], Fits(st.allocations, cs),
         NEW from \in SUBSET Slot, NEW z \in Zone, Distinct(from, z)
  PROVE  Fits(MovedAllocations(st.allocations, from, z), MovedCards(cs, from, z))
<1> DEFINE al == st.allocations
           held == MovedAllocations(al, from, z)
           moved == MovedCards(cs, from, z)
<1> SUFFICES ASSUME NEW s \in Slot
             PROVE  Physical(held, s) + moved[s].proxies <= moved[s].quantity
  BY DEF Fits
<1>1. \A t \in Slot : /\ Physical(al, t) \in Nat /\ Physical(held, t) \in Nat
                      /\ cs[t].quantity \in Nat /\ cs[t].proxies \in Nat
                      /\ Physical(al, t) + cs[t].proxies <= cs[t].quantity
  BY HeldType, TotalType, QuantityAssumption DEF QuantityAssumption, LooseCard, Physical, Fits
<1>2. CASE s \in from
  <2>1. moved[s] = NoCard
    BY <1>2 DEF MovedCards
  <2>2. Physical(held, s) = 0
    BY <1>2, MovedHeld
  <2> HIDE DEF moved, held
  <2> QED BY <2>1, <2>2 DEF NoCard
<1>3. CASE s \notin from /\ Incoming(from, z, s) = {}
  <2>1. moved[s] = cs[s]
    BY <1>3 DEF MovedCards
  <2>2. Physical(held, s) = Physical(al, s)
    BY <1>3, MovedHeld
  <2> HIDE DEF moved, held, al
  <2> QED BY <1>1, <2>1, <2>2
<1>4. CASE s \notin from /\ Incoming(from, z, s) # {}
  <2> DEFINE r == CHOOSE r \in from : In(r, z) = s
  <2>1. /\ r \in from
        /\ Physical(held, s) <= Physical(al, s) + Physical(al, r)
    BY <1>4, MovedHeld
  <2>2. moved[s] = IF cs[s].quantity = 0 THEN cs[r]
                   ELSE [cs[s] EXCEPT !.quantity = cs[s].quantity + cs[r].quantity]
    BY <1>4 DEF MovedCards
  <2> HIDE DEF r, moved, held, al
  <2>3. CASE cs[s].quantity = 0
    <3>1. Physical(al, s) = 0
      BY <1>1, <2>3
    <3> QED BY <1>1, <2>1, <2>2, <2>3, <3>1
  <2>4. CASE cs[s].quantity # 0
    <3>1. moved[s].quantity = cs[s].quantity + cs[r].quantity /\ moved[s].proxies = cs[s].proxies
      BY <2>2, <2>4 DEF LooseCard
    <3> QED BY <1>1, <2>1, <3>1
  <2> QED BY <2>3, <2>4
<1> QED BY <1>2, <1>3, <1>4

(* The proxies left beside n of the copies held.                            *)
LEMMA ProxiesFit ==
  ASSUME FitInv, NEW s \in Slot, NEW quantity \in Nat, NEW n \in Nat,
         n <= Physical(allocations, s), quantity < cards[s].quantity => n <= quantity
  PROVE  n + ProxiesAt(s, quantity) <= quantity /\ ProxiesAt(s, quantity) \in Nat
BY FitParts DEF ProxiesAt, Less, Monus

LEMMA TrimmedHeld ==
  ASSUME NEW st, Sound(st), NEW s, NEW t \in Slot, NEW quantity \in Nat,
         NEW new \in Trimmed(st, s, t, quantity), NEW u \in Slot
  PROVE  /\ Physical(new.allocations, u) <= Physical(st.allocations, u)
         /\ quantity < cards[s].quantity => Physical(new.allocations, t) <= quantity
<1>1. Physical(st.allocations, u) \in Nat
  BY HeldType
<1> QED BY <1>1, TrimHeld DEF Trimmed

LEMMA ClearedFits ==
  ASSUME FitInv, NEW S \in SUBSET Slot, NEW st \in Clear(tables, S), Write(st),
         \A s \in Slot :
           \/ cards'[s].quantity = cards[s].quantity /\ cards'[s].proxies = cards[s].proxies
           \/ cards'[s].quantity = cards[s].quantity /\ cards'[s].proxies = 0
           \/ s \in S /\ cards'[s] = NoCard
  PROVE  Fits(allocations, cards)'
<1>1. ASSUME NEW s \in Slot
      PROVE  Physical(st.allocations, s) + cards'[s].proxies <= cards'[s].quantity
  <2>1. /\ Physical(st.allocations, s) <= Physical(allocations, s)
        /\ s \in S => Physical(st.allocations, s) = 0
    BY FitParts, ClearHeld
  <2>2. Physical(st.allocations, s) \in Nat
    BY TotalType DEF Physical
  <2> QED BY <2>1, <2>2, FitParts DEF NoCard
<1> QED BY <1>1, FitsAfter

-----------------------------------------------------------------------------
(* The actions again: no deck card ends with more than its quantity.        *)

LEMMA AllocationFits ==
  ASSUME FitInv, AllocationNext
  PROVE  Fits(allocations, cards)'
<1>0. Inv'
  BY AllocationKeeps DEF FitInv
<1>1. ASSUME NEW s \in Slot, NEW i \in ItemId, NEW q \in 1 .. MaxCopies, Allocate(s, i, q)
      PROVE  Fits(allocations, cards)'
  <2> DEFINE to == [j \in ItemId |-> s]
  <2>1. PICK st \in Reserve(tables, to, Only(i, q)) : Write(st)
    BY <1>1 DEF Allocate
  <2>2. st = [items |-> st.items, allocations |-> st.allocations]
    BY <2>1, Shapes
  <2>3. Sound(st)
    BY <1>0, <2>1, <2>2, WrittenSound
  <2>4. q \in Nat /\ q > 0 /\ Only(i, q) \in Amount /\ Total(Only(i, q)) = q
    BY OnlyTotal, TablesAssumption DEF TablesAssumption
  <2>5. \A j \in Moved(Only(i, q)) : to[j] = s
    BY DEF Moved
  <2> HIDE DEF to
  <2>6. ASSUME NEW r \in Slot
        PROVE  Physical(st.allocations, r) + cards'[r].proxies <= cards'[r].quantity
    <3>1. Physical(st.allocations, r) <= Physical(allocations, r) + Total(Share(Only(i, q), to, r))
      BY <2>1, <2>3, <2>4, FitParts, ReserveHeld
    <3>2. Total(Share(Only(i, q), to, r)) <= q /\ Total(Share(Only(i, q), to, r)) \in Nat
      BY <2>4, ShareTotals, TotalType
    <3>3. cards'[r].quantity = cards[r].quantity /\ cards'[r].proxies = cards[r].proxies
      <4>1. cards[r] \in DeckCard /\ cards[s] \in DeckCard
        BY InvParts DEF FitInv
      <4>2. cards'[r] = IF r = s THEN [cards[s] EXCEPT !.preferred = items[i].printed] ELSE cards[r]
        BY <1>1, InvParts DEF Allocate, FitInv
      <4> QED BY <4>1, <4>2 DEF DeckCard
    <3>4. Physical(st.allocations, r) \in Nat
      BY <2>3, HeldType
    <3>5. CASE r = s
      <4>1. q <= Room(allocations, s, cards[s].quantity, cards[s].proxies)
        BY <1>1 DEF Allocate
      <4>2. q + Physical(allocations, s) + cards[s].proxies <= cards[s].quantity
        BY <2>4, <4>1, FitParts DEF Room, Monus
      <4> QED BY <2>4, <3>1, <3>2, <3>3, <3>4, <3>5, <4>2, FitParts
    <3>6. CASE r # s
      <4>1. Total(Share(Only(i, q), to, r)) = 0
        BY <2>4, <2>5, <3>6, ShareTotals
      <4> QED BY <3>1, <3>3, <3>4, <4>1, FitParts
    <3> QED BY <3>5, <3>6
  <2> QED BY <2>1, <2>6, FitsAfter
<1>2. ASSUME NEW s \in Slot, NEW i \in ItemId, NEW q \in 1 .. MaxCopies, Deallocate(s, i, q)
      PROVE  Fits(allocations, cards)'
  <2> DEFINE n == Less(q, allocations[s][i].quantity)
  <2>1. PICK st \in Release(tables, {s}, Only(i, n)) : Write(st)
    BY <1>2 DEF Deallocate
  <2>2. /\ allocations[s][i].quantity \in Nat /\ allocations[s][i].quantity <= MaxCopies
        /\ q \in Nat /\ MaxCopies \in Nat
    BY InvParts, TablesAssumption DEF TablesAssumption, Row, FitInv
  <2>3. n \in 0 .. MaxCopies
    BY <2>2 DEF Less
  <2> HIDE DEF n
  <2>4. Only(i, n) \in Amount
    BY <2>2, <2>3 DEF Only, Amount
  <2>5. st = [items |-> st.items, allocations |-> st.allocations]
    BY <2>1, Shapes
  <2>6. Sound(st)
    BY <1>0, <2>1, <2>5, WrittenSound
  <2>7. ASSUME NEW r \in Slot
        PROVE  Physical(st.allocations, r) + cards'[r].proxies <= cards'[r].quantity
    <3>1. Physical(st.allocations, r) <= Physical(allocations, r)
      BY <2>1, <2>4, <2>6, FitParts, ReleaseShrinks
    <3>2. cards' = cards /\ Physical(st.allocations, r) \in Nat
      BY <1>2, <2>6, HeldType DEF Deallocate
    <3> QED BY <3>1, <3>2, FitParts
  <2> QED BY <2>1, <2>7, FitsAfter
<1>3. ASSUME NEW s \in Slot, NEW q \in 1 .. MaxQuantity, AllocateProxy(s, q) \/ DeallocateProxy(s, q)
      PROVE  Fits(allocations, cards)'
  <2>1. q \in Nat /\ q > 0
    BY QuantityAssumption DEF QuantityAssumption
  <2>2. Write(tables)
    BY <1>3 DEF AllocateProxy, DeallocateProxy, Write, tables
  <2>3. ASSUME NEW r \in Slot
        PROVE  Physical(allocations, r) + cards'[r].proxies <= cards'[r].quantity
    <3>0. cards \in [Slot -> DeckCard]
      BY InvParts DEF FitInv
    <3>1. CASE r # s
      <4>1. cards'[r] = cards[r]
        BY <1>3, <3>0, <3>1 DEF AllocateProxy, DeallocateProxy
      <4> QED BY <4>1, FitParts
    <3>2. CASE r = s /\ AllocateProxy(s, q)
      <4>1. q <= Room(allocations, s, cards[s].quantity, cards[s].proxies)
        BY <3>2 DEF AllocateProxy
      <4>2. q + Physical(allocations, s) + cards[s].proxies <= cards[s].quantity
        BY <2>1, <4>1, FitParts DEF Room, Monus
      <4>3. cards'[s].quantity = cards[s].quantity /\ cards'[s].proxies = cards[s].proxies + q
        BY <3>0, <3>2 DEF AllocateProxy, DeckCard
      <4> QED BY <2>1, <3>2, <4>2, <4>3, FitParts
    <3>3. CASE r = s /\ DeallocateProxy(s, q)
      <4>1. /\ cards'[s].quantity = cards[s].quantity /\ cards'[s].proxies = cards[s].proxies - q
            /\ q <= cards[s].proxies
        BY <3>0, <3>3 DEF DeallocateProxy, DeckCard
      <4> QED BY <2>1, <3>3, <4>1, FitParts
    <3> QED BY <1>3, <3>1, <3>2, <3>3
  <2>4. \A r \in Slot : Physical(tables.allocations, r) + cards'[r].proxies <= cards'[r].quantity
    BY <2>3, FitParts
  <2> QED BY <2>2, <2>4, FitsAfter
<1>4. ASSUME NEW S \in SUBSET Slot, BulkDeallocate(S)
      PROVE  Fits(allocations, cards)'
  <2>1. PICK st \in Clear(tables, S) : Write(st)
    BY <1>4 DEF BulkDeallocate
  <2>2. ASSUME NEW s \in Slot
        PROVE  /\ cards'[s].quantity = cards[s].quantity
               /\ cards'[s].proxies = cards[s].proxies \/ cards'[s].proxies = 0
    <3>1. cards[s] \in DeckCard
      BY InvParts DEF FitInv
    <3>2. cards'[s] = IF s \in S THEN [cards[s] EXCEPT !.proxies = 0] ELSE cards[s]
      BY <1>4 DEF BulkDeallocate
    <3> QED BY <3>1, <3>2 DEF DeckCard
  <2> QED BY <2>1, <2>2, ClearedFits
<1>5. ASSUME NEW d \in Deck, Disassemble(d)
      PROVE  Fits(allocations, cards)'
  <2>1. PICK st \in Clear(tables, CardSlots(d)) : Write(st)
    BY <1>5 DEF Disassemble
  <2>2. CardSlots(d) \in SUBSET Slot /\ cards' = cards
    BY <1>5 DEF CardSlots, Disassemble
  <2> QED BY <2>1, <2>2, ClearedFits
<1>6. ASSUME NEW d \in Deck, NEW z \in Zone,
             NEW I \in SUBSET {i \in ItemId : items[i].copies > 0}, AddCollectionItems(d, I, z)
      PROVE  Fits(allocations, cards)'
  <2> DEFINE slotOf == [i \in I |-> Key(d, CardOf[items[i].printed], z)]
             group(s) == {i \in I : slotOf[i] = s}
             reserved == {i \in I : z # "considering" /\ ~Basic(slotOf[i])}
             take == [i \in ItemId |-> IF i \in reserved THEN 1 ELSE 0]
             grown(first) == [s \in Slot |->
               IF s \in DOMAIN first
               THEN [quantity |-> cards[s].quantity + Cardinality(group(s)),
                     proxies |-> cards[s].proxies,
                     preferred |-> items[first[s]].printed]
               ELSE cards[s]]
  <2>1. PICK first \in [{slotOf[i] : i \in I} -> I] : cards' = grown(first)
    BY <1>6 DEF AddCollectionItems
  <2>2. PICK st \in Reserve(tables, slotOf, take) : Write(st)
    BY <1>6 DEF AddCollectionItems
  <2>3. st = [items |-> st.items, allocations |-> st.allocations]
    <3> HIDE DEF slotOf, take
    <3> QED BY <2>2, Shapes
  <2>4. Sound(st)
    BY <1>0, <2>2, <2>3, WrittenSound
  <2>5. take \in Amount
    <3>1. \A i \in ItemId : items[i].copies \in 0 .. MaxCopies
      BY InvParts DEF FitInv, Item
    <3>2. \A i \in I : items[i].copies > 0 /\ i \in ItemId
      OBVIOUS
    <3>3. \A i \in ItemId : take[i] \in 0 .. MaxCopies
      BY <3>1, <3>2, TablesAssumption DEF TablesAssumption
    <3>4. take = [i \in ItemId |-> take[i]]
      OBVIOUS
    <3> HIDE DEF take
    <3> QED BY <3>3, <3>4 DEF Amount
  <2>6. \A i \in ItemId : take[i] \in {0, 1} /\ (take[i] = 1 => i \in I)
    OBVIOUS
  <2>7. DOMAIN first = {slotOf[i] : i \in I}
    OBVIOUS
  <2>8. ASSUME NEW s \in Slot
        PROVE  /\ cards'[s].proxies = cards[s].proxies
               /\ cards'[s].quantity = IF s \in {slotOf[i] : i \in I}
                                       THEN cards[s].quantity + Cardinality(group(s))
                                       ELSE cards[s].quantity
    <3> HIDE DEF slotOf, group
    <3> QED BY <2>1, <2>7
  <2> HIDE DEF take, slotOf
  <2>9. ASSUME NEW s \in Slot
        PROVE  Total(Share(take, slotOf, s)) <= Cardinality(group(s)) /\ IsFiniteSet(group(s))
    <3> DEFINE U == Units(Share(take, slotOf, s))
               f == [u \in U |-> u[1]]
    <3>1. IsFiniteSet(group(s))
      <4>1. group(s) \in SUBSET ItemId
        OBVIOUS
      <4> QED BY <4>1, FS_Subset, TablesAssumption DEF TablesAssumption
    <3>2. ASSUME NEW u \in U
          PROVE  u = <<u[1], 1>> /\ u[1] \in group(s)
      <4>1. /\ u[1] \in ItemId /\ u[2] \in 1 .. MaxCopies /\ u = <<u[1], u[2]>>
            /\ u[2] <= Share(take, slotOf, s)[u[1]]
        BY DEF Units
      <4>2. u[2] \in Nat /\ u[2] > 0
        BY <4>1, TablesAssumption DEF TablesAssumption
      <4>3. /\ take[u[1]] = 1 /\ slotOf[u[1]] = s /\ u[2] <= 1
        BY <2>6, <4>1, <4>2 DEF Share
      <4>4. u[2] = 1
        BY <4>2, <4>3
      <4> QED BY <2>6, <4>1, <4>3, <4>4
    <3>3. f \in [U -> group(s)]
      BY <3>2
    <3>4. \A u, v \in U : f[u] = f[v] => u = v
      BY <3>2
    <3>5. f \in Injection(U, group(s))
      <4> HIDE DEF f, U, group
      <4> QED BY <3>3, <3>4, Fun_IsInj
    <3> HIDE DEF f
    <3> QED BY <3>1, <3>5, FS_Injection DEF Total
  <2>10. ASSUME NEW s \in Slot, s \notin {slotOf[i] : i \in I}
         PROVE  Total(Share(take, slotOf, s)) = 0
    <3>1. \A i \in Moved(take) : slotOf[i] # s
      BY <2>6, <2>10 DEF Moved
    <3> QED BY <2>5, <3>1, ShareTotals
  <2>11. ASSUME NEW s \in Slot
         PROVE  Physical(st.allocations, s) + cards'[s].proxies <= cards'[s].quantity
    <3>1. Physical(st.allocations, s) <= Physical(allocations, s) + Total(Share(take, slotOf, s))
      BY <2>2, <2>4, <2>5, FitParts, ReserveHeld
    <3>2. /\ Physical(st.allocations, s) \in Nat /\ Total(Share(take, slotOf, s)) \in Nat
          /\ Cardinality(group(s)) \in Nat
      BY <2>4, <2>9, HeldType, TotalType, FS_CardinalityType
    <3> HIDE DEF group
    <3> QED BY <2>8, <2>9, <2>10, <3>1, <3>2, FitParts
  <2> QED BY <2>2, <2>11, FitsAfter
<1> QED BY <1>1, <1>2, <1>3, <1>4, <1>5, <1>6 DEF AllocationNext

LEMMA CollectionFits ==
  ASSUME FitInv, Inv', CollectionNext
  PROVE  Fits(allocations, cards)'
<1>1. cards' = cards
  BY DEF CollectionNext, CreateItem, UpdateItem, DeleteItems, CreateLocation, SetKind,
         DeleteLocation
<1>2. ASSUME NEW s \in Slot
      PROVE  Physical(tables'.allocations, s) <= Physical(allocations, s)
  <2>1. Sound(tables') /\ tables'.allocations = allocations'
    BY DEF Inv, tables
  <2>2. ASSUME NEW i \in ItemId
        PROVE  HeldBy(tables'.allocations, s)[i] <= HeldBy(tables.allocations, s)[i]
    <3>1. \/ allocations'[s][i].quantity = 0
          \/ allocations'[s][i].quantity = allocations[s][i].quantity
      BY RowsKept DEF FitInv
    <3>2. allocations[s][i].quantity \in Nat
      BY FitParts, SoundParts
    <3>3. allocations'[s][i].quantity <= allocations[s][i].quantity
      BY <3>1, <3>2
    <3> QED BY <2>1, <3>3, FitParts, HeldType
  <2> QED BY <2>1, <2>2, FitParts, HeldType, TotalMono DEF Physical
<1>3. ASSUME NEW s \in Slot
      PROVE  Physical(tables'.allocations, s) + cards'[s].proxies <= cards'[s].quantity
  <2>1. Physical(tables'.allocations, s) \in Nat
    BY TotalType DEF Physical
  <2> QED BY <1>1, <1>2, <2>1, FitParts
<1>4. Write(tables')
  BY DEF Write, tables
<1> QED BY <1>3, <1>4, FitsAfter

LEMMA AddCardFits ==
  ASSUME FitInv, NEW s \in Slot, NEW total \in 1 .. MaxQuantity,
         NEW p \in Printing \cup {NoPrinting}, AddCard(s, total, p)
  PROVE  Fits(allocations, cards)'
<1>1. PICK st \in Trimmed(tables, s, s, total) : Write(st)
  BY DEF AddCard
<1>2. total \in Nat /\ Sound(tables) /\ Sound(st)
  BY <1>1, FitParts, TrimmedSound, QuantityAssumption DEF QuantityAssumption
<1>3. ASSUME NEW r \in Slot
      PROVE  Physical(st.allocations, r) + cards'[r].proxies <= cards'[r].quantity
  <2>1. /\ Physical(st.allocations, r) <= Physical(allocations, r)
        /\ total < cards[s].quantity => Physical(st.allocations, s) <= total
    BY <1>1, <1>2, FitParts, TrimmedHeld
  <2>2. Physical(st.allocations, r) \in Nat
    BY <1>2, HeldType
  <2>3. cards' = [cards EXCEPT ![s] =
          [quantity |-> total, proxies |-> ProxiesAt(s, total), preferred |-> p]]
    BY DEF AddCard
  <2>4. CASE r = s
    <3>1. cards'[r] = [quantity |-> total, proxies |-> ProxiesAt(s, total), preferred |-> p]
      BY <2>3, <2>4, InvParts DEF FitInv
    <3>2. Physical(st.allocations, s) + ProxiesAt(s, total) <= total
      BY <1>2, <2>1, <2>2, <2>4, ProxiesFit
    <3> QED BY <2>4, <3>1, <3>2
  <2>5. CASE r # s
    <3>1. cards'[r] = cards[r]
      BY <2>3, <2>5, InvParts DEF FitInv
    <3> QED BY <2>1, <2>2, <3>1, FitParts
  <2> QED BY <2>4, <2>5
<1> QED BY <1>1, <1>3, FitsAfter

LEMMA ShelveCardFits ==
  ASSUME FitInv, NEW s \in Slot, NEW q \in 1 .. MaxQuantity,
         NEW p \in Printing \cup {NoPrinting}, ShelveCard(s, q, p)
  PROVE  Fits(allocations, cards)'
<1> DEFINE t == In(s, "considering")
<1>1. PICK st \in Clear(tables, {s}) : Write(st)
  BY DEF ShelveCard
<1>2. /\ cards' = [cards EXCEPT ![s] = NoCard,
                     ![t] = [quantity |-> q, proxies |-> 0, preferred |-> p]]
      /\ t \in Slot /\ t # s /\ ~Listed(t)
  BY DEF ShelveCard
<1> HIDE DEF t
<1>3. q \in Nat
  BY QuantityAssumption DEF QuantityAssumption
<1>4. ASSUME NEW r \in Slot
      PROVE  Physical(st.allocations, r) + cards'[r].proxies <= cards'[r].quantity
  <2>1. /\ Physical(st.allocations, r) <= Physical(allocations, r)
        /\ r = s => Physical(st.allocations, r) = 0
        /\ Physical(st.allocations, r) \in Nat
    BY <1>1, FitParts, ClearHeld, TotalType DEF Physical
  <2>2. CASE r = s
    <3>1. cards'[r] = NoCard
      BY <1>2, <2>2, InvParts DEF FitInv
    <3> QED BY <2>1, <2>2, <3>1 DEF NoCard
  <2>3. CASE r = t
    <3>1. cards'[r] = [quantity |-> q, proxies |-> 0, preferred |-> p]
      BY <1>2, <2>3, InvParts DEF FitInv
    <3>2. Physical(allocations, r) = 0
      BY <1>2, <2>3, FitParts DEF Listed
    <3> QED BY <1>3, <2>1, <3>1, <3>2
  <2>4. CASE r # s /\ r # t
    <3>1. cards'[r] = cards[r]
      BY <1>2, <2>4, InvParts DEF FitInv
    <3> QED BY <2>1, <3>1, FitParts
  <2> QED BY <2>2, <2>3, <2>4
<1> QED BY <1>1, <1>4, FitsAfter

LEMMA UpdateCardFits ==
  ASSUME FitInv, NEW s \in Slot, NEW q \in 1 .. MaxQuantity, NEW z \in Zone,
         NEW p \in Printing \cup {NoPrinting}, UpdateCard(s, q, z, p)
  PROVE  Fits(allocations, cards)'
<1> DEFINE t == In(s, z)
           from == {s} \ {t}
           keyed == [tables EXCEPT !.allocations = MovedAllocations(@, from, z)]
           room == IF Basic(s) THEN 0 ELSE Monus(q, ProxiesAt(s, q))
           row == [quantity |-> q, proxies |-> ProxiesAt(s, q), preferred |-> p]
           Exchanged(old) ==
             IF p = cards[s].preferred THEN {old}
             ELSE IF z = "considering" /\ Physical(old.allocations, t) > 0 THEN {}
             ELSE Switch(old, Lists, t, p, room)
<1>1. PICK trimmed \in Trimmed(keyed, s, t, q) : \E st \in Exchanged(trimmed) : Write(st)
  BY DEF UpdateCard
<1>2. PICK st \in Exchanged(trimmed) : Write(st)
  BY <1>1
<1>3. t \in Slot /\ from \in SUBSET Slot /\ from \subseteq {s} /\ Distinct(from, z)
  BY InSlot, DistinctOne
<1>4. t # s => cards[t].quantity = 0
  <2>1. t # s => ~Listed(t)
    BY DEF UpdateCard
  <2> QED BY <1>3, <2>1, FitParts DEF Listed
<1>5. keyed = [items |-> tables.items,
               allocations |-> MovedAllocations(tables.allocations, from, z)]
  <2>1. tables = [items |-> items, allocations |-> allocations]
    BY DEF tables
  <2> QED BY <2>1
<1>6. cards' = [MovedCards(cards, from, z) EXCEPT ![t] = row]
  BY DEF UpdateCard
<1>7. q \in Nat
  BY QuantityAssumption DEF QuantityAssumption
<1>8. Sound(keyed)
  <2> HIDE DEF t, keyed, from
  <2> QED BY <1>3, <1>5, MovedAllocationsSound DEF FitInv, Inv
<1>9. Sound(trimmed)
  <2> HIDE DEF t, keyed
  <2> QED BY <1>1, <1>3, <1>8, TrimmedSound
<1>10. st = trimmed \/ st \in Switch(trimmed, Lists, t, p, room)
  OBVIOUS
(* The moved row holds what it held.                                        *)
<1>11. Physical(keyed.allocations, t) <= Physical(allocations, s)
  <2> DEFINE held == MovedAllocations(tables.allocations, from, z)
  <2>0. keyed.allocations = held
    BY <1>5
  <2>1. CASE t = s
    <3>1. t \notin from /\ Incoming(from, z, t) = {}
      BY <2>1 DEF Incoming
    <3> HIDE DEF t, from
    <3>2. Physical(held, t) = Physical(tables.allocations, t)
      BY <1>3, <3>1, FitParts, MovedHeld
    <3> QED BY <1>3, <2>0, <2>1, <3>2, FitParts
  <2>2. CASE t # s
    <3>1. from = {s} /\ t \notin from /\ Incoming(from, z, t) # {}
      BY <2>2 DEF Incoming
    <3>2. Physical(allocations, t) = 0
      BY <1>3, <1>4, <2>2, FitParts
    <3> HIDE DEF t, from
    <3>3. Physical(held, t) <= Physical(tables.allocations, t) + Physical(tables.allocations, s)
      BY <1>3, <3>1, FitParts, MovedHeld
    <3> QED BY <1>3, <2>0, <3>2, <3>3, FitParts
  <2> QED BY <2>1, <2>2
<1>12. Fits(keyed.allocations, MovedCards(cards, from, z))
  <2>1. cards \in [Slot -> LooseCard] /\ Fits(tables.allocations, cards) /\ Sound(tables)
    BY InvParts, LooseCards DEF FitInv
  <2>2. keyed.allocations = MovedAllocations(tables.allocations, from, z)
    BY <1>5
  <2> HIDE DEF keyed, from, t
  <2> QED BY <1>3, <2>1, <2>2, MovedFits
<1> HIDE DEF t, from, keyed, Exchanged
<1>13. \A u \in Slot :
         /\ Physical(trimmed.allocations, u) <= Physical(keyed.allocations, u)
         /\ q < cards[s].quantity => Physical(trimmed.allocations, t) <= q
         /\ Physical(trimmed.allocations, u) \in Nat /\ Physical(keyed.allocations, u) \in Nat
  BY <1>1, <1>3, <1>7, <1>8, <1>9, HeldType, TrimmedHeld
<1>14. 0 + ProxiesAt(s, q) <= q /\ ProxiesAt(s, q) \in Nat
  BY <1>7, FitParts, ProxiesFit
<1>15. room \in Nat /\ room + ProxiesAt(s, q) <= q
  BY <1>7, <1>14 DEF Monus
<1>16. Physical(trimmed.allocations, t) + ProxiesAt(s, q) <= q
  BY <1>3, <1>7, <1>11, <1>13, FitParts, ProxiesFit
<1> HIDE DEF room
<1>17. /\ Physical(st.allocations, t) + ProxiesAt(s, q) <= q
       /\ \A u \in Slot : u # t =>
            Physical(st.allocations, u) <= Physical(trimmed.allocations, u)
       /\ \A u \in Slot : Physical(st.allocations, u) \in Nat
  <2>0. \A u \in Slot : Physical(st.allocations, u) \in Nat
    BY TotalType DEF Physical
  <2>1. CASE st = trimmed
    BY <1>13, <1>16, <2>0, <2>1
  <2>2. CASE st \in Switch(trimmed, Lists, t, p, room)
    <3>1. Physical(st.allocations, t) <= room
          /\ \A u \in Slot : u # t =>
               Physical(st.allocations, u) <= Physical(trimmed.allocations, u)
      BY <1>3, <1>9, <1>15, <2>2, SwitchHeld
    <3> QED BY <1>3, <1>7, <1>14, <1>15, <2>0, <3>1
  <2> QED BY <1>10, <2>1, <2>2
<1>18. ASSUME NEW u \in Slot
       PROVE  Physical(st.allocations, u) + cards'[u].proxies <= cards'[u].quantity
  <2>1. MovedCards(cards, from, z) = [v \in Slot |-> MovedCards(cards, from, z)[v]]
    BY DEF MovedCards
  <2>2. CASE u = t
    <3>1. cards'[u] = row
      BY <1>3, <1>6, <2>1, <2>2
    <3> QED BY <1>17, <2>2, <3>1
  <2>3. CASE u # t
    <3> DEFINE card == MovedCards(cards, from, z)[u]
    <3>1. cards'[u] = card
      BY <1>6, <2>1, <2>3
    <3>2. Physical(keyed.allocations, u) + card.proxies <= card.quantity
      BY <1>12 DEF Fits
    <3>3. card \in LooseCard
      <4>1. cards \in [Slot -> LooseCard]
        BY LooseCards DEF FitInv
      <4> QED BY <1>3, <4>1, MovedCardsType
    <3>4. card.proxies \in Nat /\ card.quantity \in Nat
      BY <3>3, QuantityAssumption DEF QuantityAssumption, LooseCard
    <3> HIDE DEF card
    <3>5. Physical(st.allocations, u) <= Physical(keyed.allocations, u)
      BY <1>13, <1>17, <2>3
    <3> QED BY <1>13, <1>17, <3>1, <3>2, <3>4, <3>5
  <2> QED BY <2>2, <2>3
<1> QED BY <1>2, <1>18, FitsAfter

LEMMA SetCommanderFits ==
  ASSUME FitInv, NEW s \in Slot, SetCommander(s)
  PROVE  Fits(allocations, cards)'
<1> DEFINE others == {r \in CardSlots(DeckOf(s)) : ZoneOf(r) = "commander" /\ Listed(r)} \ {s}
           self == {s} \ {In(s, "commander")}
           stepped == MovedCards(cards, others, "mainboard")
           down == MovedAllocations(allocations, others, "mainboard")
           mid == [items |-> items, allocations |-> down]
<1>1. /\ "mainboard" \in Zone /\ "commander" \in Zone
      /\ cards' = MovedCards(stepped, self, "commander")
      /\ allocations' = MovedAllocations(down, self, "commander")
  BY DEF SetCommander
<1>2. others \in SUBSET Slot /\ self \in SUBSET Slot /\ Distinct(self, "commander")
  BY DistinctOne DEF CardSlots
<1>3. Distinct(others, "mainboard")
  BY CommandersApart
<1>4. /\ Sound(tables) /\ tables.items = items /\ tables.allocations = allocations
      /\ cards \in [Slot -> LooseCard] /\ Fits(tables.allocations, cards)
  BY InvParts, LooseCards DEF FitInv
<1> HIDE DEF others, self
<1>5. Fits(down, stepped)
  BY <1>1, <1>2, <1>3, <1>4, MovedFits
<1>6. stepped \in [Slot -> LooseCard]
  BY <1>2, <1>4, MovedCardsType
<1>7. Sound(mid)
  BY <1>1, <1>2, <1>3, <1>4, MovedAllocationsSound
<1>8. mid.allocations = down
  OBVIOUS
<1> HIDE DEF stepped, down, mid
<1>9. Fits(allocations', cards')
  BY <1>1, <1>2, <1>5, <1>6, <1>7, <1>8, MovedFits
<1> QED BY <1>9 DEF Fits, Physical, HeldBy, Total, Units

LEMMA AddPartnerFits ==
  ASSUME FitInv, NEW s \in Slot, AddPartner(s)
  PROVE  Fits(allocations, cards)'
<1>1. /\ cards' = MovedCards(cards, {s}, "commander")
      /\ allocations' = MovedAllocations(allocations, {s}, "commander")
  BY DEF AddPartner
<1>2. "commander" \in Zone
  BY PartnerZone
<1>3. /\ Sound(tables) /\ tables.allocations = allocations /\ cards \in [Slot -> LooseCard]
      /\ Fits(tables.allocations, cards) /\ Distinct({s}, "commander")
  BY InvParts, LooseCards, DistinctOne DEF FitInv
<1>4. Fits(allocations', cards')
  BY <1>1, <1>2, <1>3, MovedFits
<1> QED BY <1>4 DEF Fits, Physical, HeldBy, Total, Units

LEMMA DeckCardsFits ==
  ASSUME FitInv, DeckCardsNext
  PROVE  Fits(allocations, cards)'
<1>1. CASE \E s \in Slot, total \in 1 .. MaxQuantity, p \in Printing \cup {NoPrinting} :
             AddCard(s, total, p)
  BY <1>1, AddCardFits
<1>2. CASE \E s \in Slot, q \in 1 .. MaxQuantity, p \in Printing \cup {NoPrinting} :
             ShelveCard(s, q, p)
  BY <1>2, ShelveCardFits
<1>3. CASE \E s \in Slot, q \in 1 .. MaxQuantity, z \in Zone, p \in Printing \cup {NoPrinting} :
             UpdateCard(s, q, z, p)
  BY <1>3, UpdateCardFits
<1>4. ASSUME NEW S \in SUBSET {s \in Slot : Listed(s)}, DeleteCards(S)
      PROVE  Fits(allocations, cards)'
  <2>1. PICK st \in Clear(tables, S) : Write(st)
    BY <1>4 DEF DeleteCards
  <2>2. S \in SUBSET Slot /\ \A r \in Slot : cards'[r] = IF r \in S THEN NoCard ELSE cards[r]
    BY <1>4 DEF DeleteCards
  <2> QED BY <2>1, <2>2, ClearedFits
<1>5. ASSUME NEW S \in SUBSET {s \in Slot : Listed(s)}, NEW cheapest \in [S -> Printing],
             OptimizePrintings(S, cheapest)
      PROVE  Fits(allocations, cards)'
  <2>1. PICK st \in Clear(tables, S) : Write(st)
    BY <1>5 DEF OptimizePrintings
  <2>2. ASSUME NEW r \in Slot
        PROVE  cards'[r].quantity = cards[r].quantity /\ cards'[r].proxies = cards[r].proxies
    <3>1. cards[r] \in DeckCard
      BY InvParts DEF FitInv
    <3>2. cards'[r] = IF r \in S THEN [cards[r] EXCEPT !.preferred = cheapest[r]] ELSE cards[r]
      BY <1>5 DEF OptimizePrintings
    <3> QED BY <3>1, <3>2 DEF DeckCard
  <2>3. S \in SUBSET Slot
    OBVIOUS
  <2> QED BY <2>1, <2>2, <2>3, ClearedFits
<1>6. CASE \E s \in Slot : SetCommander(s)
  BY <1>6, SetCommanderFits
<1>7. CASE \E s \in Slot : AddPartner(s)
  BY <1>7, AddPartnerFits
<1>8. CASE \E d \in Deck, new \in {"active", "archived"} : CreateDeck(d, new) \/ SetStatus(d, new)
  <2>1. UNCHANGED <<allocations, cards>>
    BY <1>8 DEF CreateDeck, SetStatus
  <2> QED BY <2>1 DEF FitInv, Fits, Physical, HeldBy, Total, Units
<1>9. ASSUME NEW d \in Deck, DeleteDeck(d)
      PROVE  Fits(allocations, cards)'
  <2>1. PICK st \in Clear(tables, CardSlots(d)) : Write(st)
    BY <1>9 DEF DeleteDeck
  <2>2. /\ CardSlots(d) \in SUBSET Slot
        /\ \A r \in Slot : cards'[r] = IF r \in CardSlots(d) THEN NoCard ELSE cards[r]
    BY <1>9 DEF DeleteDeck, CardSlots
  <2> QED BY <2>1, <2>2, ClearedFits
<1> QED BY <1>1, <1>2, <1>3, <1>4, <1>5, <1>6, <1>7, <1>8, <1>9 DEF DeckCardsNext

-----------------------------------------------------------------------------
(* The remote list, for both.                                               *)

(* The parts of a remote list's write: the listed rows return copies, which *)
(* leaves a sound snapshot, and each row that stays takes what its origin   *)
(* has left.                                                                *)
EntriesWritten(d, remote, carry, st) ==
  LET wanted(t) == remote[<<CardIn(t), ZoneOf(t)>>]
      existing == {t \in CardSlots(d) : Listed(t)}
      desired == {t \in CardSlots(d) : wanted(t).quantity > 0}
      keepers(r) == {t \in desired : Origin(carry, t) = r /\ ~Shelved(carry, t)}
      kept(r) == IF keepers(r) = {} THEN 0
                 ELSE wanted(CHOOSE t \in keepers(r) : TRUE).quantity
  IN  /\ carry \in Carries(existing \ desired, desired \ existing) /\ st \in Snapshot
      /\ Sound(st) /\ SameHomes(tables, st)
      /\ \A r \in Slot : Physical(st.allocations, r) <= Physical(allocations, r)
      /\ \A r \in existing :
           Physical(st.allocations, r) + Freed(r, kept(r)) <= Physical(allocations, r)
      /\ items' = st.items
      /\ allocations' = [t \in Slot |->
           IF t \in desired THEN st.allocations[Origin(carry, t)]
           ELSE IF t \in existing THEN [i \in ItemId |-> NoRow]
           ELSE st.allocations[t]]
      /\ \E preferred \in [desired -> Printing \cup {NoPrinting}] :
           cards' = [t \in Slot |->
             IF t \in desired
             THEN [quantity |-> wanted(t).quantity,
                   proxies |-> IF Shelved(carry, t) THEN 0
                               ELSE ProxiesAt(Origin(carry, t), wanted(t).quantity),
                   preferred |-> preferred[t]]
             ELSE IF t \in existing THEN NoCard ELSE cards[t]]

LEMMA EntriesMade ==
  ASSUME Inv, NEW d \in Deck, NEW remote \in RemoteLists, WriteEntries(d, remote)
  PROVE  \E carry, st : EntriesWritten(d, remote, carry, st)
<1> DEFINE wanted(t) == remote[<<CardIn(t), ZoneOf(t)>>]
           existing == {t \in CardSlots(d) : Listed(t)}
           desired == {t \in CardSlots(d) : wanted(t).quantity > 0}
<1>1. PICK carry \in Carries(existing \ desired, desired \ existing) :
        LET origin(t) == Origin(carry, t)
            keepers(r) == {t \in desired : origin(t) = r /\ ~Shelved(carry, t)}
            kept(r) == IF keepers(r) = {} THEN 0
                       ELSE wanted(CHOOSE t \in keepers(r) : TRUE).quantity
            gives ==
              {g \in [ItemId -> 0 .. MaxCopies] :
                 /\ \A i \in ItemId : g[i] <= HeldIn(allocations, existing, i)
                 /\ \A r \in existing :
                      Total([i \in ItemId |->
                               IF allocations[r][i].quantity > 0 THEN g[i] ELSE 0])
                        = Freed(r, kept(r))}
        IN  /\ HeldOnce(allocations, existing)
            /\ \E give \in gives : \E st \in Release(tables, existing, give) :
                 /\ items' = st.items
                 /\ allocations' = [t \in Slot |->
                      IF t \in desired THEN st.allocations[origin(t)]
                      ELSE IF t \in existing THEN [i \in ItemId |-> NoRow]
                      ELSE st.allocations[t]]
            /\ \E preferred \in [desired -> Printing \cup {NoPrinting}] :
                 cards' = [t \in Slot |->
                      IF t \in desired
                      THEN [quantity |-> wanted(t).quantity,
                            proxies |-> IF Shelved(carry, t) THEN 0
                                        ELSE ProxiesAt(origin(t), wanted(t).quantity),
                            preferred |-> preferred[t]]
                      ELSE IF t \in existing THEN NoCard ELSE cards[t]]
  BY DEF WriteEntries
<1> DEFINE origin(t) == Origin(carry, t)
           keepers(r) == {t \in desired : origin(t) = r /\ ~Shelved(carry, t)}
           kept(r) == IF keepers(r) = {} THEN 0
                      ELSE wanted(CHOOSE t \in keepers(r) : TRUE).quantity
           share(g, r) == [i \in ItemId |-> IF allocations[r][i].quantity > 0 THEN g[i] ELSE 0]
<1>2. PICK give \in [ItemId -> 0 .. MaxCopies] :
        /\ \A i \in ItemId : give[i] <= HeldIn(allocations, existing, i)
        /\ \A r \in existing : Total(share(give, r)) = Freed(r, kept(r))
        /\ \E st \in Release(tables, existing, give) :
             /\ items' = st.items
             /\ allocations' = [t \in Slot |->
                  IF t \in desired THEN st.allocations[origin(t)]
                  ELSE IF t \in existing THEN [i \in ItemId |-> NoRow]
                  ELSE st.allocations[t]]
  BY <1>1
<1>3. PICK st \in Release(tables, existing, give) :
        /\ items' = st.items
        /\ allocations' = [t \in Slot |->
             IF t \in desired THEN st.allocations[origin(t)]
             ELSE IF t \in existing THEN [i \in ItemId |-> NoRow]
             ELSE st.allocations[t]]
  BY <1>2
<1>4. PICK preferred \in [desired -> Printing \cup {NoPrinting}] :
        cards' = [t \in Slot |->
          IF t \in desired
          THEN [quantity |-> wanted(t).quantity,
                proxies |-> IF Shelved(carry, t) THEN 0
                            ELSE ProxiesAt(origin(t), wanted(t).quantity),
                preferred |-> preferred[t]]
          ELSE IF t \in existing THEN NoCard ELSE cards[t]]
  BY <1>1
<1>5. HeldOnce(allocations, existing)
  BY <1>1
<1>6. existing \in SUBSET Slot /\ desired \in SUBSET Slot
      /\ \A r \in CardSlots(d) : r \in existing <=> Listed(r)
  BY DEF CardSlots
<1> HIDE DEF wanted, existing, desired
<1>9. give \in Amount /\ allocations \in [Slot -> [ItemId -> Row]] /\ Sound(tables)
      /\ tables.allocations = allocations
  BY InvParts DEF Amount
<1>10. Sound(st) /\ SameHomes(tables, st)
  <2>1. ASSUME NEW i \in ItemId, give[i] > 0
        PROVE  \E r \in existing : /\ tables.allocations[r][i].quantity > 0
                                   /\ give[i] <= tables.allocations[r][i].quantity
    <3>1. give[i] <= HeldIn(allocations, existing, i)
      BY <1>2
    <3>1a. give[i] \in Nat
      BY TablesAssumption DEF TablesAssumption
    <3>2. \/ HeldIn(allocations, existing, i) = 0
          \/ \E r \in existing : /\ allocations[r][i].quantity > 0
                                /\ HeldIn(allocations, existing, i) = allocations[r][i].quantity
      BY DEF HeldIn, HolderIn
    <3>3. HeldIn(allocations, existing, i) # 0
      BY <2>1, <3>1, <3>1a
    <3> QED BY <1>9, <3>1, <3>2, <3>3
  <2> QED BY <1>3, <1>6, <1>9, <2>1, ReleaseSound, ReleaseHomes
<1>11. \A r \in Slot : /\ Physical(st.allocations, r) <= Physical(allocations, r)
                       /\ Physical(st.allocations, r) \in Nat /\ Physical(allocations, r) \in Nat
  BY <1>3, <1>9, <1>10, HeldType, ReleaseShrinks
(* A listed row returns what its quantity asks.                             *)
<1>12. ASSUME NEW r \in existing
       PROVE  Physical(st.allocations, r) + Freed(r, kept(r)) <= Physical(allocations, r)
  <2>0. r \in Slot
    BY <1>6
  <2>1. share(give, r) \in Amount
    BY TablesAssumption DEF TablesAssumption, Amount
  <2>2. ASSUME NEW i \in ItemId
        PROVE  HeldBy(st.allocations, r)[i] + share(give, r)[i] <= HeldBy(allocations, r)[i]
    <3>1. /\ HeldBy(st.allocations, r)[i] = st.allocations[r][i].quantity
          /\ HeldBy(allocations, r)[i] = allocations[r][i].quantity
      BY DEF HeldBy
    <3>2. st.allocations[r][i].quantity = Monus(allocations[r][i].quantity, give[i])
      BY <1>3, <1>9, <2>0, ReleaseHeld
    <3>3. give[i] \in Nat /\ allocations[r][i].quantity \in Nat
      BY <1>9, <2>0, SoundParts, TablesAssumption DEF TablesAssumption
    <3>4. CASE allocations[r][i].quantity > 0
      <4>1. HeldIn(allocations, existing, i) = allocations[r][i].quantity
        BY <1>5, <3>4 DEF HeldOnce, HeldIn, HolderIn
      <4>2. share(give, r)[i] = give[i] /\ give[i] <= allocations[r][i].quantity
        BY <1>2, <3>4, <4>1
      <4> QED BY <3>1, <3>2, <3>3, <4>2 DEF Monus
    <3>5. CASE ~(allocations[r][i].quantity > 0)
      <4>1. share(give, r)[i] = 0
        BY <3>5
      <4> QED BY <3>1, <3>2, <3>3, <3>5, <4>1 DEF Monus
    <3> QED BY <3>4, <3>5
  <2>3. HeldBy(st.allocations, r) \in Amount /\ HeldBy(allocations, r) \in Amount
    BY <1>9, <1>10, <2>0, HeldType
  <2>4. Total(share(give, r)) = Freed(r, kept(r))
    BY <1>2
  <2> HIDE DEF share, kept
  <2>5. Total(HeldBy(st.allocations, r)) + Total(share(give, r)) <= Total(HeldBy(allocations, r))
    BY <2>1, <2>2, <2>3, TotalApart
  <2> QED BY <2>4, <2>5 DEF Physical
<1>13. st \in Snapshot
  BY <1>10 DEF Sound
<1>14. EntriesWritten(d, remote, carry, st)
  BY <1>1, <1>3, <1>4, <1>10, <1>11, <1>12, <1>13 DEF EntriesWritten, wanted, existing, desired
<1> QED BY <1>14

(* What a remote list does to a deck card: nothing but take copies; empty   *)
(* it; shelve it; or let it follow the row it stands for, whose copies are  *)
(* returned as far as the new quantity asks.                                *)
LEMMA EntriesFacts ==
  ASSUME Inv, NEW d \in Deck, NEW remote \in RemoteLists, WriteEntries(d, remote), Inv',
         NEW s \in Slot
  PROVE  \/ /\ cards'[s] = cards[s]
            /\ Physical(allocations', s) <= Physical(allocations, s)
         \/ cards'[s] = NoCard /\ Physical(allocations', s) = 0
         \/ /\ cards'[s].quantity \in Nat /\ cards'[s].proxies = 0
            /\ Physical(allocations', s) = 0
         \/ \E r \in Slot :
              /\ CardIn(r) = CardIn(s) /\ (r = s \/ ZoneOf(s) # "considering")
              /\ cards'[s].quantity \in Nat
              /\ cards'[s].proxies = ProxiesAt(r, cards'[s].quantity)
              /\ Physical(allocations', s) <= Physical(allocations, r)
              /\ cards'[s].quantity < cards[r].quantity =>
                   Physical(allocations', s) <= cards'[s].quantity
<1> DEFINE wanted(t) == remote[<<CardIn(t), ZoneOf(t)>>]
           existing == {t \in CardSlots(d) : Listed(t)}
           desired == {t \in CardSlots(d) : wanted(t).quantity > 0}
<1>1a. PICK carry, st : EntriesWritten(d, remote, carry, st)
  BY EntriesMade
<1>1. /\ carry \in Carries(existing \ desired, desired \ existing) /\ st \in Snapshot
     /\ LET keepers(r) == {t \in desired : Origin(carry, t) = r /\ ~Shelved(carry, t)}
            kept(r) == IF keepers(r) = {} THEN 0
                       ELSE wanted(CHOOSE t \in keepers(r) : TRUE).quantity
        IN  /\ Sound(st)
            /\ \A r \in Slot : Physical(st.allocations, r) <= Physical(allocations, r)
            /\ \A r \in existing :
                 Physical(st.allocations, r) + Freed(r, kept(r)) <= Physical(allocations, r)
            /\ allocations' = [t \in Slot |->
                 IF t \in desired THEN st.allocations[Origin(carry, t)]
                 ELSE IF t \in existing THEN [i \in ItemId |-> NoRow]
                 ELSE st.allocations[t]]
            /\ \E preferred \in [desired -> Printing \cup {NoPrinting}] :
                 cards' = [t \in Slot |->
                   IF t \in desired
                   THEN [quantity |-> wanted(t).quantity,
                         proxies |-> IF Shelved(carry, t) THEN 0
                                     ELSE ProxiesAt(Origin(carry, t), wanted(t).quantity),
                         preferred |-> preferred[t]]
                   ELSE IF t \in existing THEN NoCard ELSE cards[t]]
  BY <1>1a DEF EntriesWritten
<1> DEFINE origin(t) == Origin(carry, t)
           keepers(r) == {t \in desired : origin(t) = r /\ ~Shelved(carry, t)}
           kept(r) == IF keepers(r) = {} THEN 0
                      ELSE wanted(CHOOSE t \in keepers(r) : TRUE).quantity
<1>3. allocations' = [t \in Slot |->
        IF t \in desired THEN st.allocations[origin(t)]
        ELSE IF t \in existing THEN [i \in ItemId |-> NoRow]
        ELSE st.allocations[t]]
  BY <1>1
<1>4. PICK preferred \in [desired -> Printing \cup {NoPrinting}] :
        cards' = [t \in Slot |->
          IF t \in desired
          THEN [quantity |-> wanted(t).quantity,
                proxies |-> IF Shelved(carry, t) THEN 0
                            ELSE ProxiesAt(origin(t), wanted(t).quantity),
                preferred |-> preferred[t]]
          ELSE IF t \in existing THEN NoCard ELSE cards[t]]
  BY <1>1
<1>6. existing \in SUBSET Slot /\ desired \in SUBSET Slot
      /\ \A r \in CardSlots(d) : r \in existing <=> Listed(r)
  BY DEF CardSlots
<1>7. /\ DOMAIN carry \subseteq desired \ existing
      /\ \A t \in DOMAIN carry : carry[t] \in existing \ desired /\ CardIn(carry[t]) = CardIn(t)
      /\ \A t, u \in DOMAIN carry : carry[t] = carry[u] => t = u
  <2> HIDE DEF existing, desired
  <2> QED BY <1>1, CarriesFacts
<1>8. \A t \in desired : wanted(t).quantity \in Nat /\ t \in CardSlots(d)
  <2> SUFFICES ASSUME NEW t \in desired PROVE wanted(t).quantity \in Nat
    OBVIOUS
  <2>1. <<CardIn(t), ZoneOf(t)>> \in Card \X Zone
    BY <1>6, SlotParts
  <2>2. remote[<<CardIn(t), ZoneOf(t)>>] \in RemoteCard
    BY <2>1, RemoteAssumption DEF RemoteAssumption
  <2> QED BY <2>2, QuantityAssumption DEF QuantityAssumption, RemoteCard
<1> HIDE DEF wanted, existing, desired
<1>11. \A r \in Slot : /\ Physical(st.allocations, r) <= Physical(allocations, r)
                       /\ Physical(st.allocations, r) \in Nat /\ Physical(allocations, r) \in Nat
  BY <1>1, TotalType DEF Physical
<1>12. ASSUME NEW r \in existing
       PROVE  Physical(st.allocations, r) + Freed(r, kept(r)) <= Physical(allocations, r)
  BY <1>1
<1>13. ASSUME NEW t \in Slot, NEW row, allocations'[s] = row[t]
       PROVE  Physical(allocations', s) = Physical(row, t)
  BY <1>13 DEF Physical, HeldBy
<1>14. CASE s \notin desired /\ s \notin existing
  <2>1. cards'[s] = cards[s] /\ allocations'[s] = st.allocations[s]
    BY <1>3, <1>4, <1>14
  <2> QED BY <1>11, <1>13, <2>1
<1>15. CASE s \notin desired /\ s \in existing
  <2>1. cards'[s] = NoCard /\ allocations'[s] = [i \in ItemId |-> NoRow]
    BY <1>3, <1>4, <1>15
  <2>2. Empty(allocations', s)
    BY <2>1 DEF Empty, NoRow
  <2>3. allocations' \in [Slot -> [ItemId -> Row]]
    BY SoundParts DEF Inv, tables
  <2> QED BY <2>1, <2>2, <2>3, PhysicalZero
<1>16. CASE s \in desired /\ Shelved(carry, s)
  <2> DEFINE r == carry[s]
  <2>1. s \in DOMAIN carry /\ origin(s) = r /\ r \in existing /\ r \notin desired /\ r \in Slot
    BY <1>6, <1>7, <1>16 DEF Origin, Shelved
  <2>2. keepers(r) = {}
    <3> SUFFICES ASSUME NEW t \in desired, origin(t) = r, ~Shelved(carry, t) PROVE FALSE
      OBVIOUS
    <3>1. t \in DOMAIN carry
      BY <2>1 DEF Origin
    <3>2. carry[t] = r
      BY <3>1 DEF Origin
    <3> QED BY <1>7, <1>16, <2>1, <3>1, <3>2
  <2>3. kept(r) = 0
    BY <2>2
  <2>4. r \in existing => Listed(r)
    BY DEF existing
  <2> HIDE DEF keepers, kept, r
  <2>5. cards[r].quantity > 0 /\ cards[r].quantity \in Nat
    BY <2>1, <2>4, CardFields DEF Listed
  <2>6. Freed(r, kept(r)) = Physical(allocations, r)
    BY <1>11, <2>1, <2>3, <2>5 DEF Freed, Monus
  <2>7. Physical(st.allocations, r) = 0
    BY <1>11, <1>12, <2>1, <2>6
  <2>8. /\ allocations'[s] = st.allocations[r]
        /\ cards'[s].quantity = wanted(s).quantity /\ cards'[s].proxies = 0
    BY <1>3, <1>4, <1>16, <2>1
  <2>9. Physical(allocations', s) = 0
    BY <1>13, <2>1, <2>7, <2>8
  <2> QED BY <1>8, <1>16, <2>8, <2>9
<1>17. CASE s \in desired /\ ~Shelved(carry, s)
  <2> DEFINE r == origin(s)
             q == wanted(s).quantity
  <2>1. /\ r \in Slot /\ CardIn(r) = CardIn(s) /\ (r = s \/ ZoneOf(s) # "considering")
        /\ r \notin existing => r = s
    <3>1. CASE s \in DOMAIN carry
      <4>1. r = carry[s] /\ ZoneOf(s) # "considering"
        BY <1>17, <3>1 DEF Origin, Shelved
      <4> QED BY <1>6, <1>7, <3>1, <4>1
    <3>2. CASE s \notin DOMAIN carry
      BY <3>2 DEF Origin
    <3> QED BY <3>1, <3>2
  <2>2. ASSUME r \in existing PROVE kept(r) = q
    <3>1. s \in keepers(r)
      BY <1>17
    <3>2. ASSUME NEW t \in keepers(r) PROVE t = s
      <4>1. t \in desired /\ origin(t) = origin(s)
        OBVIOUS
      <4>2. CASE t \in DOMAIN carry /\ s \in DOMAIN carry
        BY <1>7, <4>1, <4>2 DEF Origin
      <4>3. CASE t \in DOMAIN carry /\ s \notin DOMAIN carry
        BY <1>7, <1>17, <4>1, <4>3 DEF Origin
      <4>4. CASE t \notin DOMAIN carry /\ s \in DOMAIN carry
        BY <1>7, <4>1, <4>4 DEF Origin
      <4>5. CASE t \notin DOMAIN carry /\ s \notin DOMAIN carry
        BY <4>1, <4>5 DEF Origin
      <4> QED BY <4>2, <4>3, <4>4, <4>5
    <3> HIDE DEF keepers, r
    <3>3. (CHOOSE t \in keepers(r) : TRUE) = s
      BY <3>1, <3>2
    <3> QED BY <3>1, <3>3
  <2>3. /\ allocations'[s] = st.allocations[r]
        /\ cards'[s].quantity = q /\ cards'[s].proxies = ProxiesAt(r, q)
    BY <1>3, <1>4, <1>17
  <2>4. q \in Nat
    BY <1>8, <1>17
  <2>5. r \notin existing => ~Listed(r)
    <3>1. s \in CardSlots(d)
      BY <1>8, <1>17
    <3> QED BY <1>6, <2>1, <3>1
  <2> HIDE DEF origin, keepers, kept, r, q
  <2>6. cards[r].quantity \in Nat
    BY <2>1, CardFields
  <2>7. ASSUME q < cards[r].quantity PROVE Physical(st.allocations, r) <= q
    <3>1. r \in existing
      BY <2>4, <2>5, <2>6, <2>7 DEF Listed
    <3>2. Freed(r, kept(r)) = Monus(Physical(allocations, r), q)
      BY <2>2, <2>7, <3>1 DEF Freed
    <3> QED BY <1>11, <1>12, <2>1, <2>4, <3>1, <3>2 DEF Monus
  <2>8. Physical(allocations', s) = Physical(st.allocations, r)
    BY <1>13, <2>1, <2>3
  <2> QED BY <1>11, <2>1, <2>3, <2>4, <2>7, <2>8
<1> QED BY <1>14, <1>15, <1>16, <1>17

(* The remote list leaves idle deck cards empty.                            *)
LEMMA WriteEntriesIdle ==
  ASSUME IdeaInv, Inv', NEW d \in Deck, NEW remote \in RemoteLists, WriteEntries(d, remote)
  PROVE  IdleEmpty(allocations, cards)'
<1>1. allocations' \in [Slot -> [ItemId -> Row]]
  BY SoundParts DEF Inv, tables
<1>2. ASSUME NEW s \in Slot, Idle(s)
      PROVE  Physical(allocations', s) = 0 /\ cards'[s].proxies = 0
  <2>0. Physical(allocations', s) \in Nat
    BY TotalType DEF Physical
  <2>1. CASE \E r \in Slot :
               /\ CardIn(r) = CardIn(s) /\ (r = s \/ ZoneOf(s) # "considering")
               /\ cards'[s].quantity \in Nat
               /\ cards'[s].proxies = ProxiesAt(r, cards'[s].quantity)
               /\ Physical(allocations', s) <= Physical(allocations, r)
    <3>1. PICK r \in Slot :
               /\ CardIn(r) = CardIn(s) /\ (r = s \/ ZoneOf(s) # "considering")
               /\ cards'[s].quantity \in Nat
               /\ cards'[s].proxies = ProxiesAt(r, cards'[s].quantity)
               /\ Physical(allocations', s) <= Physical(allocations, r)
      BY <2>1
    <3>2. Idle(r)
      BY <1>2, <3>1 DEF Idle, Basic
    <3> QED BY <2>0, <3>1, <3>2, IdleParts, IdleProxies
  <2>2. CASE cards'[s] = cards[s] /\ Physical(allocations', s) <= Physical(allocations, s)
    BY <1>2, <2>0, <2>2, IdleParts
  <2>3. CASE Physical(allocations', s) = 0 /\ (cards'[s] = NoCard \/ cards'[s].proxies = 0)
    BY <2>3 DEF NoCard
  <2>4. Inv
    BY DEF IdeaInv
  <2> QED BY <2>1, <2>2, <2>3, <2>4, EntriesFacts
<1>3. IdleEmpty(allocations', cards')
  BY <1>1, <1>2, PhysicalZero DEF IdleEmpty
<1> QED BY <1>3, Primed

(* The remote list leaves every copy where it belongs: a row that goes      *)
(* without being carried over has given back all it held, and a row that is *)
(* new held nothing that the carried one could replace.                     *)
LEMMA WriteEntriesHomes ==
  ASSUME Inv, FitInv, Inv', NEW d \in Deck, NEW remote \in RemoteLists, WriteEntries(d, remote)
  PROVE  SameHomes(tables, tables')
<1> DEFINE wanted(t) == remote[<<CardIn(t), ZoneOf(t)>>]
           existing == {t \in CardSlots(d) : Listed(t)}
           desired == {t \in CardSlots(d) : wanted(t).quantity > 0}
<1>0. NotOverfilled
  BY DEF FitInv, Fits, NotOverfilled
<1>1. /\ existing \in SUBSET Slot /\ desired \in SUBSET Slot
      /\ existing \subseteq CardSlots(d) /\ desired \subseteq CardSlots(d)
      /\ \A r \in CardSlots(d) : r \in existing <=> Listed(r)
  BY DEF CardSlots
<1>2a. PICK carry, st : EntriesWritten(d, remote, carry, st)
  BY EntriesMade
<1>2. /\ carry \in Carries(existing \ desired, desired \ existing) /\ st \in Snapshot
     /\ LET keepers(r) == {t \in desired : Origin(carry, t) = r /\ ~Shelved(carry, t)}
            kept(r) == IF keepers(r) = {} THEN 0
                       ELSE wanted(CHOOSE t \in keepers(r) : TRUE).quantity
        IN  /\ Sound(st) /\ SameHomes(tables, st)
            /\ \A r \in Slot : Physical(st.allocations, r) <= Physical(allocations, r)
            /\ \A r \in existing :
                 Physical(st.allocations, r) + Freed(r, kept(r)) <= Physical(allocations, r)
            /\ items' = st.items
            /\ allocations' = [t \in Slot |->
                 IF t \in desired THEN st.allocations[Origin(carry, t)]
                 ELSE IF t \in existing THEN [i \in ItemId |-> NoRow]
                 ELSE st.allocations[t]]
            /\ \E preferred \in [desired -> Printing \cup {NoPrinting}] :
                 cards' = [t \in Slot |->
                   IF t \in desired
                   THEN [quantity |-> wanted(t).quantity,
                         proxies |-> IF Shelved(carry, t) THEN 0
                                     ELSE ProxiesAt(Origin(carry, t), wanted(t).quantity),
                         preferred |-> preferred[t]]
                   ELSE IF t \in existing THEN NoCard ELSE cards[t]]
  BY <1>2a DEF EntriesWritten
<1> DEFINE keepers(r) == {t \in desired : Origin(carry, t) = r /\ ~Shelved(carry, t)}
           kept(r) == IF keepers(r) = {} THEN 0
                      ELSE wanted(CHOOSE t \in keepers(r) : TRUE).quantity
<1>3. /\ DOMAIN carry \subseteq desired \ existing
      /\ \A t \in DOMAIN carry : carry[t] \in existing \ desired
      /\ \A t, u \in DOMAIN carry : carry[t] = carry[u] => t = u
  <2> HIDE DEF existing, desired
  <2> QED BY <1>2, CarriesFacts
<1> HIDE DEF wanted, existing, desired
<1>4. \A r \in Slot : /\ Physical(st.allocations, r) \in Nat /\ Physical(allocations, r) \in Nat
                      /\ cards[r].quantity \in Nat /\ cards[r].proxies \in Nat
  BY <1>0, TotalType, CardFields DEF Physical
<1>5. st.allocations \in [Slot -> [ItemId -> Row]]
  BY <1>2, SoundParts
<1>6. ASSUME NEW r \in Slot, Physical(st.allocations, r) = 0, NEW i \in ItemId
      PROVE  st.allocations[r][i].quantity = 0
  BY <1>5, <1>6, PhysicalZero DEF Empty
(* A row that is lost holds nothing by then.                                *)
<1>7. ASSUME NEW r \in existing, r \notin desired, \A t \in DOMAIN carry : carry[t] # r
      PROVE  Physical(st.allocations, r) = 0
  <2>1. keepers(r) = {}
    BY <1>7 DEF Origin
  <2>2. kept(r) = 0
    BY <2>1
  <2>3. Physical(st.allocations, r) + Freed(r, kept(r)) <= Physical(allocations, r)
    BY <1>2
  <2> HIDE DEF keepers, kept
  <2>4. r \in Slot /\ cards[r].quantity > 0
    BY <1>1 DEF Listed
  <2>5. Freed(r, 0) = Physical(allocations, r)
    BY <1>4, <2>4 DEF Freed, Monus
  <2> QED BY <1>4, <2>2, <2>3, <2>4, <2>5
<1>8. ASSUME NEW r \in desired, r \notin existing
      PROVE  Physical(st.allocations, r) = 0
  <2>1. r \in Slot /\ ~(cards[r].quantity > 0)
    BY <1>1, <1>8 DEF Listed
  <2>2. Physical(allocations, r) + cards[r].proxies <= cards[r].quantity
    BY <1>0, <2>1 DEF NotOverfilled
  <2>3. Physical(st.allocations, r) <= Physical(allocations, r)
    BY <1>2, <2>1
  <2> QED BY <1>4, <2>1, <2>2, <2>3
<1>9. ASSUME NEW o \in Slot, NEW i \in ItemId, st.allocations[o][i].quantity > 0
      PROVE  \E s \in Slot : allocations'[s][i] = st.allocations[o][i]
  <2>0. Physical(st.allocations, o) # 0
    BY <1>6, <1>9
  <2>1. CASE o \in desired
    <3>1. o \in existing
      BY <1>8, <2>0, <2>1
    <3>2. Origin(carry, o) = o
      BY <1>3, <3>1 DEF Origin
    <3> QED BY <1>2, <2>1, <3>2
  <2>2. CASE o \notin desired /\ o \in existing
    <3>1. PICK t \in DOMAIN carry : carry[t] = o
      BY <1>7, <2>0, <2>2
    <3>2. t \in desired /\ t \in Slot /\ Origin(carry, t) = o
      BY <1>1, <1>3, <3>1 DEF Origin
    <3> QED BY <1>2, <3>2
  <2>3. CASE o \notin desired /\ o \notin existing
    BY <1>2, <2>3
  <2> QED BY <2>1, <2>2, <2>3
<1>10. ASSUME NEW s \in Slot, NEW i \in ItemId, allocations'[s][i].quantity > 0
       PROVE  \E o \in Slot : allocations'[s][i] = st.allocations[o][i]
  <2>1. CASE s \in desired
    <3>1. Origin(carry, s) \in Slot
      BY <1>1, <1>3 DEF Origin
    <3> QED BY <1>2, <2>1, <3>1
  <2>2. CASE s \notin desired /\ s \in existing
    <3>1. allocations'[s][i] = NoRow
      BY <1>2, <2>2
    <3> QED BY <1>10, <3>1 DEF NoRow
  <2>3. CASE s \notin desired /\ s \notin existing
    BY <1>2, <2>3
  <2> QED BY <2>1, <2>2, <2>3
<1>11. allocations' \in [Slot -> [ItemId -> Row]]
  BY SoundParts DEF Inv, tables
<1>12. tables' = [items |-> st.items, allocations |-> allocations']
  BY <1>2 DEF tables
<1>13. Sound(st) /\ SameHomes(tables, st)
  BY <1>2
<1>14. SameHomes(st, [items |-> st.items, allocations |-> allocations'])
  <2> DEFINE held == allocations'
  <2>1. /\ \A s \in Slot, i \in ItemId : held[s][i].quantity > 0 =>
             \E o \in Slot : held[s][i] = st.allocations[o][i]
        /\ \A o \in Slot, i \in ItemId : st.allocations[o][i].quantity > 0 =>
             \E s \in Slot : held[s][i] = st.allocations[o][i]
        /\ held \in [Slot -> [ItemId -> Row]]
    BY <1>9, <1>10, <1>11
  <2> HIDE DEF held
  <2>2. SameHomes(st, [items |-> st.items, allocations |-> held])
    BY <1>13, <2>1, RekeyedHomes
  <2> QED BY <2>2 DEF held
<1> QED BY <1>12, <1>13, <1>14, SameHomesTransitive

(* The remote list overfills no deck card.                                  *)
LEMMA WriteEntriesFits ==
  ASSUME FitInv, Inv', NEW d \in Deck, NEW remote \in RemoteLists, WriteEntries(d, remote)
  PROVE  Fits(allocations, cards)'
<1>1. ASSUME NEW s \in Slot
      PROVE  Physical(allocations', s) + cards'[s].proxies <= cards'[s].quantity
  <2>0. Physical(allocations', s) \in Nat
    BY TotalType DEF Physical
  <2>1. CASE \E r \in Slot :
               /\ cards'[s].quantity \in Nat
               /\ cards'[s].proxies = ProxiesAt(r, cards'[s].quantity)
               /\ Physical(allocations', s) <= Physical(allocations, r)
               /\ cards'[s].quantity < cards[r].quantity =>
                    Physical(allocations', s) <= cards'[s].quantity
    BY <2>0, <2>1, ProxiesFit
  <2>2. CASE cards'[s] = cards[s] /\ Physical(allocations', s) <= Physical(allocations, s)
    BY <2>0, <2>2, FitParts
  <2>3. CASE cards'[s] = NoCard /\ Physical(allocations', s) = 0
    BY <2>3 DEF NoCard
  <2>4. CASE /\ cards'[s].quantity \in Nat /\ cards'[s].proxies = 0
             /\ Physical(allocations', s) = 0
    BY <2>4
  <2>5. Inv
    BY DEF FitInv
  <2> QED BY <2>1, <2>2, <2>3, <2>4, <2>5, EntriesFacts
<1> QED BY <1>1 DEF Fits, Physical, HeldBy, Total, Units

LEMMA InitFits == Init => FitInv
<1> SUFFICES ASSUME Init PROVE Fits(allocations, cards)
  BY InitInv DEF FitInv
<1>1. allocations \in [Slot -> [ItemId -> Row]]
  BY InitInv, InvParts
<1>2. ASSUME NEW s \in Slot
      PROVE  Physical(allocations, s) = 0 /\ cards[s] = NoCard
  <2>1. Empty(allocations, s) /\ cards[s] = NoCard
    BY DEF Init, TablesInit, Empty, NoRow
  <2> QED BY <1>1, <2>1, PhysicalZero
<1> QED BY <1>2 DEF Fits, NoCard

LEMMA NextFits == ASSUME ~CardEdits PROVE FitInv /\ [Next]_vars => FitInv'
<1> SUFFICES ASSUME FitInv, [Next]_vars
             PROVE  Fits(allocations, cards)'
  BY NextInv DEF FitInv
<1>0. Inv'
  BY NextInv DEF FitInv
<1>1. CASE AllocationNext
  BY <1>1, AllocationFits
<1>2. CASE DeckCardsNext
  BY <1>2, DeckCardsFits
<1>3. CASE CollectionNext
  BY <1>0, <1>3, CollectionFits
<1>4. CASE \E d \in Deck, remote \in RemoteLists : ApplyLink(d, remote) \/ ApplySync(d, remote)
  BY <1>0, <1>4, WriteEntriesFits DEF ApplyLink, ApplySync
<1>5. CASE UNCHANGED <<allocations, cards>>
  BY <1>5 DEF FitInv, Fits, Physical, HeldBy, Total, Units
<1> QED BY <1>1, <1>2, <1>3, <1>4, <1>5
        DEF Next, ExternalNext, BeginLink, BeginSync, FetchFails, Unlink, vars

(* A deck card never holds more copies and proxies than it asks for:        *)
(* through allocations, releases, quantity edits, merges of rows, printing  *)
(* switches and remote lists (release.rs trim_deck_card_allocations,        *)
(* cards.rs update_in and move_to_zone, external.rs write_entries).           *)
THEOREM NeverOverfilled == ASSUME ~CardEdits PROVE Spec => []NotOverfilled
<1>1. FitInv /\ [Next]_vars => FitInv'
  BY NextFits
<1>2. FitInv => NotOverfilled
  BY DEF FitInv, Fits, NotOverfilled
<1> QED BY <1>1, <1>2, InitFits, PTL DEF Spec

-----------------------------------------------------------------------------
LEMMA NextHomes ==
  ASSUME ~CardEdits PROVE FitInv /\ [Next]_vars => Homes' = Homes \/ CollectionNext
<1> SUFFICES ASSUME FitInv, [Next]_vars, ~CollectionNext
             PROVE  Homes' = Homes
  OBVIOUS
<1>0. Inv /\ Inv'
  BY NextInv DEF FitInv
<1>1. CASE AllocationNext
  BY <1>0, <1>1, AllocationKeeps, HomesStay
<1>2. CASE DeckCardsNext
  BY <1>0, <1>2, DeckCardsKeeps, HomesStay
<1>3. CASE \E d \in Deck, remote \in RemoteLists : ApplyLink(d, remote) \/ ApplySync(d, remote)
  <2>1. SameHomes(tables, tables')
    BY <1>0, <1>3, WriteEntriesHomes DEF ApplyLink, ApplySync
  <2> QED BY <1>0, <2>1, HomesStay
<1>4. CASE UNCHANGED <<items, allocations>>
  <2>1. SameHomes(tables, tables')
    BY <1>4, SameHomesReflexive DEF tables
  <2> QED BY <1>0, <2>1, HomesStay
<1> QED BY <1>1, <1>2, <1>3, <1>4
        DEF Next, ExternalNext, BeginLink, BeginSync, FetchFails, Unlink, vars

(* No copy is created, lost or filed elsewhere by anything but an edit of   *)
(* the collection: however many allocations, releases, trims, exchanges,    *)
(* merges of rows and remote lists it goes through, a copy belongs where    *)
(* the user filed it (items.rs move_copies, release.rs, allocate.rs,        *)
(* cards.rs:670-674 move_to_zone, external.rs write_entries).               *)
THEOREM CopiesKeepTheirHomes == ASSUME ~CardEdits PROVE Spec => HomesKept
<1>1. FitInv /\ [Next]_vars => FitInv'
  BY NextFits
<1>2. FitInv /\ [Next]_vars => [Homes' = Homes \/ CollectionNext]_tables
  BY NextHomes
<1> QED BY <1>1, <1>2, InitFits, PTL DEF Spec, HomesKept

-----------------------------------------------------------------------------
LEMMA InitIdle == Init => IdeaInv
<1> SUFFICES ASSUME Init PROVE IdleEmpty(allocations, cards)
  BY InitInv DEF IdeaInv
<1> QED BY DEF Init, TablesInit, IdleEmpty, Empty, NoRow, NoCard

LEMMA NextIdle == ASSUME ~CardEdits PROVE IdeaInv /\ [Next]_vars => IdeaInv'
<1> SUFFICES ASSUME IdeaInv, [Next]_vars
             PROVE  IdleEmpty(allocations, cards)'
  BY NextInv DEF IdeaInv
<1>0. Inv'
  BY NextInv DEF IdeaInv
<1>1. CASE AllocationNext
  BY <1>1, AllocationIdle
<1>2. CASE DeckCardsNext
  BY <1>2, DeckCardsIdle
<1>3. CASE CollectionNext
  BY <1>3, CollectionIdle
<1>4. CASE \E d \in Deck, remote \in RemoteLists : ApplyLink(d, remote) \/ ApplySync(d, remote)
  BY <1>0, <1>4, WriteEntriesIdle DEF ApplyLink, ApplySync
<1>5. CASE UNCHANGED <<allocations, cards>>
  BY <1>5 DEF IdeaInv, IdleEmpty, Idle, Basic, Empty
<1> QED BY <1>1, <1>2, <1>3, <1>4, <1>5
        DEF Next, ExternalNext, BeginLink, BeginSync, FetchFails, Unlink, vars

(* Row by row instead of by totals.                                         *)
LEMMA IdeasFollow == IdeaInv => IdeasHoldNothing
<1> SUFFICES ASSUME IdeaInv, NEW s \in Slot, Idle(s)
             PROVE  Physical(allocations, s) + cards[s].proxies = 0
  BY DEF IdeasHoldNothing, Idle
<1> QED BY IdleParts

(* A card that is only an idea and a basic land never hold copies or        *)
(* proxies: through moves between zones, merges, printing switches and      *)
(* remote lists that shelve a card (cards.rs update_in, external.rs         *)
(* write_entries, model.rs allocatable).                                    *)
THEOREM IdeasNeverHold == ASSUME ~CardEdits PROVE Spec => []IdeasHoldNothing
<1>1. IdeaInv /\ [Next]_vars => IdeaInv'
  BY NextIdle
<1> QED BY <1>1, InitIdle, IdeasFollow, PTL DEF Spec

-----------------------------------------------------------------------------
(* Archived decks.  No action but the sync of a remote list changes a card  *)
(* of a deck that is and stays archived, or gives it a copy.                *)
NoGain(new, old, s) == \A i \in ItemId : new[s][i].quantity <= old[s][i].quantity

(* What only takes copies away: releases, clearing, trims.                  *)
LEMMA ReleaseNoGain ==
  ASSUME NEW st, Sound(st), NEW S, NEW give \in [ItemId -> 0 .. MaxCopies],
         NEW new \in Release(st, S, give), NEW s \in Slot
  PROVE  NoGain(new.allocations, st.allocations, s)
<1>1. \A i \in ItemId : st.allocations[s][i].quantity \in Nat /\ give[i] \in Nat
  BY SoundParts, TablesAssumption DEF TablesAssumption
<1>2. give \in Amount
  BY DEF Amount
<1> QED BY <1>1, <1>2, ReleaseHeld DEF NoGain, Monus

LEMMA ClearNoGain ==
  ASSUME NEW st, Sound(st), NEW S \in SUBSET Slot, NEW new \in Clear(st, S), NEW s \in Slot
  PROVE  NoGain(new.allocations, st.allocations, s)
<1> DEFINE give == [i \in ItemId |-> HeldIn(st.allocations, S, i)]
<1>1. new \in Release(st, S, give)
  BY DEF Clear
<1>2. ASSUME NEW i \in ItemId PROVE give[i] \in 0 .. MaxCopies
  <2>1. \/ give[i] = 0
        \/ \E r \in S : give[i] = st.allocations[r][i].quantity
    BY DEF HeldIn, HolderIn
  <2> QED BY <2>1, SoundParts, TablesAssumption DEF TablesAssumption
<1>3. give \in [ItemId -> 0 .. MaxCopies]
  BY <1>2
<1> HIDE DEF give
<1> QED BY <1>1, <1>3, ReleaseNoGain

LEMMA TrimmedNoGain ==
  ASSUME NEW st, Sound(st), NEW s, NEW t \in Slot, NEW quantity,
         NEW new \in Trimmed(st, s, t, quantity), NEW r \in Slot
  PROVE  NoGain(new.allocations, st.allocations, r)
<1>1. CASE new = st
  <2>1. \A i \in ItemId : st.allocations[r][i].quantity \in Nat
    BY SoundParts
  <2> QED BY <1>1, <2>1 DEF NoGain
<1>2. CASE new \in Trim(st, t, quantity)
  <2>1. PICK give \in [ItemId -> 0 .. MaxCopies] : new \in Release(st, {t}, give)
    BY <1>2 DEF Trim
  <2> QED BY <2>1, ReleaseNoGain
<1> QED BY <1>1, <1>2 DEF Trimmed

(* A reservation leaves the deck cards it does not name as they are.        *)
LEMMA ReserveOthers ==
  ASSUME NEW st, NEW to, NEW take, NEW new \in Reserve(st, to, take), NEW s \in Slot,
         \A i \in Moved(take) : to[i] # s, NEW i \in ItemId
  PROVE  new.allocations[s][i] = st.allocations[s][i]
<1> DEFINE nowhere == [j \in Moved(take) |-> Unfiled]
<1>1. PICK at \in Destinations(st.items, take) :
        new = [items |-> MovedItems(st.items, take, nowhere, at),
               allocations |-> [r \in Slot |-> [j \in ItemId |->
                 IF \E k \in Moved(take) : at[k] = j /\ to[k] = r
                 THEN LET k == CHOOSE k \in Moved(take) : at[k] = j
                      IN  Grown(st.allocations[r][j], take[k], st.items[k].filed)
                 ELSE st.allocations[r][j]]]]
  BY DEF Reserve
<1> HIDE DEF nowhere
<1> QED BY <1>1

(* An exchange is the business of one deck card.                            *)
LEMMA SwitchNoGain ==
  ASSUME NEW st, Sound(st), NEW lists, NEW t \in Slot, NEW printing, NEW room,
         NEW new \in Switch(st, lists, t, printing, room), NEW s \in Slot, s # t
  PROVE  NoGain(new.allocations, st.allocations, s)
<1> DEFINE needed == Less(Physical(st.allocations, t), room)
           to == [j \in ItemId |-> t]
<1>1. PICK cleared \in Clear(st, {t}) : new \in ReservePreferred(cleared, lists, t, printing, needed)
  BY DEF Switch
<1> HIDE DEF needed
<1>2. PICK take \in [ItemId -> 0 .. MaxCopies] : new \in Reserve(cleared, to, take)
  BY <1>1 DEF ReservePreferred
<1>3. \A i \in Moved(take) : to[i] # s
  BY DEF Moved
<1> HIDE DEF to
<1>4. \A i \in ItemId : new.allocations[s][i] = cleared.allocations[s][i]
  BY <1>2, <1>3, ReserveOthers
<1>5. NoGain(cleared.allocations, st.allocations, s)
  BY <1>1, ClearNoGain
<1> QED BY <1>4, <1>5 DEF NoGain

(* Rows of other decks that change their key.                               *)
LEMMA MovedOthers ==
  ASSUME NEW cs, NEW allocs, NEW from \in SUBSET Slot, NEW z, NEW s \in Slot,
         \A r \in from : DeckOf(r) # DeckOf(s)
  PROVE  /\ MovedCards(cs, from, z)[s] = cs[s]
         /\ MovedAllocations(allocs, from, z)[s] = allocs[s]
<1>1. s \notin from /\ Incoming(from, z, s) = {}
  BY DEF Incoming, In, DeckOf
<1> QED BY <1>1 DEF MovedCards, MovedAllocations

-----------------------------------------------------------------------------
StaysAsItIs(s) == cards'[s] = cards[s] /\ NoGain(allocations', allocations, s)

(* A row that is left alone gains nothing.                                  *)
LEMMA SameRows ==
  ASSUME Inv, NEW s \in Slot, \A i \in ItemId : allocations'[s][i] = allocations[s][i]
  PROVE  NoGain(allocations', allocations, s)
<1>1. \A i \in ItemId : allocations[s][i].quantity \in Nat
  BY InvParts, TablesAssumption DEF TablesAssumption, Row
<1> QED BY <1>1 DEF NoGain

LEMMA AllocationFreezes ==
  ASSUME Inv, AllocationNext, NEW s \in Slot, status[DeckOf(s)] = "archived"
  PROVE  StaysAsItIs(s)
<1>0. Sound(tables) /\ tables.allocations = allocations /\ DOMAIN cards = Slot
  BY InvParts DEF Inv, tables
<1>1. ASSUME NEW t \in Slot, NEW i \in ItemId, NEW q \in 1 .. MaxCopies, Allocate(t, i, q)
      PROVE  StaysAsItIs(s)
  <2> DEFINE to == [j \in ItemId |-> t]
  <2>1. t # s
    BY <1>1 DEF Allocate, Allocatable, Editable
  <2>2. PICK st \in Reserve(tables, to, Only(i, q)) : Write(st)
    BY <1>1 DEF Allocate
  <2>3. \A j \in Moved(Only(i, q)) : to[j] # s
    BY <2>1 DEF Moved
  <2> HIDE DEF to
  <2>4. \A j \in ItemId : st.allocations[s][j] = allocations[s][j]
    BY <1>0, <2>2, <2>3, ReserveOthers
  <2>5. cards'[s] = cards[s]
    BY <1>1, <2>1 DEF Allocate
  <2> QED BY <2>2, <2>4, <2>5, SameRows DEF Write, StaysAsItIs
<1>2. ASSUME NEW t \in Slot, NEW i \in ItemId, NEW q \in 1 .. MaxCopies, Deallocate(t, i, q)
      PROVE  StaysAsItIs(s)
  <2> DEFINE n == Less(q, allocations[t][i].quantity)
  <2>1. PICK st \in Release(tables, {t}, Only(i, n)) : Write(st)
    BY <1>2 DEF Deallocate
  <2>2. n \in 0 .. MaxCopies
    BY InvParts, TablesAssumption DEF TablesAssumption, Row, Less
  <2> HIDE DEF n
  <2>3. Only(i, n) \in [ItemId -> 0 .. MaxCopies]
    BY <2>2, TablesAssumption DEF TablesAssumption, Only
  <2>4. NoGain(st.allocations, allocations, s)
    BY <1>0, <2>1, <2>3, ReleaseNoGain
  <2> QED BY <1>2, <2>1, <2>4 DEF Deallocate, Write, StaysAsItIs
<1>3. ASSUME NEW t \in Slot, NEW q \in 1 .. MaxQuantity,
             AllocateProxy(t, q) \/ DeallocateProxy(t, q)
      PROVE  StaysAsItIs(s)
  <2>1. t # s /\ allocations' = allocations
    BY <1>3 DEF AllocateProxy, DeallocateProxy, Allocatable, Editable
  <2>2. cards'[s] = cards[s]
    BY <1>0, <1>3, <2>1 DEF AllocateProxy, DeallocateProxy
  <2> QED BY <2>1, <2>2, SameRows DEF StaysAsItIs
<1>4. ASSUME NEW S \in SUBSET {t \in Slot : Listed(t)}, BulkDeallocate(S)
      PROVE  StaysAsItIs(s)
  <2>1. S \in SUBSET Slot /\ s \notin S
    BY <1>4 DEF BulkDeallocate, Editable
  <2>2. PICK st \in Clear(tables, S) : Write(st)
    BY <1>4 DEF BulkDeallocate
  <2>3. cards'[s] = cards[s]
    BY <1>4, <2>1 DEF BulkDeallocate
  <2> QED BY <1>0, <2>1, <2>2, <2>3, ClearNoGain DEF Write, StaysAsItIs
<1>5. ASSUME NEW d \in Deck, Disassemble(d)
      PROVE  StaysAsItIs(s)
  <2>1. PICK st \in Clear(tables, CardSlots(d)) : Write(st)
    BY <1>5 DEF Disassemble
  <2>2. CardSlots(d) \in SUBSET Slot /\ cards' = cards
    BY <1>5 DEF CardSlots, Disassemble
  <2> QED BY <1>0, <2>1, <2>2, ClearNoGain DEF Write, StaysAsItIs
<1>6. ASSUME NEW d \in Deck, NEW z \in Zone,
             NEW I \in SUBSET {i \in ItemId : items[i].copies > 0}, AddCollectionItems(d, I, z)
      PROVE  StaysAsItIs(s)
  <2> DEFINE slotOf == [i \in I |-> Key(d, CardOf[items[i].printed], z)]
             group(t) == {i \in I : slotOf[i] = t}
             reserved == {i \in I : z # "considering" /\ ~Basic(slotOf[i])}
             take == [i \in ItemId |-> IF i \in reserved THEN 1 ELSE 0]
             grown(first) == [t \in Slot |->
               IF t \in DOMAIN first
               THEN [quantity |-> cards[t].quantity + Cardinality(group(t)),
                     proxies |-> cards[t].proxies,
                     preferred |-> items[first[t]].printed]
               ELSE cards[t]]
  <2>1. \A i \in I : slotOf[i] # s
    BY <1>6 DEF AddCollectionItems, ListEditable, Editable, Key, DeckOf
  <2>2. PICK st \in Reserve(tables, slotOf, take) : Write(st)
    BY <1>6 DEF AddCollectionItems
  <2>3. PICK first \in [{slotOf[i] : i \in I} -> I] : cards' = grown(first)
    BY <1>6 DEF AddCollectionItems
  <2>4. s \notin DOMAIN first
    BY <2>1
  <2>5. cards'[s] = cards[s]
    <3>1. ASSUME NEW f, s \notin DOMAIN f PROVE grown(f)[s] = cards[s]
      BY <3>1
    <3> HIDE DEF grown
    <3> QED BY <2>3, <2>4, <3>1
  <2>6. Moved(take) \subseteq I
    BY DEF Moved
  <2> HIDE DEF slotOf, take
  <2>7. \A j \in ItemId : st.allocations[s][j] = allocations[s][j]
    BY <1>0, <2>1, <2>2, <2>6, ReserveOthers
  <2> QED BY <2>2, <2>5, <2>7, SameRows DEF Write, StaysAsItIs
<1> QED BY <1>1, <1>2, <1>3, <1>4, <1>5, <1>6 DEF AllocationNext

LEMMA DeckCardsFreeze ==
  ASSUME Inv, DeckCardsNext, NEW s \in Slot,
         status[DeckOf(s)] = "archived", status'[DeckOf(s)] = "archived"
  PROVE  StaysAsItIs(s)
<1>0. Sound(tables) /\ tables.allocations = allocations /\ DOMAIN cards = Slot
  BY InvParts DEF Inv, tables
<1>1. ASSUME NEW t \in Slot, NEW total \in 1 .. MaxQuantity, NEW p \in Printing \cup {NoPrinting},
             AddCard(t, total, p)
      PROVE  StaysAsItIs(s)
  <2>1. PICK st \in Trimmed(tables, t, t, total) : Write(st)
    BY <1>1 DEF AddCard
  <2>2. t # s
    BY <1>1 DEF AddCard, ListEditable, Editable
  <2>3. cards'[s] = cards[s]
    BY <1>1, <2>2 DEF AddCard
  <2> QED BY <1>0, <2>1, <2>3, TrimmedNoGain DEF Write, StaysAsItIs
<1>2. ASSUME NEW t \in Slot, NEW q \in 1 .. MaxQuantity, NEW p \in Printing \cup {NoPrinting},
             ShelveCard(t, q, p)
      PROVE  StaysAsItIs(s)
  <2> DEFINE u == In(t, "considering")
  <2>1. PICK st \in Clear(tables, {t}) : Write(st)
    BY <1>2 DEF ShelveCard
  <2>2. t # s /\ u # s
    BY <1>2 DEF ShelveCard, ListEditable, Editable, In, DeckOf
  <2>3. cards'[s] = cards[s]
    BY <1>0, <1>2, <2>2 DEF ShelveCard
  <2> QED BY <1>0, <2>1, <2>3, ClearNoGain DEF Write, StaysAsItIs
<1>3. ASSUME NEW t \in Slot, NEW q \in 1 .. MaxQuantity, NEW z \in Zone,
             NEW p \in Printing \cup {NoPrinting}, UpdateCard(t, q, z, p)
      PROVE  StaysAsItIs(s)
  <2> DEFINE u == In(t, z)
             from == {t} \ {u}
             keyed == [tables EXCEPT !.allocations = MovedAllocations(@, from, z)]
             room == IF Basic(t) THEN 0 ELSE Monus(q, ProxiesAt(t, q))
             row == [quantity |-> q, proxies |-> ProxiesAt(t, q), preferred |-> p]
             Exchanged(old) ==
               IF p = cards[t].preferred THEN {old}
               ELSE IF z = "considering" /\ Physical(old.allocations, u) > 0 THEN {}
               ELSE Switch(old, Lists, u, p, room)
  <2>1. PICK trimmed \in Trimmed(keyed, t, u, q) : \E st \in Exchanged(trimmed) : Write(st)
    BY <1>3 DEF UpdateCard
  <2>2. PICK st \in Exchanged(trimmed) : Write(st)
    BY <2>1
  <2>3. /\ u \in Slot /\ from \in SUBSET Slot /\ Distinct(from, z)
        /\ u # s /\ \A r \in from : DeckOf(r) # DeckOf(s)
    <3>1. DeckOf(t) # DeckOf(s)
      BY <1>3 DEF UpdateCard, ListEditable, Editable
    <3>2. DeckOf(u) = DeckOf(t)
      BY DEF In, DeckOf
    <3>3. u \in Slot /\ from \in SUBSET Slot /\ Distinct(from, z)
      BY InSlot, DistinctOne
    <3>4. \A r \in from : r = t
      OBVIOUS
    <3> HIDE DEF u, from
    <3> QED BY <3>1, <3>2, <3>3, <3>4
  <2>4. keyed = [items |-> tables.items,
                 allocations |-> MovedAllocations(tables.allocations, from, z)]
    <3>1. tables = [items |-> items, allocations |-> allocations]
      BY DEF tables
    <3> QED BY <3>1
  <2>5. cards' = [MovedCards(cards, from, z) EXCEPT ![u] = row]
    BY <1>3 DEF UpdateCard
  <2>6. st = trimmed \/ st \in Switch(trimmed, Lists, u, p, room)
    OBVIOUS
  <2> HIDE DEF u, from, Exchanged, room, row
  <2>7. /\ MovedCards(cards, from, z)[s] = cards[s]
        /\ MovedAllocations(tables.allocations, from, z)[s] = tables.allocations[s]
    BY <2>3, MovedOthers
  <2>8. cards'[s] = cards[s]
    <3>1. MovedCards(cards, from, z) = [v \in Slot |-> MovedCards(cards, from, z)[v]]
      BY DEF MovedCards
    <3> QED BY <2>3, <2>5, <2>7, <3>1
  <2>9. Sound(keyed) /\ keyed.allocations[s] = allocations[s]
    <3>1. keyed.allocations[s] = allocations[s]
      BY <1>0, <2>4, <2>7
    <3> HIDE DEF keyed
    <3> QED BY <1>0, <2>3, <2>4, <3>1, MovedAllocationsSound
  <2> HIDE DEF keyed
  <2>10. Sound(trimmed)
    BY <2>1, <2>3, <2>9, TrimmedSound
  <2>11. NoGain(trimmed.allocations, allocations, s)
    <3>1. NoGain(trimmed.allocations, keyed.allocations, s)
      BY <2>1, <2>3, <2>9, TrimmedNoGain
    <3> QED BY <2>9, <3>1 DEF NoGain
  <2>12. NoGain(st.allocations, allocations, s)
    <3>1. CASE st = trimmed
      BY <2>11, <3>1
    <3>2. CASE st \in Switch(trimmed, Lists, u, p, room)
      <4>1. NoGain(st.allocations, trimmed.allocations, s) /\ Sound(st)
        <5>1. Sound(st)
          BY <2>3, <2>10, <3>2, SwitchSound
        <5> QED BY <2>3, <2>10, <3>2, <5>1, SwitchNoGain
      <4>2. \A i \in ItemId : /\ st.allocations[s][i].quantity \in Nat
                              /\ trimmed.allocations[s][i].quantity \in Nat
                              /\ allocations[s][i].quantity \in Nat
        BY <1>0, <2>10, <4>1, SoundParts
      <4> QED BY <2>11, <4>1, <4>2 DEF NoGain
    <3> QED BY <2>6, <3>1, <3>2
  <2> QED BY <2>2, <2>8, <2>12 DEF Write, StaysAsItIs
<1>4. ASSUME NEW S \in SUBSET {t \in Slot : Listed(t)},
             \/ DeleteCards(S)
             \/ \E cheapest \in [S -> Printing] : OptimizePrintings(S, cheapest)
      PROVE  StaysAsItIs(s)
  <2>1. S \in SUBSET Slot /\ s \notin S
    BY <1>4 DEF DeleteCards, OptimizePrintings, ListEditable, Editable
  <2>2. PICK st \in Clear(tables, S) : Write(st)
    BY <1>4 DEF DeleteCards, OptimizePrintings
  <2>3. cards'[s] = cards[s]
    BY <1>4, <2>1 DEF DeleteCards, OptimizePrintings
  <2> QED BY <1>0, <2>1, <2>2, <2>3, ClearNoGain DEF Write, StaysAsItIs
<1>5. ASSUME NEW t \in Slot, SetCommander(t)
      PROVE  StaysAsItIs(s)
  <2> DEFINE others == {r \in CardSlots(DeckOf(t)) : ZoneOf(r) = "commander" /\ Listed(r)} \ {t}
             self == {t} \ {In(t, "commander")}
             stepped == MovedCards(cards, others, "mainboard")
             down == MovedAllocations(allocations, others, "mainboard")
  <2>1. DeckOf(t) # DeckOf(s)
    BY <1>5 DEF SetCommander, ListEditable, Editable
  <2>2. /\ others \in SUBSET Slot /\ \A r \in others : DeckOf(r) # DeckOf(s)
        /\ self \in SUBSET Slot /\ \A r \in self : DeckOf(r) # DeckOf(s)
    BY <2>1 DEF CardSlots
  <2>3. /\ cards' = MovedCards(stepped, self, "commander")
        /\ allocations' = MovedAllocations(down, self, "commander")
    BY <1>5 DEF SetCommander
  <2> HIDE DEF others, self
  <2>4. stepped[s] = cards[s] /\ down[s] = allocations[s]
    BY <2>2, MovedOthers
  <2> HIDE DEF stepped, down
  <2>5. /\ MovedCards(stepped, self, "commander")[s] = stepped[s]
        /\ MovedAllocations(down, self, "commander")[s] = down[s]
    BY <2>2, MovedOthers
  <2> QED BY <2>3, <2>4, <2>5, SameRows DEF StaysAsItIs
<1>6. ASSUME NEW t \in Slot, AddPartner(t)
      PROVE  StaysAsItIs(s)
  <2>1. \A r \in {t} : DeckOf(r) # DeckOf(s)
    BY <1>6 DEF AddPartner, ListEditable, Editable
  <2>2. /\ cards' = MovedCards(cards, {t}, "commander")
        /\ allocations' = MovedAllocations(allocations, {t}, "commander")
    BY <1>6 DEF AddPartner
  <2>3. /\ MovedCards(cards, {t}, "commander")[s] = cards[s]
        /\ MovedAllocations(allocations, {t}, "commander")[s] = allocations[s]
    BY <2>1, MovedOthers, {t} \in SUBSET Slot
  <2> QED BY <2>2, <2>3, SameRows DEF StaysAsItIs
<1>7. ASSUME NEW d \in Deck, NEW new \in {"active", "archived"},
             CreateDeck(d, new) \/ SetStatus(d, new)
      PROVE  StaysAsItIs(s)
  BY <1>7, SameRows DEF CreateDeck, SetStatus, StaysAsItIs
<1>8. ASSUME NEW d \in Deck, DeleteDeck(d)
      PROVE  StaysAsItIs(s)
  <2>1. PICK st \in Clear(tables, CardSlots(d)) : Write(st)
    BY <1>8 DEF DeleteDeck
  <2>2. CardSlots(d) \in SUBSET Slot /\ DeckOf(s) # d
    <3>1. DeckOf(s) = d => status'[DeckOf(s)] = "none"
      BY <1>8, InvParts DEF DeleteDeck
    <3> QED BY <3>1 DEF CardSlots
  <2>3. cards'[s] = cards[s]
    BY <1>8, <2>2 DEF DeleteDeck
  <2> QED BY <1>0, <2>1, <2>2, <2>3, ClearNoGain DEF Write, StaysAsItIs
<1> QED BY <1>1, <1>2, <1>3, <1>4, <1>5, <1>6, <1>7, <1>8 DEF DeckCardsNext

LEMMA CollectionFreezes ==
  ASSUME Inv, CollectionNext, NEW s \in Slot
  PROVE  StaysAsItIs(s)
<1>1. \A i \in ItemId : allocations'[s][i].quantity \in {0, allocations[s][i].quantity}
  BY RowsKept
<1>2. \A i \in ItemId : allocations[s][i].quantity \in Nat
  BY InvParts, TablesAssumption DEF TablesAssumption, Row
<1>3. cards' = cards
  BY DEF CollectionNext, CreateItem, UpdateItem, DeleteItems, CreateLocation, SetKind,
         DeleteLocation
<1> QED BY <1>1, <1>2, <1>3 DEF StaysAsItIs, NoGain

(* While a deck stays archived only the sync of its remote list changes     *)
(* what it lists or gives it copies: every operation of cards.rs and        *)
(* allocate.rs asks first whether the deck may be edited (model.rs:34), and *)
(* taking copies away, from disassembling it to deleting an item, gives it  *)
(* none.                                                                    *)
THEOREM ArchivedStayFrozen == ASSUME ~CardEdits PROVE Spec => ArchivedFrozen
<1>1. Inv /\ [Next]_vars =>
        [\/ \A s \in Slot :
              status[DeckOf(s)] = "archived" /\ status'[DeckOf(s)] = "archived" =>
                /\ cards'[s] = cards[s]
                /\ \A i \in ItemId : allocations'[s][i].quantity <= allocations[s][i].quantity
         \/ ExternalNext]_vars
  <2> SUFFICES ASSUME Inv, Next, ~ExternalNext, NEW s \in Slot,
                      status[DeckOf(s)] = "archived", status'[DeckOf(s)] = "archived"
               PROVE  StaysAsItIs(s)
    BY DEF StaysAsItIs, NoGain
  <2> QED BY AllocationFreezes, DeckCardsFreeze, CollectionFreezes DEF Next
<1>2. Inv /\ [Next]_vars => Inv'
  BY NextInv
<1> QED BY <1>1, <1>2, InitInv, PTL DEF Spec, ArchivedFrozen


-----------------------------------------------------------------------------
(* Natural numbers and what is computed along them.  A set of naturals that *)
(* has 0, and with each number the next one, has them all: the least of the *)
(* others, as a set of predecessors, would have no lesser one.              *)
LEMMA AllNaturals ==
  ASSUME NEW S \in SUBSET Nat, 0 \in S, \A n \in S : n + 1 \in S
  PROVE  S = Nat
<1> DEFINE below(n) == 0 .. (n - 1)
           U == {below(n) : n \in Nat \ S}
<1> SUFFICES ASSUME Nat \ S # {} PROVE FALSE
  OBVIOUS
<1>1. U \subseteq FiniteSubsetsOf(Nat)
  <2> SUFFICES ASSUME NEW n \in Nat PROVE below(n) \in FiniteSubsetsOf(Nat)
    OBVIOUS
  <2>1. IsFiniteSet(below(n))
    BY FS_Interval
  <2> QED
    BY <2>1 DEF FiniteSubsetsOf
<1>2. U # {}
  OBVIOUS
<1> HIDE DEF U
<1>3. PICK x \in U : \A y \in U : <<y, x>> \notin StrictSubsetOrdering(Nat)
  BY <1>1, <1>2, FS_StrictSubsetOrderingWellFounded, WFMin
<1> USE DEF U
<1>4. PICK n \in Nat \ S : x = below(n)
  OBVIOUS
<1>5. n - 1 \in Nat \ S
  <2>1. n # 0 /\ n - 1 \in Nat /\ (n - 1) + 1 = n
    BY <1>4
  <2> QED
    BY <1>4, <2>1
<1>6. below(n - 1) \in U
  BY <1>5
<1>7. below(n - 1) \subseteq below(n) /\ n - 1 \in below(n) /\ n - 1 \notin below(n - 1)
  BY <1>5
<1>8. <<below(n - 1), below(n)>> \in StrictSubsetOrdering(Nat)
  <2>1. below(n) \subseteq Nat /\ below(n - 1) \subseteq Nat
    OBVIOUS
  <2> HIDE DEF below
  <2> QED
    BY <1>7, <2>1 DEF StrictSubsetOrdering
<1> QED
  BY <1>3, <1>4, <1>6, <1>8

Stepwise(X, x0, L, G) ==
  \E f \in [0 .. L -> X] : f[0] = x0 /\ \A n \in 1 .. L : f[n] = G[n][f[n - 1]]

(* One step after the other can be taken, up to any number of steps.        *)
LEMMA Steps ==
  ASSUME NEW X, NEW x0, NEW L, NEW G, x0 \in X, L \in Nat, G \in [1 .. L -> [X -> X]]
  PROVE  Stepwise(X, x0, L, G)
<1> USE DEF Stepwise
<1> DEFINE Up(n, f) == f[0] = x0 /\ \A m \in 1 .. n : f[m] = G[m][f[m - 1]]
           S == {n \in Nat : n <= L => \E f \in [0 .. n -> X] : Up(n, f)}
<1>1. 0 \in S
  <2>1. [n \in 0 .. 0 |-> x0] \in [0 .. 0 -> X] /\ Up(0, [n \in 0 .. 0 |-> x0])
    OBVIOUS
  <2> QED
    BY <2>1
<1>2. ASSUME NEW n \in S PROVE n + 1 \in S
  <2> SUFFICES ASSUME n + 1 <= L PROVE \E f \in [0 .. n + 1 -> X] : Up(n + 1, f)
    OBVIOUS
  <2>1. n \in Nat /\ n <= L
    OBVIOUS
  <2>2. PICK f \in [0 .. n -> X] : Up(n, f)
    BY <2>1
  <2> DEFINE g == [m \in 0 .. n + 1 |-> IF m <= n THEN f[m] ELSE G[n + 1][f[n]]]
  <2>3. G[n + 1][f[n]] \in X
    <3>1. n + 1 \in 1 .. L /\ f[n] \in X
      BY <2>1
    <3>2. G[n + 1] \in [X -> X]
      BY <3>1
    <3> QED
      BY <3>1, <3>2
  <2>4. g \in [0 .. n + 1 -> X]
    BY <2>1, <2>3
  <2>5. g[0] = x0
    BY <2>1, <2>2
  <2>6. ASSUME NEW m \in 1 .. n + 1 PROVE g[m] = G[m][g[m - 1]]
    <3>1. CASE m <= n
      <4>1. m \in 1 .. n /\ m - 1 \in 0 .. n + 1 /\ m - 1 <= n /\ m \in 0 .. n + 1
        BY <2>1, <3>1
      <4>2. g[m] = f[m] /\ g[m - 1] = f[m - 1]
        BY <3>1, <4>1
      <4> QED
        BY <2>2, <4>1, <4>2
    <3>2. CASE ~(m <= n)
      <4>1. m = n + 1 /\ m - 1 = n /\ n \in 0 .. n + 1
        BY <2>1, <3>2
      <4>2. g[n] = f[n] /\ g[m] = G[n + 1][f[n]]
        BY <2>1, <4>1
      <4> QED
        BY <4>1, <4>2
    <3> QED
      BY <3>1, <3>2
  <2> HIDE DEF g
  <2> QED
    BY <2>4, <2>5, <2>6
<1>3. S = Nat
  <2> HIDE DEF S
  <2>1. S \subseteq Nat
    BY DEF S
  <2> QED
    BY <1>1, <1>2, <2>1, AllNaturals
<1> QED
  BY <1>3

-----------------------------------------------------------------------------
(* Databases at each stage of a swap.                                       *)
LEMMA SwappedThrough ==
  ASSUME NEW cuts, NEW adds, Len(cuts) \in Nat, Len(adds) \in Nat,
         NEW Stage, database \in Stage[0],
         \A n \in 1 .. Len(cuts) + Len(adds) : \A db \in Stage[n - 1] :
           Applied(db, cuts, adds, n) \subseteq Stage[n]
  PROVE  Swapped(cuts, adds) \subseteq Stage[Len(cuts) + Len(adds)]
<1> DEFINE L == Len(cuts) + Len(adds)
           Next1(g, n) == UNION {Applied(db, cuts, adds, n) : db \in g[n - 1]}
           Body(g) == [n \in 0 .. L |-> IF n = 0 THEN {database} ELSE Next1(g, n)]
           after == CHOOSE g : g = Body(g)
           X == SUBSET UNION {Stage[n] : n \in 0 .. L}
           G == [n \in 1 .. L |->
                  [dbs \in X |-> IF dbs \subseteq Stage[n - 1]
                                 THEN UNION {Applied(db, cuts, adds, n) : db \in dbs} ELSE {}]]
<1>1. Swapped(cuts, adds) = after[L]
  BY DEF Swapped
<1>2. L \in Nat
  OBVIOUS
<1>3. G \in [1 .. L -> [X -> X]]
  <2> SUFFICES ASSUME NEW n \in 1 .. L, NEW dbs \in X, dbs \subseteq Stage[n - 1]
               PROVE  UNION {Applied(db, cuts, adds, n) : db \in dbs} \in X
    OBVIOUS
  <2>1. UNION {Applied(db, cuts, adds, n) : db \in dbs} \subseteq Stage[n] /\ n \in 0 .. L
    OBVIOUS
  <2> QED BY <2>1
<1>4. {database} \in X
  BY <1>2
<1>4a. \A n \in 1 .. L : \A db \in Stage[n - 1] : Applied(db, cuts, adds, n) \subseteq Stage[n]
  OBVIOUS
<1> HIDE DEF L
<1>5. PICK f \in [0 .. L -> X] : f[0] = {database} /\ \A n \in 1 .. L : f[n] = G[n][f[n - 1]]
  <2> HIDE DEF G, X
  <2>1. Stepwise(X, {database}, L, G)
    BY <1>2, <1>3, <1>4, Steps
  <2> QED BY <2>1 DEF Stepwise
<1>6. ASSUME NEW n \in 1 .. L, f[n - 1] \subseteq Stage[n - 1]
      PROVE  f[n] = Next1(f, n) /\ f[n] \subseteq Stage[n]
  <2>1. f[n - 1] \in X
    BY <1>2
  <2>2. f[n] = Next1(f, n)
    BY <1>5, <1>6, <2>1
  <2> QED BY <1>4a, <1>6, <2>2
<1> HIDE DEF G, X, Next1
<1> DEFINE S == {n \in Nat : n <= L => f[n] \subseteq Stage[n]}
<1>7. 0 \in S
  BY <1>5
<1>8. ASSUME NEW n \in S PROVE n + 1 \in S
  <2> SUFFICES ASSUME n + 1 <= L PROVE f[n + 1] \subseteq Stage[n + 1]
    OBVIOUS
  <2>1. n \in Nat /\ n + 1 \in 1 .. L /\ (n + 1) - 1 = n /\ n <= L
    BY <1>2
  <2>2. f[n] \subseteq Stage[n]
    BY <2>1
  <2> QED BY <1>6, <2>1, <2>2
<1>9. S = Nat
  <2> HIDE DEF S
  <2>1. S \subseteq Nat
    BY DEF S
  <2> QED BY <1>7, <1>8, <2>1, AllNaturals
<1>10. \A n \in 0 .. L : f[n] \subseteq Stage[n]
  BY <1>2, <1>9
<1> HIDE DEF S
<1>11. f = Body(f)
  <2>1. ASSUME NEW n \in 0 .. L, n # 0 PROVE f[n] = Next1(f, n)
    <3>1. n \in 1 .. L /\ n - 1 \in 0 .. L
      BY <1>2, <2>1
    <3> QED BY <1>6, <1>10, <3>1
  <2> QED BY <1>5, <2>1
<1>12. after = Body(after)
  <2> HIDE DEF Body
  <2> QED BY <1>11
<1> HIDE DEF after
<1> DEFINE R == {n \in Nat : n <= L => after[n] = f[n]}
<1>13. 0 \in R
  BY <1>2, <1>5, <1>12
<1>14. ASSUME NEW n \in R PROVE n + 1 \in R
  <2> SUFFICES ASSUME n + 1 <= L PROVE after[n + 1] = f[n + 1]
    OBVIOUS
  <2>1. n \in Nat /\ n + 1 \in 0 .. L /\ n + 1 # 0 /\ (n + 1) - 1 = n /\ n <= L
    BY <1>2
  <2>2. after[n] = f[n]
    BY <2>1
  <2>3. after[n + 1] = Next1(after, n + 1) /\ f[n + 1] = Next1(f, n + 1)
    BY <1>11, <1>12, <2>1
  <2> QED BY <2>1, <2>2, <2>3 DEF Next1
<1>15. R = Nat
  <2> HIDE DEF R
  <2>1. R \subseteq Nat
    BY DEF R
  <2> QED BY <1>13, <1>14, <2>1, AllNaturals
<1>16. after[L] = f[L]
  BY <1>2, <1>15
<1>17. f[L] \subseteq Stage[L]
  BY <1>2, <1>10
<1> QED BY <1>1, <1>16, <1>17 DEF L

(* Whatever each entry of a swap keeps, the swap keeps.                     *)
LEMMA SwappedWithin ==
  ASSUME NEW cuts, NEW adds, Len(cuts) \in Nat, Len(adds) \in Nat,
         NEW Kept, database \in Kept,
         \A n \in 1 .. Len(cuts) + Len(adds), db \in Kept : Applied(db, cuts, adds, n) \subseteq Kept
  PROVE  Swapped(cuts, adds) \subseteq Kept
<1> DEFINE Stage == [n \in 0 .. Len(cuts) + Len(adds) |-> Kept]
<1>1. database \in Stage[0]
  OBVIOUS
<1>2. \A n \in 1 .. Len(cuts) + Len(adds) : \A db \in Stage[n - 1] :
        Applied(db, cuts, adds, n) \subseteq Stage[n]
  OBVIOUS
<1>3. Stage[Len(cuts) + Len(adds)] = Kept
  OBVIOUS
<1> HIDE DEF Stage
<1> QED BY <1>1, <1>2, <1>3, SwappedThrough

-----------------------------------------------------------------------------
(* A transaction of several edits: each leaves a sound database in which no *)
(* deck card is overfilled, no idea holds anything, and every copy belongs  *)
(* where it did before the transaction.                                     *)
LooseDatabase ==
  [items : [ItemId -> Item], allocations : [Slot -> [ItemId -> Row]], cards : [Slot -> LooseCard]]

Pair(db) == [items |-> db.items, allocations |-> db.allocations]

Good == {db \in LooseDatabase : /\ Sound(Pair(db)) /\ SameHomes(tables, Pair(db))
                                /\ Fits(db.allocations, db.cards)
                                /\ IdleEmpty(db.allocations, db.cards)}

(* Only the deck cards of S may list other numbers.                         *)
SameBut(S, old, new) == \A r \in Slot \ S : new.cards[r] = old.cards[r]

LEMMA GoodParts ==
  ASSUME NEW db \in Good
  PROVE  /\ Sound(Pair(db)) /\ SameHomes(tables, Pair(db))
         /\ Pair(db).items = db.items /\ Pair(db).allocations = db.allocations
         /\ db = [items |-> db.items, allocations |-> db.allocations, cards |-> db.cards]
         /\ db.allocations \in [Slot -> [ItemId -> Row]]
         /\ db.cards \in [Slot -> LooseCard]
         /\ \A s \in Slot : /\ db.cards[s].quantity \in Nat /\ db.cards[s].proxies \in Nat
                            /\ db.cards[s].proxies \in 0 .. MaxQuantity
                            /\ db.cards[s].preferred \in Printing \cup {NoPrinting}
                            /\ Physical(db.allocations, s) \in Nat
                            /\ Physical(db.allocations, s) + db.cards[s].proxies <= db.cards[s].quantity
         /\ \A s \in Slot : Idle(s) => Empty(db.allocations, s) /\ db.cards[s].proxies = 0
<1>1. /\ db \in LooseDatabase /\ Sound(Pair(db)) /\ SameHomes(tables, Pair(db))
      /\ Fits(db.allocations, db.cards) /\ IdleEmpty(db.allocations, db.cards)
  BY DEF Good
<1>2. /\ Pair(db).items = db.items /\ Pair(db).allocations = db.allocations
      /\ db = [items |-> db.items, allocations |-> db.allocations, cards |-> db.cards]
      /\ db.allocations \in [Slot -> [ItemId -> Row]]
      /\ db.cards \in [Slot -> LooseCard]
  BY <1>1 DEF LooseDatabase, Pair
<1>3. ASSUME NEW s \in Slot
      PROVE  /\ db.cards[s].quantity \in Nat /\ db.cards[s].proxies \in Nat
             /\ db.cards[s].proxies \in 0 .. MaxQuantity
             /\ db.cards[s].preferred \in Printing \cup {NoPrinting}
  BY <1>2, QuantityAssumption DEF QuantityAssumption, LooseCard
<1>4. \A s \in Slot : Physical(db.allocations, s) \in Nat
  BY TotalType DEF Physical
<1> QED BY <1>1, <1>2, <1>3, <1>4 DEF Fits, IdleEmpty

LEMMA GoodMade ==
  ASSUME NEW st, Sound(st), SameHomes(tables, st), NEW cs \in [Slot -> LooseCard],
         Fits(st.allocations, cs), IdleEmpty(st.allocations, cs)
  PROVE  [items |-> st.items, allocations |-> st.allocations, cards |-> cs] \in Good
<1> DEFINE db == [items |-> st.items, allocations |-> st.allocations, cards |-> cs]
<1>1. /\ st = [items |-> st.items, allocations |-> st.allocations]
      /\ st.items \in [ItemId -> Item] /\ st.allocations \in [Slot -> [ItemId -> Row]]
  BY SoundParts
<1>2. db \in LooseDatabase /\ Pair(db) = st
  BY <1>1 DEF LooseDatabase, Pair
<1> QED BY <1>2 DEF Good

(* Releases look at items and allocations only.                             *)
LEMMA ClearPair ==
  ASSUME NEW db, NEW S
  PROVE  Clear(db, S) = Clear(Pair(db), S)
BY DEF Clear, Release, Pair

LEMMA TrimPair ==
  ASSUME NEW db, NEW s, NEW required
  PROVE  Trim(db, s, required) = Trim(Pair(db), s, required)
BY DEF Trim, Release, Pair

(* A lower quantity, or the row's end, with the copies it no longer needs.  *)
LEMMA LoweredGood ==
  ASSUME NEW db \in Good, NEW s \in Slot, NEW n \in Nat, NEW new \in Lowered(db, s, n)
  PROVE  new \in Good /\ SameBut({s}, db, new)
<1> DEFINE card == db.cards[s]
           left == card.quantity - n
<1>0. DOMAIN db.cards = Slot /\ card \in LooseCard
  BY GoodParts
<1>1. CASE n >= card.quantity
  <2> DEFINE cs == [db.cards EXCEPT ![s] = NoCard]
  <2>1. PICK st \in Clear(Pair(db), {s}) :
          new = [items |-> st.items, allocations |-> st.allocations, cards |-> cs]
    BY <1>1, ClearPair DEF Lowered, WithCards
  <2>2. Sound(st) /\ SameHomes(tables, st)
    BY GoodParts, ClearSound, SameHomesTransitive, {s} \in SUBSET Slot
  <2>3. cs \in [Slot -> LooseCard]
    BY GoodParts, QuantityAssumption DEF QuantityAssumption, NoCard, LooseCard
  <2>4. \A r \in Slot : /\ r = s => cs[r] = NoCard
                        /\ r # s => cs[r] = db.cards[r]
    BY <1>0
  <2> HIDE DEF cs
  <2>5. ASSUME NEW r \in Slot PROVE Physical(st.allocations, r) + cs[r].proxies <= cs[r].quantity
    <3>1. /\ Physical(st.allocations, r) <= Physical(db.allocations, r)
          /\ r = s => Physical(st.allocations, r) = 0
      BY GoodParts, ClearHeld, {s} \in SUBSET Slot
    <3>2. Physical(st.allocations, r) \in Nat
      BY TotalType DEF Physical
    <3> QED BY <2>4, <3>1, <3>2, GoodParts DEF NoCard
  <2>6. ASSUME NEW r \in Slot, Idle(r) PROVE Empty(st.allocations, r) /\ cs[r].proxies = 0
    <3>1. Empty(st.allocations, r)
      BY <2>6, GoodParts, ClearEmpty, {s} \in SUBSET Slot
    <3> QED BY <2>4, <2>6, <3>1, GoodParts DEF NoCard
  <2>7. new \in Good
    BY <2>1, <2>2, <2>3, <2>5, <2>6, GoodMade DEF Fits, IdleEmpty
  <2> QED BY <2>1, <2>4, <2>7 DEF SameBut
<1>2. CASE ~(n >= card.quantity)
  <2> DEFINE fewer == Less(card.proxies, Monus(left, Physical(db.allocations, s)))
             cs == [db.cards EXCEPT ![s] = [card EXCEPT !.quantity = left, !.proxies = fewer]]
  <2>1. PICK st \in Trim(Pair(db), s, left) :
          new = [items |-> st.items, allocations |-> st.allocations, cards |-> cs]
    BY <1>2, TrimPair DEF Lowered, WithCards
  <2>2. Sound(st) /\ SameHomes(tables, st)
    <3>1. left \in Nat
      <4>1. card.quantity \in Nat
        BY GoodParts
      <4> HIDE DEF card
      <4> QED BY <1>2, <4>1
    <3> HIDE DEF left
    <3> QED BY <2>1, <3>1, GoodParts, TrimSound, SameHomesTransitive
  <2>3. left \in Nat /\ fewer \in Nat /\ fewer <= card.proxies
        /\ fewer <= Monus(left, Physical(db.allocations, s))
    <3>1. card.quantity \in Nat /\ card.proxies \in Nat /\ Physical(db.allocations, s) \in Nat
      BY GoodParts
    <3> HIDE DEF card
    <3>2. left \in Nat
      BY <1>2, <3>1
    <3> QED BY <3>1, <3>2 DEF Less, Monus
  <2>4. cs \in [Slot -> LooseCard]
    <3>1. fewer \in 0 .. MaxQuantity
      BY <2>3, GoodParts, QuantityAssumption DEF QuantityAssumption
    <3> HIDE DEF fewer, left
    <3> QED BY <1>0, <2>3, <3>1, GoodParts DEF LooseCard
  <2>5. \A r \in Slot : /\ r = s => cs[r].quantity = left /\ cs[r].proxies = fewer
                        /\ r # s => cs[r] = db.cards[r]
    BY <1>0 DEF LooseCard
  <2> HIDE DEF cs, fewer
  <2>6. ASSUME NEW r \in Slot PROVE Physical(st.allocations, r) + cs[r].proxies <= cs[r].quantity
    <3>1. /\ Physical(st.allocations, r) <= Physical(db.allocations, r)
          /\ Physical(st.allocations, s) <= left
      BY <2>3, GoodParts, TrimHeld
    <3>2. Physical(st.allocations, r) \in Nat
      BY TotalType DEF Physical
    <3>3. CASE r = s
      <4>1. Physical(st.allocations, s) + fewer <= left
        BY <2>3, <3>1, <3>2, <3>3, GoodParts DEF Monus
      <4> QED BY <2>5, <3>3, <4>1
    <3>4. CASE r # s
      BY <2>5, <3>1, <3>2, <3>4, GoodParts
    <3> QED BY <3>3, <3>4
  <2>7. ASSUME NEW r \in Slot, Idle(r) PROVE Empty(st.allocations, r) /\ cs[r].proxies = 0
    <3>1. Empty(st.allocations, r)
      BY <2>7, GoodParts, TrimEmpty
    <3>2. db.cards[r].proxies = 0
      BY <2>7, GoodParts
    <3> QED BY <2>3, <2>5, <3>1, <3>2
  <2>8. new \in Good
    BY <2>1, <2>2, <2>4, <2>6, <2>7, GoodMade DEF Fits, IdleEmpty
  <2> QED BY <2>1, <2>5, <2>8 DEF SameBut
<1> QED BY <1>1, <1>2

(* More copies listed, in a printing of the row's choice.                   *)
LEMMA RaisedGood ==
  ASSUME NEW db \in Good, NEW s \in Slot, NEW n \in Nat,
         NEW p \in SUBSET (Printing \cup {NoPrinting}), NEW new \in Raised(db, s, n, p)
  PROVE  /\ new \in Good /\ SameBut({s}, db, new)
         /\ new.cards[s].quantity = db.cards[s].quantity + n
<1>1. PICK q \in p :
        new = [db EXCEPT !.cards[s] = [quantity |-> @.quantity + n, proxies |-> @.proxies,
                                       preferred |-> q]]
  BY DEF Raised
<1> DEFINE row == [quantity |-> db.cards[s].quantity + n, proxies |-> db.cards[s].proxies,
                   preferred |-> q]
           cs == [db.cards EXCEPT ![s] = row]
<1>2. db = [items |-> db.items, allocations |-> db.allocations, cards |-> db.cards]
  BY GoodParts
<1>3. new = [items |-> db.items, allocations |-> db.allocations, cards |-> cs]
  BY <1>1, <1>2
<1>4. row \in LooseCard
  BY GoodParts DEF LooseCard
<1>5. row.quantity = db.cards[s].quantity + n /\ row.proxies = db.cards[s].proxies
  OBVIOUS
<1> HIDE DEF row
<1>6. /\ cs \in [Slot -> LooseCard] /\ cs[s] = row
      /\ \A r \in Slot : r # s => cs[r] = db.cards[r]
  BY <1>4, GoodParts
<1> HIDE DEF cs
<1>7. Fits(db.allocations, cs)
  <2> SUFFICES ASSUME NEW r \in Slot
               PROVE  Physical(db.allocations, r) + cs[r].proxies <= cs[r].quantity
    BY DEF Fits
  <2>1. CASE r = s
    BY <1>5, <1>6, <2>1, GoodParts
  <2>2. CASE r # s
    BY <1>6, <2>2, GoodParts
  <2> QED BY <2>1, <2>2
<1>8. IdleEmpty(db.allocations, cs)
  BY <1>5, <1>6, GoodParts DEF IdleEmpty
<1>9. new \in Good
  BY <1>3, <1>6, <1>7, <1>8, GoodParts, GoodMade
<1> QED BY <1>3, <1>5, <1>6, <1>9 DEF SameBut

LEMMA NamedPrintings ==
  ASSUME NEW own, NEW wanted \in Printing \cup {NoPrinting}, NEW c
  PROVE  Named(own, wanted, c) \in SUBSET (Printing \cup {NoPrinting})
BY DEF Named, PrintingsOf

LEMMA CopiedGood ==
  ASSUME NEW db \in Good, NEW s \in Slot, NEW t \in Slot, NEW n \in Nat,
         NEW row \in LooseCard, NEW new \in Copied(db, s, t, n, row)
  PROVE  new \in Good /\ SameBut({t}, db, new)
<1> DEFINE p == Named(db.cards[t].preferred, row.preferred, CardIn(s))
<1>1. new \in Raised(db, t, n, p)
  BY DEF Copied
<1>2. p \in SUBSET (Printing \cup {NoPrinting})
  BY NamedPrintings DEF LooseCard
<1> HIDE DEF p
<1> QED BY <1>1, <1>2, RaisedGood

(* A row that is only considered from now on gives everything back.         *)
LEMMA ConsideredGood ==
  ASSUME NEW db \in Good, NEW s \in Slot, NEW t \in Slot, s # t, db.cards[t].quantity = 0,
         NEW new \in Considered(db, s, t)
  PROVE  new \in Good /\ SameBut({s, t}, db, new)
<1> DEFINE row == [db.cards[s] EXCEPT !.proxies = 0]
           cs == [db.cards EXCEPT ![s] = NoCard, ![t] = row]
<1>0. DOMAIN db.cards = Slot /\ db.cards[s] \in LooseCard
  BY GoodParts
<1>1. PICK st \in Clear(Pair(db), {s}) :
        new = [items |-> st.items, allocations |-> st.allocations, cards |-> cs]
  BY ClearPair DEF Considered, WithCards
<1>2. Sound(st) /\ SameHomes(tables, st)
  BY GoodParts, ClearSound, SameHomesTransitive, {s} \in SUBSET Slot
<1>3. row \in LooseCard /\ row.proxies = 0 /\ row.quantity \in Nat
  BY <1>0, QuantityAssumption DEF QuantityAssumption, LooseCard
<1> HIDE DEF row
<1>4. cs \in [Slot -> LooseCard]
  BY <1>3, GoodParts, QuantityAssumption DEF QuantityAssumption, NoCard, LooseCard
<1>5. \A r \in Slot : /\ r = s => cs[r] = NoCard
                      /\ r = t => cs[r] = row
                      /\ r # s /\ r # t => cs[r] = db.cards[r]
  BY <1>0
<1> HIDE DEF cs
<1>6. ASSUME NEW r \in Slot PROVE Physical(st.allocations, r) + cs[r].proxies <= cs[r].quantity
  <2>1. /\ Physical(st.allocations, r) <= Physical(db.allocations, r)
        /\ r = s => Physical(st.allocations, r) = 0
    BY GoodParts, ClearHeld, {s} \in SUBSET Slot
  <2>2. Physical(st.allocations, r) \in Nat
    BY TotalType DEF Physical
  <2>3. r = t => Physical(st.allocations, r) = 0
    <3>1. /\ Physical(db.allocations, t) \in Nat /\ db.cards[t].proxies \in Nat
          /\ Physical(db.allocations, t) + db.cards[t].proxies <= 0
      BY GoodParts
    <3> QED BY <2>1, <2>2, <3>1
  <2> QED BY <1>3, <1>5, <2>1, <2>2, <2>3, GoodParts DEF NoCard
<1>7. ASSUME NEW r \in Slot, Idle(r) PROVE Empty(st.allocations, r) /\ cs[r].proxies = 0
  <2>1. Empty(st.allocations, r)
    BY <1>7, GoodParts, ClearEmpty, {s} \in SUBSET Slot
  <2> QED BY <1>3, <1>5, <1>7, <2>1, GoodParts DEF NoCard
<1>8. new \in Good
  BY <1>1, <1>2, <1>4, <1>6, <1>7, GoodMade DEF Fits, IdleEmpty
<1> QED BY <1>1, <1>5, <1>8 DEF SameBut

(* A considered card that moves to the mainboard.                           *)
LEMMA MovedGood ==
  ASSUME NEW db \in Good, NEW s \in Slot, NEW z \in Zone, z # "considering",
         In(s, z) \in Slot \ {s}
  PROVE  LET new == [items |-> db.items,
                     allocations |-> MovedAllocations(db.allocations, {s}, z),
                     cards |-> MovedCards(db.cards, {s}, z)]
         IN  new \in Good /\ SameBut({s, In(s, z)}, db, new)
<1> DEFINE held == MovedAllocations(db.allocations, {s}, z)
           cs == MovedCards(db.cards, {s}, z)
           st == [items |-> db.items, allocations |-> held]
<1>1. {s} \in SUBSET Slot /\ Distinct({s}, z)
  BY DistinctOne
<1>2. Sound(st) /\ SameHomes(tables, st)
  <2>1. Sound(st) /\ SameHomes(Pair(db), st)
    BY <1>1, GoodParts, MovedAllocationsSound
  <2> QED BY <2>1, GoodParts, SameHomesTransitive
<1>3. cs \in [Slot -> LooseCard]
  BY <1>1, GoodParts, MovedCardsType
<1>4. Fits(held, cs)
  <2>1. Fits(db.allocations, db.cards)
    BY DEF Good
  <2>2. Fits(Pair(db).allocations, db.cards)
    BY <2>1, GoodParts
  <2>3. Fits(MovedAllocations(Pair(db).allocations, {s}, z), cs)
    BY <1>1, <2>2, GoodParts, MovedFits
  <2> QED BY <2>3, GoodParts
<1>5. IdleEmpty(held, cs)
  <2>1. IdleEmpty(db.allocations, db.cards)
    BY DEF Good
  <2> QED BY <1>1, <2>1, GoodParts, MovedIdle
<1>6. \A r \in Slot : r # s /\ r # In(s, z) => cs[r] = db.cards[r]
  BY DEF MovedCards, Incoming
<1> HIDE DEF held, cs
<1>7. [items |-> db.items, allocations |-> held, cards |-> cs] \in Good
  BY <1>2, <1>3, <1>4, <1>5, GoodMade
<1> QED BY <1>6, <1>7 DEF held, cs, SameBut

Of(d, new) == \A r \in Slot : DeckOf(r) # d => new.cards[r] = cards[r]

(* A cut keeps a good database good, and leaves the other decks alone.      *)
LEMMA CutGood ==
  ASSUME NEW db \in Good, NEW cut \in Cut, NEW new \in ApplyCut(db, cut)
  PROVE  new \in Good /\ \A r \in Slot : DeckOf(r) # DeckOf(cut.slot) => new.cards[r] = db.cards[r]
<1> DEFINE s == cut.slot
           n == cut.quantity
           t == In(s, "considering")
           lowered == Lowered(db, s, n)
<1>1. /\ s \in Slot /\ n \in Nat /\ ZoneOf(s) # "considering"
      /\ cut.destination # "remove" => "considering" \in Zone
  BY QuantityAssumption DEF QuantityAssumption, Cut, InDeck
<1>2. DeckOf(t) = DeckOf(s) /\ t # s
  BY <1>1 DEF In, DeckOf, ZoneOf
<1>3. \A st \in lowered : st \in Good /\ SameBut({s}, db, st)
  BY <1>1, LoweredGood
<1>4. CASE cut.destination = "remove"
  BY <1>3, <1>4 DEF ApplyCut, SameBut
<1>5. CASE cut.destination # "remove"
  <2>1. t \in Slot
    BY <1>1, <1>5, InSlot
  <2>2. CASE n = db.cards[s].quantity /\ db.cards[t].quantity = 0
    <3>1. new \in Considered(db, s, t)
      BY <1>5, <2>2 DEF ApplyCut
    <3>2. new \in Good /\ SameBut({s, t}, db, new)
      BY <1>1, <1>2, <2>1, <2>2, <3>1, ConsideredGood
    <3> QED BY <1>2, <3>2 DEF SameBut
  <2>3. CASE ~(n = db.cards[s].quantity /\ db.cards[t].quantity = 0)
    <3>1. PICK st \in lowered : new \in Copied(st, s, t, n, db.cards[s])
      BY <1>5, <2>3 DEF ApplyCut
    <3>2. db.cards[s] \in LooseCard
      BY <1>1, GoodParts
    <3>3. new \in Good /\ SameBut({t}, st, new)
      BY <1>1, <1>3, <2>1, <3>1, <3>2, CopiedGood
    <3> QED BY <1>2, <1>3, <3>1, <3>3 DEF SameBut
  <2> QED BY <2>2, <2>3
<1> QED BY <1>4, <1>5

(* An add too; one by name only lists more.                                 *)
LEMMA AddGood ==
  ASSUME NEW db \in Good, NEW add \in Add, NEW new \in ApplyAdd(db, add)
  PROVE  /\ new \in Good
         /\ \A r \in Slot : DeckOf(r) # DeckOf(add.slot) => new.cards[r] = db.cards[r]
         /\ ByName(add) => \A r \in Slot : new.cards[r].quantity >= db.cards[r].quantity
<1> DEFINE s == add.slot
           n == add.quantity
           t == In(s, "mainboard")
<1>1. s \in Slot /\ t \in Slot /\ n \in Nat
  BY QuantityAssumption DEF QuantityAssumption, Add
<1>2. DeckOf(t) = DeckOf(s) /\ "mainboard" \in Zone
  BY <1>1 DEF In, DeckOf, Slot
<1>3. CASE ByName(add)
  <2> DEFINE p == {db.cards[s].preferred}
  <2>1. new \in Raised(db, s, n, p)
    BY <1>3 DEF ApplyAdd
  <2>2. p \in SUBSET (Printing \cup {NoPrinting})
    BY <1>1, GoodParts
  <2> HIDE DEF p, s, n
  <2>3. /\ new \in Good /\ SameBut({s}, db, new)
        /\ new.cards[s].quantity = db.cards[s].quantity + n
    BY <1>1, <2>1, <2>2, RaisedGood
  <2> USE DEF s
  <2>4. \A r \in Slot : new.cards[r].quantity >= db.cards[r].quantity
    <3> SUFFICES ASSUME NEW r \in Slot PROVE new.cards[r].quantity >= db.cards[r].quantity
      OBVIOUS
    <3>1. db.cards[r].quantity \in Nat
      BY GoodParts
    <3> QED BY <1>1, <2>3, <3>1 DEF SameBut
  <2> QED BY <2>3, <2>4 DEF SameBut
<1>4. CASE ~ByName(add)
  <2>1. CASE n = db.cards[s].quantity /\ db.cards[t].quantity = 0
    <3>1. new = [items |-> db.items,
                 allocations |-> MovedAllocations(db.allocations, {s}, "mainboard"),
                 cards |-> MovedCards(db.cards, {s}, "mainboard")]
      BY <1>4, <2>1 DEF ApplyAdd
    <3>2. t \in Slot \ {s}
      BY <1>1, <1>4 DEF ByName, InDeck, Add, In, ZoneOf
    <3>3. new \in Good /\ SameBut({s, t}, db, new)
      BY <1>1, <1>2, <3>1, <3>2, MovedGood
    <3> QED BY <1>2, <1>4, <3>3 DEF SameBut
  <2>2. CASE ~(n = db.cards[s].quantity /\ db.cards[t].quantity = 0)
    <3>1. PICK st \in Lowered(db, s, n) : new \in Copied(st, s, t, n, db.cards[s])
      BY <1>4, <2>2 DEF ApplyAdd
    <3>2. st \in Good /\ SameBut({s}, db, st)
      BY <1>1, LoweredGood
    <3>3. db.cards[s] \in LooseCard
      BY <1>1, GoodParts
    <3>4. new \in Good /\ SameBut({t}, st, new)
      BY <1>1, <3>1, <3>2, <3>3, CopiedGood
    <3> QED BY <1>2, <1>4, <3>2, <3>4 DEF SameBut
  <2> QED BY <2>1, <2>2
<1> QED BY <1>3, <1>4

-----------------------------------------------------------------------------
(* The imports and swaps of the specification.                              *)
ListsInv == /\ FitInv /\ IdleEmpty(allocations, cards)
            /\ fetching \subseteq Fetch /\ PendingOK

LEMMA DatabaseGood ==
  ASSUME FitInv, IdleEmpty(allocations, cards)
  PROVE  database \in Good
<1>1. /\ Sound(tables) /\ SameHomes(tables, tables)
      /\ tables.items = items /\ tables.allocations = allocations
      /\ cards \in [Slot -> LooseCard]
  BY InvParts, LooseCards, SameHomesReflexive DEF FitInv
<1>2. Fits(tables.allocations, cards) /\ IdleEmpty(tables.allocations, cards)
  BY <1>1 DEF FitInv
<1>3. [items |-> tables.items, allocations |-> tables.allocations, cards |-> cards] \in Good
  BY <1>1, <1>2, GoodMade
<1> QED BY <1>1, <1>3 DEF database

(* A good database that is committed within the limit is a good state.      *)
LEMMA Committed ==
  ASSUME ListsInv, NEW db \in Good, Commit(db), WithinLimit(cards'),
         UNCHANGED <<status, linked, kind>>
  PROVE  FitInv' /\ IdleEmpty(allocations, cards)' /\ Homes' = Homes
<1>1. Sound(Pair(db)) /\ SameHomes(tables, Pair(db)) /\ Write(Pair(db)) /\ cards' = db.cards /\ allocations' = db.allocations
  BY GoodParts DEF Commit, Write
<1>2. cards' \in [Slot -> DeckCard]
  BY <1>1, GoodParts, TightCards DEF WithinLimit
<1>3. Inv' /\ SameHomes(tables, tables')
  BY <1>1, <1>2, InvParts, SettledSame DEF ListsInv, FitInv
<1>4. Fits(db.allocations, db.cards) /\ IdleEmpty(db.allocations, db.cards)
  BY DEF Good
<1>5. Fits(allocations, cards)'
  <2>1. Fits(allocations', cards')
    BY <1>1, <1>4
  <2> QED BY <2>1 DEF Fits, Physical, HeldBy, Total, Units
<1>6. IdleEmpty(allocations, cards)'
  BY <1>1, <1>4, Primed
<1>7. Homes' = Homes
  BY <1>3, HomesStay DEF ListsInv, FitInv
<1> QED BY <1>3, <1>5, <1>6, <1>7 DEF FitInv

LEMMA RequestTypes ==
  ASSUME NEW d \in Deck, NEW wishes, NEW seq \in Asks(d, wishes)
  PROVE  /\ Len(seq) \in Nat /\ DOMAIN seq = 1 .. Len(seq)
         /\ \A n \in 1 .. Len(seq) : seq[n] \in wishes /\ DeckOf(seq[n].slot) = d
<1> DEFINE W == {w \in wishes : DeckOf(w.slot) = d}
<1>1. seq \in Seqs!BoundedSeq(W, MaxEntries)
  BY DEF Asks
<1>2. PICK m \in 0 .. MaxEntries : seq \in [1 .. m -> W]
  BY <1>1 DEF Seqs!BoundedSeq, Seqs!SeqOf
<1>3. seq \in Seq(W)
  BY <1>2
<1> QED BY <1>3

(* The state after a swap: good, and only the swapped deck lists others.    *)
LEMMA SwapGood ==
  ASSUME FitInv, IdleEmpty(allocations, cards), NEW d \in Deck,
         NEW cuts \in Cuts(d), NEW adds \in Adds(d), NEW db \in Swapped(cuts, adds)
  PROVE  /\ db \in Good
         /\ \A r \in Slot : DeckOf(r) # d => db.cards[r] = cards[r]
         /\ cuts = <<>> /\ (\A n \in DOMAIN adds : ByName(adds[n]))
              => \A r \in Slot : db.cards[r].quantity >= cards[r].quantity
<1> DEFINE gentle == cuts = <<>> /\ \A n \in DOMAIN adds : ByName(adds[n])
           Kept == {st \in Good :
                      /\ \A r \in Slot : DeckOf(r) # d => st.cards[r] = cards[r]
                      /\ gentle => \A r \in Slot : st.cards[r].quantity >= cards[r].quantity}
<1>1. /\ Len(cuts) \in Nat /\ \A n \in 1 .. Len(cuts) : cuts[n] \in Cut /\ DeckOf(cuts[n].slot) = d
      /\ Len(adds) \in Nat /\ \A n \in 1 .. Len(adds) : adds[n] \in Add /\ DeckOf(adds[n].slot) = d
      /\ DOMAIN adds = 1 .. Len(adds)
  <2>1. /\ Len(cuts) \in Nat
        /\ \A n \in 1 .. Len(cuts) : cuts[n] \in {cut \in Cut : cut.quantity <= cards[cut.slot].quantity}
                                     /\ DeckOf(cuts[n].slot) = d
    BY RequestTypes DEF Cuts
  <2>2. /\ Len(adds) \in Nat /\ DOMAIN adds = 1 .. Len(adds)
        /\ \A n \in 1 .. Len(adds) :
             /\ adds[n] \in {add \in Add : ByName(add) \/ add.quantity <= cards[add.slot].quantity}
             /\ DeckOf(adds[n].slot) = d
    BY RequestTypes DEF Adds
  <2> QED BY <2>1, <2>2
<1>2. database \in Kept
  <2>1. database \in Good /\ database.cards = cards
    BY DatabaseGood DEF database
  <2>2. \A r \in Slot : cards[r].quantity \in Nat
    BY FitParts
  <2> QED BY <2>1, <2>2
<1>3. ASSUME NEW n \in 1 .. Len(cuts) + Len(adds), NEW st \in Kept
      PROVE  Applied(st, cuts, adds, n) \subseteq Kept
  <2> SUFFICES ASSUME NEW new \in Applied(st, cuts, adds, n) PROVE new \in Kept
    OBVIOUS
  <2>1. CASE n <= Len(cuts)
    <3>1. n \in 1 .. Len(cuts) /\ new \in ApplyCut(st, cuts[n])
      BY <1>1, <2>1 DEF Applied
    <3>2. ~gentle
      BY <3>1
    <3>3. /\ new \in Good
          /\ \A r \in Slot : DeckOf(r) # d => new.cards[r] = st.cards[r]
      BY <1>1, <3>1, CutGood
    <3> HIDE DEF gentle
    <3> QED BY <3>2, <3>3
  <2>2. CASE ~(n <= Len(cuts))
    <3> DEFINE m == n - Len(cuts)
    <3>1. m \in 1 .. Len(adds) /\ new \in ApplyAdd(st, adds[m])
      BY <1>1, <2>2 DEF Applied
    <3>2. gentle => ByName(adds[m])
      BY <1>1, <3>1
    <3>3. /\ new \in Good
          /\ \A r \in Slot : DeckOf(r) # d => new.cards[r] = st.cards[r]
          /\ ByName(adds[m]) => \A r \in Slot : new.cards[r].quantity >= st.cards[r].quantity
      BY <1>1, <3>1, AddGood
    <3>4. \A r \in Slot : /\ new.cards[r].quantity \in Nat /\ st.cards[r].quantity \in Nat
                          /\ cards[r].quantity \in Nat
      BY <3>3, GoodParts, FitParts
    <3> HIDE DEF gentle, m
    <3> QED BY <3>2, <3>3, <3>4
  <2> QED BY <2>1, <2>2
<1> HIDE DEF Kept
<1>4. db \in Kept
  BY <1>1, <1>2, <1>3, SwappedWithin
<1> QED BY <1>4 DEF Kept

LEMMA ApplySwapGood ==
  ASSUME ListsInv, NEW d \in Deck, NEW cuts \in Cuts(d), NEW adds \in Adds(d),
         ApplySwap(d, cuts, adds)
  PROVE  FitInv' /\ IdleEmpty(allocations, cards)' /\ Homes' = Homes
<1>1. PICK db \in Swapped(cuts, adds) : Commit(db)
  BY DEF ApplySwap
<1>2. db \in Good
  BY <1>1, SwapGood DEF ListsInv
<1> QED BY <1>1, <1>2, Committed DEF ApplySwap

(* A parsed list names deck cards of its deck.                              *)
LEMMA ListTypes ==
  ASSUME NEW d \in Deck, NEW list \in ParsedLists(d)
  PROVE  /\ DOMAIN list \subseteq CardSlots(d)
         /\ \A s \in DOMAIN list : /\ list[s].quantity \in Nat
                                   /\ list[s].printing \in Printing \cup {NoPrinting}
<1>1. PICK entries \in SUBSET CardSlots(d) : list \in [entries -> UNION {ListEntry(s) : s \in entries}]
  BY DEF ParsedLists
<1>2. \A s \in DOMAIN list : list[s] \in ListEntry(s)
  BY DEF ParsedLists
<1> QED BY <1>1, <1>2, QuantityAssumption DEF QuantityAssumption, ListEntry, PrintingsOf

LEMMA EmptiedGood ==
  ASSUME FitInv, IdleEmpty(allocations, cards), NEW d \in Deck, NEW db \in Emptied(d)
  PROVE  db \in Good /\ \A r \in Slot : DeckOf(r) # d => db.cards[r] = cards[r]
<1> DEFINE S == CardSlots(d)
           cs == [s \in Slot |-> IF DeckOf(s) = d THEN NoCard ELSE cards[s]]
<1>1. PICK st \in Clear(tables, S) :
        db = [items |-> st.items, allocations |-> st.allocations, cards |-> cs]
  BY DEF Emptied, WithCards
<1>2. S \in SUBSET Slot /\ \A r \in Slot : r \in S <=> DeckOf(r) = d
  BY DEF CardSlots
<1> HIDE DEF S
<1>3. /\ Sound(tables) /\ tables.allocations = allocations
      /\ cards \in [Slot -> LooseCard]
  BY InvParts, LooseCards DEF FitInv
<1>4. Sound(st) /\ SameHomes(tables, st)
  BY <1>2, <1>3, ClearSound
<1>5. cs \in [Slot -> LooseCard]
  BY <1>3, QuantityAssumption DEF QuantityAssumption, NoCard, LooseCard
<1>6. \A r \in Slot : /\ DeckOf(r) = d => cs[r] = NoCard
                      /\ DeckOf(r) # d => cs[r] = cards[r]
  OBVIOUS
<1> HIDE DEF cs
<1>7. ASSUME NEW r \in Slot PROVE Physical(st.allocations, r) + cs[r].proxies <= cs[r].quantity
  <2>1. /\ Physical(st.allocations, r) <= Physical(allocations, r)
        /\ r \in S => Physical(st.allocations, r) = 0
    BY <1>2, <1>3, ClearHeld
  <2>2. Physical(st.allocations, r) \in Nat
    BY TotalType DEF Physical
  <2> QED BY <1>2, <1>6, <2>1, <2>2, FitParts DEF NoCard
<1>8. ASSUME NEW r \in Slot, Idle(r) PROVE Empty(st.allocations, r) /\ cs[r].proxies = 0
  <2>1. Empty(tables.allocations, r) /\ cards[r].proxies = 0
    BY <1>3, <1>8 DEF IdleEmpty
  <2>2. Empty(st.allocations, r)
    BY <1>2, <1>3, <2>1, ClearEmpty
  <2> QED BY <1>6, <2>1, <2>2 DEF NoCard
<1>9. db \in Good
  BY <1>1, <1>4, <1>5, <1>7, <1>8, GoodMade DEF Fits, IdleEmpty
<1> QED BY <1>1, <1>6, <1>9

(* What an import writes: good, and only the imported deck lists others.    *)
LEMMA ImportGood ==
  ASSUME ListsInv, NEW d \in Deck, NEW list \in ParsedLists(d), NEW replace \in BOOLEAN,
         ImportDecklist(d, list, replace)
  PROVE  /\ FitInv' /\ IdleEmpty(allocations, cards)' /\ Homes' = Homes
         /\ \A r \in Slot : DeckOf(r) # d => cards'[r] = cards[r]
<1> DEFINE entries == DOMAIN list
           Listing(db, preferred) ==
             [s \in Slot |->
                IF s \in entries
                THEN [quantity |-> db.cards[s].quantity + list[s].quantity,
                      proxies |-> db.cards[s].proxies, preferred |-> preferred[s]]
                ELSE db.cards[s]]
<1>1. PICK db \in IF replace THEN Emptied(d) ELSE {database} :
        \E preferred \in [entries -> Printing \cup {NoPrinting}] :
          Commit([db EXCEPT !.cards =
                   [s \in Slot |->
                     IF s \in entries
                     THEN [quantity |-> @[s].quantity + list[s].quantity,
                           proxies |-> @[s].proxies, preferred |-> preferred[s]]
                     ELSE @[s]]])
  BY DEF ImportDecklist
<1>2. db \in Good /\ \A r \in Slot : DeckOf(r) # d => db.cards[r] = cards[r]
  <2>1. database \in Good /\ database.cards = cards
    BY DatabaseGood DEF database, ListsInv
  <2> QED BY <1>1, <2>1, EmptiedGood DEF ListsInv
<1>3. db = [items |-> db.items, allocations |-> db.allocations, cards |-> db.cards]
  BY <1>2, GoodParts
<1>4. PICK preferred \in [entries -> Printing \cup {NoPrinting}] :
        Commit([items |-> db.items, allocations |-> db.allocations,
                cards |-> Listing(db, preferred)])
  <2>1. PICK preferred \in [entries -> Printing \cup {NoPrinting}] :
          Commit([db EXCEPT !.cards = Listing(db, preferred)])
    BY <1>1
  <2> HIDE DEF Listing, entries
  <2>2. [db EXCEPT !.cards = Listing(db, preferred)]
          = [items |-> db.items, allocations |-> db.allocations, cards |-> Listing(db, preferred)]
    BY <1>3
  <2> QED BY <2>1, <2>2
<1> DEFINE cs == Listing(db, preferred)
<1>5. entries \subseteq CardSlots(d)
      /\ \A s \in entries : list[s].quantity \in Nat
  BY ListTypes
<1>6. cs \in [Slot -> LooseCard]
  <2> SUFFICES ASSUME NEW s \in Slot PROVE cs[s] \in LooseCard
    OBVIOUS
  <2>1. CASE s \in entries
    <3>1. /\ db.cards[s].quantity + list[s].quantity \in Nat
          /\ db.cards[s].proxies \in 0 .. MaxQuantity
      BY <1>2, <1>5, <2>1, GoodParts
    <3> QED BY <1>4, <2>1, <3>1 DEF LooseCard
  <2>2. CASE s \notin entries
    BY <1>2, <2>2, GoodParts
  <2> QED BY <2>1, <2>2
<1>7. \A s \in Slot : /\ cs[s].proxies = db.cards[s].proxies
                      /\ cs[s].quantity = IF s \in entries THEN db.cards[s].quantity + list[s].quantity
                                          ELSE db.cards[s].quantity
                      /\ s \notin entries => cs[s] = db.cards[s]
  OBVIOUS
<1> HIDE DEF cs, Listing
<1>8. Fits(db.allocations, cs)
  <2> SUFFICES ASSUME NEW s \in Slot
               PROVE  Physical(db.allocations, s) + cs[s].proxies <= cs[s].quantity
    BY DEF Fits
  <2> QED BY <1>2, <1>5, <1>7, GoodParts
<1>9. IdleEmpty(db.allocations, cs)
  BY <1>2, <1>7, GoodParts DEF IdleEmpty
<1> DEFINE new == [items |-> db.items, allocations |-> db.allocations, cards |-> cs]
<1>10. new \in Good
  BY <1>2, <1>6, <1>8, <1>9, GoodParts, GoodMade
<1>11. Commit(new) /\ cards' = cs
  BY <1>4 DEF Commit, cs
<1> HIDE DEF new
<1>12. FitInv' /\ IdleEmpty(allocations, cards)' /\ Homes' = Homes
  BY <1>10, <1>11, Committed DEF ImportDecklist
<1>13. \A r \in Slot : DeckOf(r) # d => cards'[r] = cards[r]
  BY <1>2, <1>5, <1>7, <1>11 DEF CardSlots
<1> QED BY <1>12, <1>13

-----------------------------------------------------------------------------
(* The steps of the specification.                                          *)
LEMMA ListsInit == DecklistsInit => ListsInv
<1> SUFFICES ASSUME DecklistsInit PROVE ListsInv
  OBVIOUS
<1>1. FitInv /\ IdleEmpty(allocations, cards)
  BY InitFits, InitIdle DEF DecklistsInit, IdeaInv
<1>2. fetching \subseteq Fetch /\ PendingOK
  BY DEF DecklistsInit, Init, PendingOK
<1> QED BY <1>1, <1>2 DEF ListsInv

LEMMA OwnNext ==
  ASSUME ~CardEdits, ListsInv, Next, OthersKeepRequests
  PROVE  ListsInv'
<1>1. FitInv'
  BY NextFits DEF ListsInv
<1>2. IdleEmpty(allocations, cards)'
  BY NextIdle DEF ListsInv, IdeaInv, FitInv
<1>3. fetching' \subseteq Fetch
  BY FetchingTyped DEF ListsInv
<1>4. PendingOK'
  BY DEF OthersKeepRequests, ListsInv, PendingOK
<1> QED BY <1>1, <1>2, <1>3, <1>4 DEF ListsInv

LEMMA SameTables ==
  ASSUME ~CardEdits, ListsInv, UNCHANGED vars, PendingOK'
  PROVE  ListsInv'
<1>1. FitInv' /\ IdleEmpty(allocations, cards)'
  BY NextFits, NextIdle DEF ListsInv, IdeaInv, FitInv
<1>2. fetching' \subseteq Fetch
  BY DEF ListsInv, vars
<1> QED BY <1>1, <1>2 DEF ListsInv

LEMMA ListsStep == ASSUME ~CardEdits PROVE ListsInv /\ [DecklistsNext]_listVars => ListsInv'
<1> SUFFICES ASSUME ListsInv, [DecklistsNext]_listVars PROVE ListsInv'
  OBVIOUS
<1>1. CASE Next /\ OthersKeepRequests
  BY <1>1, OwnNext
<1>2. ASSUME NEW d \in Deck, BeginImport(d) \/ BeginSwap(d)
      PROVE  ListsInv'
  <2>1. <<d, "import">> \in Pending /\ <<d, "swap">> \in Pending
    BY DEF Pending
  <2>2. PendingOK'
    <3>1. \/ pending' = pending \cup {<<d, "import">>}
          \/ pending' = pending \cup {<<d, "swap">>}
      BY <1>2 DEF BeginImport, BeginSwap
    <3>2. pending \subseteq Pending
      BY DEF ListsInv, PendingOK
    <3>3. pending' \subseteq Pending
      BY <2>1, <3>1, <3>2
    <3> QED BY <3>3 DEF PendingOK, Pending
  <2>3. UNCHANGED vars
    BY <1>2 DEF BeginImport, BeginSwap
  <2> QED BY <2>2, <2>3, SameTables
<1>3. ASSUME NEW d \in Deck, NEW list \in ParsedLists(d), NEW replace \in BOOLEAN,
             ImportDecklist(d, list, replace)
      PROVE  ListsInv'
  <2>1. FitInv' /\ IdleEmpty(allocations, cards)'
    BY <1>3, ImportGood
  <2>2. fetching' = fetching /\ pending' = pending \ {<<d, "import">>}
    BY <1>3 DEF ImportDecklist
  <2> QED BY <2>1, <2>2 DEF ListsInv, PendingOK, Pending
<1>4. ASSUME NEW d \in Deck, NEW cuts \in Cuts(d), NEW adds \in Adds(d), ApplySwap(d, cuts, adds)
      PROVE  ListsInv'
  <2>1. FitInv' /\ IdleEmpty(allocations, cards)'
    BY <1>4, ApplySwapGood
  <2>2. fetching' = fetching /\ pending' = pending \ {<<d, "swap">>}
    BY <1>4 DEF ApplySwap
  <2> QED BY <2>1, <2>2 DEF ListsInv, PendingOK, Pending
<1>5. ASSUME NEW r \in pending, RequestFails(r)
      PROVE  ListsInv'
  <2>1. PendingOK' /\ UNCHANGED vars
    BY <1>5 DEF RequestFails, ListsInv, PendingOK, Pending
  <2> QED BY <2>1, SameTables
<1>6. CASE UNCHANGED listVars
  <2>1. PendingOK' /\ UNCHANGED vars
    BY <1>6 DEF listVars, vars, ListsInv, PendingOK, Pending
  <2> QED BY <2>1, SameTables
<1> QED BY <1>1, <1>2, <1>3, <1>4, <1>5, <1>6 DEF DecklistsNext, RequestsNext

(* Imports and swaps too leave no deck card with more than its quantity:    *)
(* the rows they cut are trimmed or cleared first (swap.rs reduce_or_delete,*)
(* cards.rs update_in), and the rows an import replaces give everything     *)
(* back (decklist.rs), also when the deck has changed since they read it.   *)
THEOREM ListsNeverOverfill == ASSUME ~CardEdits PROVE DecklistsSpec => []NotOverfilled
<1>1. ListsInv /\ [DecklistsNext]_listVars => ListsInv'
  BY ListsStep
<1>2. ListsInv => NotOverfilled
  BY DEF ListsInv, FitInv, Fits, NotOverfilled
<1> QED BY <1>1, <1>2, ListsInit, PTL DEF DecklistsSpec

(* A card that a swap sends to Considering holds nothing there, and one     *)
(* that it takes from there brings nothing along (swap.rs apply, cards.rs   *)
(* update_in and move_to_zone).                                             *)
THEOREM ListsIdeasNeverHold == ASSUME ~CardEdits PROVE DecklistsSpec => []IdeasHoldNothing
<1>1. ListsInv /\ [DecklistsNext]_listVars => ListsInv'
  BY ListsStep
<1>2. ListsInv => IdeasHoldNothing
  BY IdeasFollow DEF ListsInv, FitInv, IdeaInv
<1> QED BY <1>1, <1>2, ListsInit, PTL DEF DecklistsSpec

LEMMA ListsHomes ==
  ASSUME ~CardEdits PROVE ListsInv /\ [DecklistsNext]_listVars => Homes' = Homes \/ CollectionNext
<1> SUFFICES ASSUME ListsInv, [DecklistsNext]_listVars PROVE Homes' = Homes \/ CollectionNext
  OBVIOUS
<1>1. CASE Next \/ UNCHANGED vars
  BY <1>1, NextHomes DEF ListsInv
<1>2. ASSUME NEW d \in Deck, NEW list \in ParsedLists(d), NEW replace \in BOOLEAN,
             ImportDecklist(d, list, replace)
      PROVE  Homes' = Homes
  BY <1>2, ImportGood
<1>3. ASSUME NEW d \in Deck, NEW cuts \in Cuts(d), NEW adds \in Adds(d), ApplySwap(d, cuts, adds)
      PROVE  Homes' = Homes
  BY <1>3, ApplySwapGood
<1>4. CASE \/ \E d \in Deck : BeginImport(d) \/ BeginSwap(d)
           \/ \E r \in pending : RequestFails(r)
           \/ UNCHANGED listVars
  BY <1>1, <1>4 DEF BeginImport, BeginSwap, RequestFails, listVars, vars
<1> QED BY <1>1, <1>2, <1>3, <1>4 DEF DecklistsNext, RequestsNext

(* Imports and swaps, of any number of entries, return the copies of the    *)
(* rows they cut to where these belong and take none along that belongs     *)
(* elsewhere (swap.rs apply, cards.rs update_in, decklist.rs).              *)
THEOREM ListsKeepHomes == ASSUME ~CardEdits PROVE DecklistsSpec => HomesKept
<1>1. ListsInv /\ [DecklistsNext]_listVars => ListsInv'
  BY ListsStep
<1>2. ListsInv /\ [DecklistsNext]_listVars => [Homes' = Homes \/ CollectionNext]_tables
  BY ListsHomes
<1> QED BY <1>1, <1>2, ListsInit, PTL DEF DecklistsSpec, HomesKept

(* Whatever imports and swaps interleave with, no copy is promised twice    *)
(* and every held copy is of its deck card's own card and in no location.   *)
THEOREM ListsKeepCopiesApart ==
  ASSUME ~CardEdits
  PROVE  DecklistsSpec => [](NoDoublePromise /\ HoldsOwnCard /\ HeldCopiesUnfiled)
<1>1. ListsInv /\ [DecklistsNext]_listVars => ListsInv'
  BY ListsStep
<1>2. ListsInv => NoDoublePromise /\ HoldsOwnCard /\ HeldCopiesUnfiled
  BY InvSays DEF ListsInv, FitInv
<1> QED BY <1>1, <1>2, ListsInit, PTL DEF DecklistsSpec

-----------------------------------------------------------------------------
(* Sums.  A sum is the number of its parts, whatever order they are added   *)
(* in: f[x] of them for each x.                                             *)
Parts(f, S) == UNION {{x} \X (1 .. f[x]) : x \in S}

LEMMA PartsOfMore ==
  ASSUME NEW D, NEW f \in [D -> Nat], NEW S \in SUBSET D, NEW x \in D \ S,
         IsFiniteSet(S)
  PROVE  /\ IsFiniteSet(Parts(f, S)) /\ IsFiniteSet(Parts(f, S \cup {x}))
         /\ Cardinality(Parts(f, S \cup {x})) = Cardinality(Parts(f, S)) + f[x]
<1> DEFINE new == {x} \X (1 .. f[x])
<1>1. IsFiniteSet(new) /\ Cardinality(new) = f[x]
  BY StackOfUnits
<1>2. IsFiniteSet(Parts(f, S))
  <2> DEFINE stacks == {{y} \X (1 .. f[y]) : y \in S}
             g == [y \in S |-> {y} \X (1 .. f[y])]
  <2>1. g \in Surjection(S, stacks)
    BY DEF Surjection
  <2> HIDE DEF g
  <2>2. IsFiniteSet(stacks)
    BY <2>1, FS_Surjection
  <2>3. \A stack \in stacks : IsFiniteSet(stack)
    <3> SUFFICES ASSUME NEW y \in S PROVE IsFiniteSet({y} \X (1 .. f[y]))
      OBVIOUS
    <3> QED BY StackOfUnits
  <2> HIDE DEF stacks
  <2>4. IsFiniteSet(UNION stacks)
    BY <2>2, <2>3, FS_UNION
  <2> QED BY <2>4 DEF Parts, stacks
<1>3. Parts(f, S \cup {x}) = Parts(f, S) \cup new
  BY DEF Parts
<1>4. Parts(f, S) \cap new = {}
  BY DEF Parts
<1> HIDE DEF new
<1>5. /\ IsFiniteSet(Parts(f, S) \cup new)
      /\ Cardinality(Parts(f, S) \cup new) = Cardinality(Parts(f, S)) + Cardinality(new) - 0
  BY <1>1, <1>2, <1>4, FS_Union, FS_EmptySet
<1>6. Cardinality(Parts(f, S)) \in Nat /\ f[x] \in Nat
  BY <1>2, FS_CardinalityType
<1>7. Cardinality(Parts(f, S) \cup new) = Cardinality(Parts(f, S)) + f[x]
  BY <1>1, <1>5, <1>6
<1>8. IsFiniteSet(Parts(f, S \cup {x}))
  BY <1>3, <1>5, Zenon
<1>9. Cardinality(Parts(f, S \cup {x})) = Cardinality(Parts(f, S)) + f[x]
  BY <1>3, <1>7, Zenon
<1> QED BY <1>2, <1>8, <1>9, Zenon

LEMMA SumIsParts ==
  ASSUME NEW S, IsFiniteSet(S), NEW f \in [S -> Nat]
  PROVE  Sums!SumFunction(f) = Cardinality(Parts(f, S))
<1> DEFINE any(s) == CHOOSE x \in s : TRUE
           Body(it) == [s \in SUBSET S |-> IF s = {} THEN 0 ELSE f[any(s)] + it[s \ {any(s)}]]
           iter == CHOOSE it : it = Body(it)
           count == [s \in SUBSET S |-> Cardinality(Parts(f, s))]
<1>1. Sums!SumFunction(f) = iter[S]
  <2>1. DOMAIN f = S
    OBVIOUS
  <2> QED BY <2>1 DEF Sums!SumFunction, Sums!SumFunctionOnSet, Sums!FoldFunctionOnSet,
                      Sums!MapThenFoldSet
<1>2. Cardinality(Parts(f, {})) = 0
  BY FS_EmptySet DEF Parts
<1>3. ASSUME NEW s \in SUBSET S, s # {}
      PROVE  /\ any(s) \in s /\ IsFiniteSet(s) /\ IsFiniteSet(s \ {any(s)})
             /\ Cardinality(s \ {any(s)}) = Cardinality(s) - 1
             /\ Cardinality(Parts(f, s)) = f[any(s)] + Cardinality(Parts(f, s \ {any(s)}))
  <2>1. any(s) \in s
    BY <1>3
  <2> HIDE DEF any
  <2>2. IsFiniteSet(s)
    BY FS_Subset
  <2>3. IsFiniteSet(s \ {any(s)}) /\ Cardinality(s \ {any(s)}) = Cardinality(s) - 1
    BY <2>1, <2>2, FS_RemoveElement
  <2>4. (s \ {any(s)}) \cup {any(s)} = s
    BY <2>1
  <2> DEFINE rest == s \ {any(s)}
  <2>5. rest \in SUBSET S /\ any(s) \in S \ rest
    BY <2>1
  <2>6. /\ Cardinality(Parts(f, rest \cup {any(s)})) = Cardinality(Parts(f, rest)) + f[any(s)]
        /\ IsFiniteSet(Parts(f, rest))
    BY <2>3, <2>5, PartsOfMore
  <2>7. Cardinality(Parts(f, rest)) \in Nat /\ f[any(s)] \in Nat
    BY <2>1, <2>6, FS_CardinalityType
  <2> QED BY <2>1, <2>2, <2>3, <2>4, <2>6, <2>7
<1>4. count = Body(count)
  <2>1. ASSUME NEW s \in SUBSET S
        PROVE  count[s] = IF s = {} THEN 0 ELSE f[any(s)] + count[s \ {any(s)}]
    <3> HIDE DEF any
    <3>1. CASE s = {}
      BY <1>2, <3>1
    <3>2. CASE s # {}
      BY <1>3, <3>2
    <3> QED BY <3>1, <3>2
  <2> HIDE DEF any
  <2> QED BY <2>1
<1>5. iter = Body(iter)
  <2> HIDE DEF Body, count
  <2> QED BY <1>4
<1> HIDE DEF iter, any, count
<1> DEFINE N == {n \in Nat : \A s \in SUBSET S :
                               Cardinality(s) = n => iter[s] = Cardinality(Parts(f, s))}
<1>6. 0 \in N
  <2> SUFFICES ASSUME NEW s \in SUBSET S, Cardinality(s) = 0
               PROVE  iter[s] = Cardinality(Parts(f, s))
    OBVIOUS
  <2>1. s = {}
    BY FS_Subset, FS_EmptySet
  <2> QED BY <1>2, <1>5, <2>1
<1>7. ASSUME NEW n \in N PROVE n + 1 \in N
  <2> SUFFICES ASSUME NEW s \in SUBSET S, Cardinality(s) = n + 1
               PROVE  iter[s] = Cardinality(Parts(f, s))
    OBVIOUS
  <2>0. n \in Nat /\ n + 1 # 0 /\ (n + 1) - 1 = n
    OBVIOUS
  <2>1. s # {}
    BY <2>0, FS_EmptySet
  <2>2. Cardinality(s \ {any(s)}) = n /\ s \ {any(s)} \in SUBSET S
    BY <1>3, <2>0, <2>1
  <2>3. iter[s \ {any(s)}] = Cardinality(Parts(f, s \ {any(s)}))
    BY <2>2
  <2>4. iter[s] = f[any(s)] + iter[s \ {any(s)}]
    BY <1>5, <2>1
  <2> QED BY <1>3, <2>1, <2>3, <2>4
<1>8. N = Nat
  <2> HIDE DEF N
  <2>1. N \subseteq Nat
    BY DEF N
  <2> QED BY <1>6, <1>7, <2>1, AllNaturals
<1>9. Cardinality(S) \in N
  BY <1>8, FS_CardinalityType
<1> QED BY <1>1, <1>9

(* A sum over one more.                                                     *)
LEMMA SumOfMore ==
  ASSUME NEW S, IsFiniteSet(S), NEW x, x \notin S, NEW f \in [S \cup {x} -> Nat]
  PROVE  /\ Sums!SumFunction([y \in S |-> f[y]]) \in Nat
         /\ Sums!SumFunction(f) = Sums!SumFunction([y \in S |-> f[y]]) + f[x]
<1> DEFINE g == [y \in S |-> f[y]]
<1>1. IsFiniteSet(S \cup {x})
  BY FS_AddElement
<1>2. Sums!SumFunction(f) = Cardinality(Parts(f, S \cup {x}))
  BY <1>1, SumIsParts
<1>3. g \in [S -> Nat]
  OBVIOUS
<1>4. Parts(g, S) = Parts(f, S)
  BY DEF Parts
<1> HIDE DEF g
<1>5. Sums!SumFunction(g) = Cardinality(Parts(f, S))
  BY <1>3, <1>4, SumIsParts
<1>6. /\ IsFiniteSet(Parts(f, S))
      /\ Cardinality(Parts(f, S \cup {x})) = Cardinality(Parts(f, S)) + f[x]
  BY PartsOfMore
<1>7. Cardinality(Parts(f, S)) \in Nat
  BY <1>6, FS_CardinalityType
<1> QED BY <1>2, <1>5, <1>6, <1>7 DEF g

(* A sum whose term for x changes.                                          *)
LEMMA SumChanged ==
  ASSUME NEW S, IsFiniteSet(S), NEW x \in S, NEW n \in Nat, NEW f \in [S -> Nat], NEW g \in [S -> Nat],
         g[x] = f[x] + n, \A y \in S : y # x => g[y] = f[y]
  PROVE  Sums!SumFunction(g) = Sums!SumFunction(f) + n
<1> DEFINE T == S \ {x}
<1>1. IsFiniteSet(T) /\ x \notin T /\ S = T \cup {x}
  BY FS_RemoveElement
<1>2. [y \in T |-> f[y]] = [y \in T |-> g[y]]
  OBVIOUS
<1> HIDE DEF T
<1>3. /\ Sums!SumFunction([y \in T |-> f[y]]) \in Nat
      /\ Sums!SumFunction(f) = Sums!SumFunction([y \in T |-> f[y]]) + f[x]
      /\ Sums!SumFunction(g) = Sums!SumFunction([y \in T |-> g[y]]) + g[x]
  BY <1>1, SumOfMore
<1>4. f[x] \in Nat
  OBVIOUS
<1> QED BY <1>2, <1>3, <1>4

LEMMA SumOfNone ==
  ASSUME NEW f \in [{} -> Nat]
  PROVE  Sums!SumFunction(f) = 0
<1>1. Sums!SumFunction(f) = Cardinality(Parts(f, {}))
  BY FS_EmptySet, SumIsParts
<1> QED BY <1>1, FS_EmptySet DEF Parts

LEMMA SumType ==
  ASSUME NEW S, IsFiniteSet(S), NEW f \in [S -> Nat]
  PROVE  Sums!SumFunction(f) \in Nat
<1>1. Sums!SumFunction(f) = Cardinality(Parts(f, S))
  BY SumIsParts
<1>2. IsFiniteSet(Parts(f, S))
  <2>1. CASE S = {}
    BY <2>1, FS_EmptySet DEF Parts
  <2>2. CASE S # {}
    <3>1. PICK x \in S : TRUE
      BY <2>2
    <3> DEFINE T == S \ {x}
    <3>2. IsFiniteSet(T) /\ S = T \cup {x} /\ T \in SUBSET S /\ x \in S \ T
      BY FS_RemoveElement
    <3> HIDE DEF T
    <3>3. IsFiniteSet(Parts(f, T \cup {x}))
      BY <3>2, PartsOfMore
    <3> QED BY <3>2, <3>3
  <2> QED BY <2>1, <2>2
<1> QED BY <1>1, <1>2, FS_CardinalityType

-----------------------------------------------------------------------------
(* How many copies the deck's rows list after each entry.                   *)
LEMMA LoweredCounts ==
  ASSUME NEW db \in Good, NEW s \in Slot, NEW n \in Nat, NEW new \in Lowered(db, s, n)
  PROVE  new.cards[s].quantity = Monus(db.cards[s].quantity, n)
<1> DEFINE card == db.cards[s]
           left == card.quantity - n
<1>0. DOMAIN db.cards = Slot /\ card \in LooseCard /\ card.quantity \in Nat
  BY GoodParts
<1>1. CASE n >= card.quantity
  <2>1. PICK st \in Clear(db, {s}) :
          new = [items |-> st.items, allocations |-> st.allocations,
                 cards |-> [db.cards EXCEPT ![s] = NoCard]]
    BY <1>1 DEF Lowered, WithCards
  <2>2. new.cards[s].quantity = 0
    BY <1>0, <2>1 DEF NoCard
  <2> HIDE DEF card
  <2> QED BY <1>0, <1>1, <2>2 DEF Monus, card
<1>2. CASE ~(n >= card.quantity)
  <2> DEFINE row == [card EXCEPT !.quantity = left,
                                 !.proxies = Less(@, Monus(left, Physical(db.allocations, s)))]
  <2>1. PICK st \in Trim(db, s, left) :
          new = [items |-> st.items, allocations |-> st.allocations,
                 cards |-> [db.cards EXCEPT ![s] = row]]
    BY <1>2 DEF Lowered, WithCards
  <2>2. row.quantity = left
    BY <1>0 DEF LooseCard
  <2> HIDE DEF row
  <2>3. new.cards[s].quantity = left
    BY <1>0, <2>1, <2>2
  <2> QED BY <1>0, <1>2, <2>3 DEF Monus
<1> QED BY <1>1, <1>2

LEMMA CutCounts ==
  ASSUME NEW db \in Good, NEW cut \in Cut, NEW new \in ApplyCut(db, cut),
         NEW r \in Slot, InDeck(r)
  PROVE  new.cards[r].quantity
           = IF r = cut.slot THEN Monus(db.cards[r].quantity, cut.quantity) ELSE db.cards[r].quantity
<1> DEFINE s == cut.slot
           n == cut.quantity
           t == In(s, "considering")
           lowered == Lowered(db, s, n)
<1>1. /\ s \in Slot /\ n \in Nat
      /\ cut.destination # "remove" => "considering" \in Zone
  BY QuantityAssumption DEF QuantityAssumption, Cut
<1>2. r # t
  BY DEF In, InDeck, ZoneOf
<1>3. ASSUME NEW st \in lowered
      PROVE  /\ st \in Good
             /\ st.cards[r].quantity = IF r = s THEN Monus(db.cards[r].quantity, n)
                                       ELSE db.cards[r].quantity
  <2> HIDE DEF s, n
  <2>1. st \in Good /\ SameBut({s}, db, st)
    BY <1>1, <1>3, LoweredGood
  <2>2. st.cards[s].quantity = Monus(db.cards[s].quantity, n)
    BY <1>1, <1>3, LoweredCounts
  <2> QED BY <2>1, <2>2 DEF SameBut
<1>4. CASE cut.destination = "remove"
  BY <1>3, <1>4 DEF ApplyCut
<1>5. CASE cut.destination # "remove" /\ n = db.cards[s].quantity /\ db.cards[t].quantity = 0
  <2>1. new \in Considered(db, s, t)
    BY <1>5 DEF ApplyCut
  <2>2. PICK st \in Clear(db, {s}) :
          new = [items |-> st.items, allocations |-> st.allocations,
                 cards |-> [db.cards EXCEPT ![s] = NoCard, ![t] = [db.cards[s] EXCEPT !.proxies = 0]]]
    BY <2>1 DEF Considered, WithCards
  <2>3. DOMAIN db.cards = Slot /\ db.cards[s].quantity \in Nat
    BY <1>1, GoodParts
  <2>4. new.cards[r] = IF r = s THEN NoCard ELSE db.cards[r]
    BY <1>2, <2>2, <2>3
  <2>5. Monus(n, n) = 0
    BY <1>1 DEF Monus
  <2> HIDE DEF s, n
  <2>6. new.cards[r].quantity = IF r = s THEN Monus(db.cards[r].quantity, n)
                                ELSE db.cards[r].quantity
    BY <1>5, <2>4, <2>5 DEF NoCard
  <2> QED BY <2>6 DEF s, n
<1>6. CASE cut.destination # "remove" /\ ~(n = db.cards[s].quantity /\ db.cards[t].quantity = 0)
  <2>1. PICK st \in lowered : new \in Copied(st, s, t, n, db.cards[s])
    BY <1>6 DEF ApplyCut
  <2>2. t \in Slot /\ db.cards[s] \in LooseCard
    BY <1>1, <1>6, InSlot, GoodParts
  <2>3. SameBut({t}, st, new)
    BY <1>1, <1>3, <2>1, <2>2, CopiedGood
  <2>4. new.cards[r] = st.cards[r]
    BY <1>2, <2>3 DEF SameBut
  <2> QED BY <1>3, <2>1, <2>4
<1> QED BY <1>4, <1>5, <1>6

LEMMA AddCounts ==
  ASSUME NEW db \in Good, NEW add \in Add, NEW new \in ApplyAdd(db, add),
         NEW r \in Slot, InDeck(r)
  PROVE  new.cards[r].quantity
           = IF r = In(add.slot, "mainboard") THEN db.cards[r].quantity + add.quantity
             ELSE db.cards[r].quantity
<1> DEFINE s == add.slot
           n == add.quantity
           t == In(s, "mainboard")
<1>1. s \in Slot /\ t \in Slot /\ n \in Nat /\ ZoneOf(s) \in {"considering", "mainboard"}
  BY QuantityAssumption DEF QuantityAssumption, Add
<1>2. \A q \in Slot : db.cards[q].quantity \in Nat
  BY GoodParts
<1>3. CASE ByName(add)
  <2>1. t = s
    BY <1>1, <1>3 DEF ByName, InDeck, In, DeckOf, CardIn, ZoneOf, Slot
  <2> DEFINE p == {db.cards[s].preferred}
  <2>2. new \in Raised(db, s, n, p) /\ p \in SUBSET (Printing \cup {NoPrinting})
    BY <1>1, <1>3, GoodParts DEF ApplyAdd
  <2> HIDE DEF s, n, p, t
  <2>3. SameBut({s}, db, new) /\ new.cards[s].quantity = db.cards[s].quantity + n
    BY <1>1, <2>2, RaisedGood
  <2>4. new.cards[r].quantity = IF r = s THEN db.cards[r].quantity + n ELSE db.cards[r].quantity
    BY <2>3 DEF SameBut
  <2> QED BY <2>1, <2>4 DEF s, n, t
<1>4. CASE ~ByName(add)
  <2>0. r # s /\ t # s
    BY <1>1, <1>4 DEF ByName, InDeck, In, ZoneOf
  <2>1. CASE n = db.cards[s].quantity /\ db.cards[t].quantity = 0
    <3>1. new.cards = MovedCards(db.cards, {s}, "mainboard")
      BY <1>4, <2>1 DEF ApplyAdd
    <3>2. Incoming({s}, "mainboard", r) = IF r = t THEN {s} ELSE {}
      BY DEF Incoming
    <3>3. r = t => (CHOOSE q \in {s} : In(q, "mainboard") = r) = s
      OBVIOUS
    <3>4. new.cards[r] = IF r = t THEN db.cards[s] ELSE db.cards[r]
      BY <2>0, <2>1, <3>1, <3>2, <3>3 DEF MovedCards
    <3> QED BY <1>1, <1>2, <2>1, <3>4
  <2>2. CASE ~(n = db.cards[s].quantity /\ db.cards[t].quantity = 0)
    <3>1. PICK st \in Lowered(db, s, n) : new \in Copied(st, s, t, n, db.cards[s])
      BY <1>4, <2>2 DEF ApplyAdd
    <3>2. st \in Good /\ SameBut({s}, db, st)
      BY <1>1, <3>1, LoweredGood
    <3> DEFINE p == Named(st.cards[t].preferred, db.cards[s].preferred, CardIn(s))
    <3>3. new \in Raised(st, t, n, p)
      BY <3>1 DEF Copied
    <3>4. p \in SUBSET (Printing \cup {NoPrinting})
      BY <1>1, GoodParts, NamedPrintings
    <3> HIDE DEF s, n, p, t
    <3>5. SameBut({t}, st, new) /\ new.cards[t].quantity = st.cards[t].quantity + n
      BY <1>1, <3>2, <3>3, <3>4, RaisedGood
    <3>6. st.cards[r] = db.cards[r] /\ st.cards[t] = db.cards[t]
      BY <1>1, <2>0, <3>2 DEF SameBut
    <3>7. new.cards[r].quantity = IF r = t THEN db.cards[r].quantity + n ELSE db.cards[r].quantity
      BY <3>5, <3>6 DEF SameBut
    <3> QED BY <3>7 DEF s, n, t
  <2> QED BY <2>1, <2>2
<1> QED BY <1>3, <1>4

LEMMA RowsFinite ==
  ASSUME NEW d \in Deck
  PROVE  IsFiniteSet(DeckRows(d)) /\ DeckRows(d) \subseteq Slot
<1> DEFINE g == [p \in Card \X Zone |-> <<d, p[1], p[2]>>]
<1>1. IsFiniteSet(Card \X Zone)
  BY DecklistsAssumption, FS_Product DEF DecklistsAssumption
<1>2. g \in Surjection(Card \X Zone, CardSlots(d))
  <2>1. ASSUME NEW p \in Card \X Zone PROVE g[p] \in CardSlots(d)
    BY DEF CardSlots, Slot, DeckOf
  <2>2. ASSUME NEW s \in CardSlots(d) PROVE \E p \in Card \X Zone : g[p] = s
    <3>1. <<s[2], s[3]>> \in Card \X Zone /\ g[<<s[2], s[3]>>] = s
      BY DEF CardSlots, Slot, DeckOf
    <3> QED BY <3>1
  <2>3. g \in [Card \X Zone -> CardSlots(d)]
    BY <2>1
  <2> HIDE DEF g
  <2> QED BY <2>2, <2>3 DEF Surjection
<1> HIDE DEF g
<1>3. IsFiniteSet(CardSlots(d))
  BY <1>1, <1>2, FS_Surjection
<1>4. DeckRows(d) \subseteq CardSlots(d) /\ CardSlots(d) \subseteq Slot
  BY DEF DeckRows, CardSlots
<1> QED BY <1>3, <1>4, FS_Subset

(* The copies of a row that the first k cuts take, and those the first k    *)
(* adds bring.                                                              *)
CutBy(cuts, k, s) ==
  Sums!SumFunction([n \in {n \in 1 .. k : cuts[n].slot = s} |-> cuts[n].quantity])

AddedBy(adds, k) == Sums!SumFunction([n \in 1 .. k |-> adds[n].quantity])

LEMMA NoneYet ==
  ASSUME NEW cuts, NEW adds, NEW s
  PROVE  CutBy(cuts, 0, s) = 0 /\ AddedBy(adds, 0) = 0
<1> DEFINE none == {n \in 1 .. 0 : cuts[n].slot = s}
<1>1. none = {} /\ [n \in none |-> cuts[n].quantity] \in [{} -> Nat]
  OBVIOUS
<1>2. [n \in 1 .. 0 |-> adds[n].quantity] \in [{} -> Nat]
  OBVIOUS
<1> QED BY <1>1, <1>2, SumOfNone DEF CutBy, AddedBy

LEMMA CutsTaken ==
  ASSUME NEW cuts, NEW s, NEW k \in Nat, \A n \in 1 .. k : cuts[n].quantity \in Nat
  PROVE  LET taken == {n \in 1 .. k : cuts[n].slot = s}
         IN  IsFiniteSet(taken) /\ [n \in taken |-> cuts[n].quantity] \in [taken -> Nat]
<1>1. IsFiniteSet(1 .. k)
  BY FS_Interval
<1>2. {n \in 1 .. k : cuts[n].slot = s} \in SUBSET (1 .. k)
  OBVIOUS
<1>3. IsFiniteSet({n \in 1 .. k : cuts[n].slot = s})
  BY <1>1, <1>2, FS_Subset
<1> QED BY <1>3

LEMMA CutByType ==
  ASSUME NEW cuts, NEW s, NEW k \in Nat, \A n \in 1 .. k : cuts[n].quantity \in Nat
  PROVE  CutBy(cuts, k, s) \in Nat
<1> DEFINE taken == {n \in 1 .. k : cuts[n].slot = s}
           f == [n \in taken |-> cuts[n].quantity]
<1>1. IsFiniteSet(taken) /\ f \in [taken -> Nat]
  BY CutsTaken
<1>2. CutBy(cuts, k, s) = Sums!SumFunction(f)
  BY DEF CutBy
<1> HIDE DEF f, taken
<1> QED BY <1>1, <1>2, SumType

LEMMA CutByOneMore ==
  ASSUME NEW cuts, NEW s, NEW k \in Nat, \A n \in 1 .. k + 1 : cuts[n].quantity \in Nat
  PROVE  /\ CutBy(cuts, k, s) \in Nat
         /\ CutBy(cuts, k + 1, s) = IF cuts[k + 1].slot = s
                                    THEN CutBy(cuts, k, s) + cuts[k + 1].quantity
                                    ELSE CutBy(cuts, k, s)
<1> DEFINE N(m) == {n \in 1 .. m : cuts[n].slot = s}
           f(m) == [n \in N(m) |-> cuts[n].quantity]
<1>1. \A n \in 1 .. k : n \in 1 .. k + 1
  OBVIOUS
<1>2. IsFiniteSet(N(k)) /\ f(k) \in [N(k) -> Nat] /\ CutBy(cuts, k, s) \in Nat
  BY <1>1, CutsTaken, CutByType
<1>3. CutBy(cuts, k, s) = Sums!SumFunction(f(k)) /\ CutBy(cuts, k + 1, s) = Sums!SumFunction(f(k + 1))
  BY DEF CutBy
<1>5. CASE cuts[k + 1].slot = s
  <2>1. N(k + 1) = N(k) \cup {k + 1} /\ k + 1 \notin N(k)
    BY <1>5
  <2>2. f(k + 1) \in [N(k) \cup {k + 1} -> Nat]
    <3>1. ASSUME NEW n \in N(k + 1) PROVE cuts[n].quantity \in Nat
      OBVIOUS
    <3> QED BY <2>1, <3>1
  <2>3. [n \in N(k) |-> f(k + 1)[n]] = f(k) /\ f(k + 1)[k + 1] = cuts[k + 1].quantity
    BY <2>1
  <2> HIDE DEF f, N
  <2>4. Sums!SumFunction(f(k + 1)) = Sums!SumFunction([n \in N(k) |-> f(k + 1)[n]]) + f(k + 1)[k + 1]
    BY <1>2, <2>1, <2>2, SumOfMore
  <2> QED BY <1>2, <1>3, <1>5, <2>3, <2>4
<1>6. CASE cuts[k + 1].slot # s
  <2>1. N(k + 1) = N(k)
    BY <1>6
  <2>2. f(k + 1) = f(k)
    BY <2>1
  <2> HIDE DEF f, N
  <2> QED BY <1>2, <1>3, <1>6, <2>2
<1> QED BY <1>5, <1>6

LEMMA AddedByOneMore ==
  ASSUME NEW adds, NEW k \in Nat, \A n \in 1 .. k + 1 : adds[n].quantity \in Nat
  PROVE  /\ AddedBy(adds, k) \in Nat
         /\ AddedBy(adds, k + 1) = AddedBy(adds, k) + adds[k + 1].quantity
<1> DEFINE f(m) == [n \in 1 .. m |-> adds[n].quantity]
<1>1. IsFiniteSet(1 .. k) /\ f(k) \in [1 .. k -> Nat]
  <2>1. \A n \in 1 .. k : n \in 1 .. k + 1
    OBVIOUS
  <2> QED BY <2>1, FS_Interval
<1>2. AddedBy(adds, k) = Sums!SumFunction(f(k)) /\ AddedBy(adds, k + 1) = Sums!SumFunction(f(k + 1))
  BY DEF AddedBy
<1>3. 1 .. k + 1 = (1 .. k) \cup {k + 1} /\ k + 1 \notin 1 .. k
  OBVIOUS
<1>4. f(k + 1) \in [(1 .. k) \cup {k + 1} -> Nat]
  BY <1>3
<1>5. [n \in 1 .. k |-> f(k + 1)[n]] = f(k) /\ f(k + 1)[k + 1] = adds[k + 1].quantity
  BY <1>3
<1> HIDE DEF f
<1>6. /\ Sums!SumFunction([n \in 1 .. k |-> f(k + 1)[n]]) \in Nat
      /\ Sums!SumFunction(f(k + 1)) = Sums!SumFunction([n \in 1 .. k |-> f(k + 1)[n]]) + f(k + 1)[k + 1]
  BY <1>1, <1>3, <1>4, SumOfMore
<1> QED BY <1>2, <1>5, <1>6

(* After n cuts a row lists what the first n cuts leave of it.              *)
CutThrough(cuts, n, d, db) ==
  \A r \in DeckRows(d) : db.cards[r].quantity = Monus(cards[r].quantity, CutBy(cuts, n, r))

LEMMA CutStage ==
  ASSUME FitInv, NEW d \in Deck, NEW cuts, NEW n \in Nat,
         \A m \in 1 .. n + 1 : cuts[m] \in Cut,
         NEW db \in Good, CutThrough(cuts, n, d, db), NEW new \in ApplyCut(db, cuts[n + 1])
  PROVE  CutThrough(cuts, n + 1, d, new)
<1> SUFFICES ASSUME NEW r \in DeckRows(d)
             PROVE  new.cards[r].quantity = Monus(cards[r].quantity, CutBy(cuts, n + 1, r))
  BY DEF CutThrough
<1> DEFINE cut == cuts[n + 1]
<1>1. r \in Slot /\ InDeck(r) /\ cut \in Cut
  BY DEF DeckRows, CardSlots
<1>2. \A m \in 1 .. n + 1 : cuts[m].quantity \in Nat
  BY QuantityAssumption DEF QuantityAssumption, Cut
<1>3. /\ CutBy(cuts, n, r) \in Nat
      /\ CutBy(cuts, n + 1, r) = IF cut.slot = r THEN CutBy(cuts, n, r) + cut.quantity
                                 ELSE CutBy(cuts, n, r)
  BY <1>2, CutByOneMore
<1>4. db.cards[r].quantity = Monus(cards[r].quantity, CutBy(cuts, n, r))
  BY DEF CutThrough
<1>5. new.cards[r].quantity
        = IF r = cut.slot THEN Monus(db.cards[r].quantity, cut.quantity) ELSE db.cards[r].quantity
  BY <1>1, CutCounts
<1>6. cards[r].quantity \in Nat /\ cut.quantity \in Nat
  BY <1>1, <1>2, FitParts
<1> HIDE DEF cut
<1> QED BY <1>3, <1>4, <1>5, <1>6 DEF Monus

LEMMA AddStage ==
  ASSUME NEW d \in Deck, NEW add \in Add, DeckOf(add.slot) = d,
         NEW db \in Good, NEW new \in ApplyAdd(db, add)
  PROVE  Counted(new.cards, d) = Counted(db.cards, d) + add.quantity
<1> DEFINE f == [r \in DeckRows(d) |-> db.cards[r].quantity]
           g == [r \in DeckRows(d) |-> new.cards[r].quantity]
           t == In(add.slot, "mainboard")
<1>1. t \in DeckRows(d) /\ add.quantity \in Nat
  BY QuantityAssumption DEF QuantityAssumption, Add, DeckRows, CardSlots, InDeck, In, DeckOf, ZoneOf
<1>2. \A r \in DeckRows(d) : r \in Slot /\ InDeck(r)
  BY DEF DeckRows, CardSlots
<1>3. new \in Good
  BY AddGood
<1>4. /\ f \in [DeckRows(d) -> Nat] /\ g \in [DeckRows(d) -> Nat]
  <2>1. \A r \in DeckRows(d) : db.cards[r].quantity \in Nat /\ new.cards[r].quantity \in Nat
    BY <1>2, <1>3, GoodParts
  <2> QED BY <2>1
<1>5. \A r \in DeckRows(d) : g[r] = IF r = t THEN f[r] + add.quantity ELSE f[r]
  BY <1>2, AddCounts
<1>6. IsFiniteSet(DeckRows(d))
  BY RowsFinite
<1>7. Counted(db.cards, d) = Sums!SumFunction(f) /\ Counted(new.cards, d) = Sums!SumFunction(g)
  BY DEF Counted
<1> HIDE DEF f, g, t
<1>8. Sums!SumFunction(g) = Sums!SumFunction(f) + add.quantity
  BY <1>1, <1>4, <1>5, <1>6, SumChanged
<1> QED BY <1>7, <1>8

(* What preview counts on the deck before any entry is applied is what      *)
(* applying them all leaves.                                                *)
LEMMA SwapCounts ==
  ASSUME FitInv, IdleEmpty(allocations, cards), NEW d \in Deck,
         NEW cuts \in Cuts(d), NEW adds \in Adds(d), NEW db \in Swapped(cuts, adds)
  PROVE  Counted(db.cards, d) = Preview(d, cuts, adds)
<1> DEFINE C == Len(cuts)
           A == Len(adds)
           Rest == [r \in DeckRows(d) |-> Monus(cards[r].quantity, CutFrom(cuts, r))]
           Base == Sums!SumFunction(Rest)
           Stage == [n \in 0 .. C + A |->
                      {st \in Good :
                         /\ n <= C => CutThrough(cuts, n, d, st)
                         /\ n >= C => Counted(st.cards, d) = Base + AddedBy(adds, n - C)}]
<1>1. /\ C \in Nat /\ \A n \in 1 .. C : cuts[n] \in Cut /\ DeckOf(cuts[n].slot) = d
      /\ A \in Nat /\ \A n \in 1 .. A : adds[n] \in Add /\ DeckOf(adds[n].slot) = d
      /\ DOMAIN cuts = 1 .. C /\ DOMAIN adds = 1 .. A
  <2>1. /\ C \in Nat /\ DOMAIN cuts = 1 .. C
        /\ \A n \in 1 .. C : cuts[n] \in {cut \in Cut : cut.quantity <= cards[cut.slot].quantity}
                             /\ DeckOf(cuts[n].slot) = d
    BY RequestTypes DEF Cuts
  <2>2. /\ A \in Nat /\ DOMAIN adds = 1 .. A
        /\ \A n \in 1 .. A :
             /\ adds[n] \in {add \in Add : ByName(add) \/ add.quantity <= cards[add.slot].quantity}
             /\ DeckOf(adds[n].slot) = d
    BY RequestTypes DEF Adds
  <2> QED BY <2>1, <2>2
<1>2. /\ \A n \in 1 .. C : cuts[n].quantity \in Nat
      /\ \A n \in 1 .. A : adds[n].quantity \in Nat
  BY <1>1, QuantityAssumption DEF QuantityAssumption, Cut, Add
<1>3. \A r \in DeckRows(d) : CutFrom(cuts, r) = CutBy(cuts, C, r)
  BY <1>1 DEF CutFrom, CutBy
<1>4. Preview(d, cuts, adds) = Base + AddedBy(adds, A)
  BY <1>1 DEF Preview, AddedBy
<1> HIDE DEF C, A
<1>4a. Base \in Nat
  <2>1. ASSUME NEW r \in DeckRows(d) PROVE Monus(cards[r].quantity, CutFrom(cuts, r)) \in Nat
    <3>1. cards[r].quantity \in Nat
      BY FitParts DEF DeckRows, CardSlots
    <3>2. CutFrom(cuts, r) \in Nat
      BY <1>1, <1>2, <1>3, CutByType
    <3> QED BY <3>1, <3>2 DEF Monus
  <2>2. Rest \in [DeckRows(d) -> Nat]
    BY <2>1
  <2> HIDE DEF Rest
  <2> QED BY <2>2, RowsFinite, SumType
(* Between the last cut and the first add.                                  *)
<1>5. ASSUME NEW st \in Good, CutThrough(cuts, C, d, st)
      PROVE  Counted(st.cards, d) = Base + AddedBy(adds, 0)
  <2>1. \A r \in DeckRows(d) : st.cards[r].quantity = Monus(cards[r].quantity, CutFrom(cuts, r))
    BY <1>3, <1>5 DEF CutThrough
  <2>2. [r \in DeckRows(d) |-> st.cards[r].quantity] = Rest
    BY <2>1
  <2>3. Counted(st.cards, d) = Base
    BY <2>2 DEF Counted
  <2> HIDE DEF Base
  <2> QED BY <1>4a, <2>3, NoneYet
<1>6. database \in Stage[0]
  <2>1. database \in Good /\ database.cards = cards
    BY DatabaseGood DEF database
  <2>2. CutThrough(cuts, 0, d, database)
    <3> SUFFICES ASSUME NEW r \in DeckRows(d)
                 PROVE  cards[r].quantity = Monus(cards[r].quantity, CutBy(cuts, 0, r))
      BY <2>1 DEF CutThrough
    <3>1. CutBy(cuts, 0, r) = 0
      BY NoneYet
    <3>2. cards[r].quantity \in Nat
      BY FitParts DEF DeckRows, CardSlots
    <3> QED BY <3>1, <3>2 DEF Monus
  <2>3. 0 >= C => C = 0 /\ 0 - C = 0
    BY <1>1
  <2>4. 0 >= C => Counted(database.cards, d) = Base + AddedBy(adds, 0 - C)
    BY <1>5, <2>1, <2>2, <2>3
  <2>5. 0 \in 0 .. C + A
    BY <1>1
  <2> HIDE DEF Base
  <2> QED BY <2>1, <2>2, <2>4, <2>5
<1>7. ASSUME NEW n \in 1 .. C + A, NEW st \in Stage[n - 1], NEW new \in Applied(st, cuts, adds, n)
      PROVE  new \in Stage[n]
  <2> HIDE DEF Base
  <2>0. n \in 0 .. C + A /\ n - 1 \in 0 .. C + A /\ n - 1 \in Nat /\ (n - 1) + 1 = n
    BY <1>1
  <2>1. /\ st \in Good
        /\ n - 1 <= C => CutThrough(cuts, n - 1, d, st)
        /\ n - 1 >= C => Counted(st.cards, d) = Base + AddedBy(adds, (n - 1) - C)
    BY <2>0
  <2>2. CASE n <= C
    <3>1. new \in ApplyCut(st, cuts[n])
      BY <2>2 DEF Applied, C
    <3>2. n \in 1 .. C /\ n - 1 <= C /\ \A m \in 1 .. n : m \in 1 .. C
      BY <1>1, <2>2
    <3>3. new \in Good
      BY <1>1, <2>1, <3>1, <3>2, CutGood
    <3>4. CutThrough(cuts, (n - 1) + 1, d, new)
      BY <1>1, <2>0, <2>1, <3>1, <3>2, CutStage
    <3>5. n >= C => n = C /\ n - C = 0
      BY <1>1, <2>2
    <3>6. n >= C => Counted(new.cards, d) = Base + AddedBy(adds, n - C)
      BY <1>5, <2>0, <3>3, <3>4, <3>5
    <3> QED BY <2>0, <3>3, <3>4, <3>6
  <2>3. CASE ~(n <= C)
    <3> DEFINE m == n - C
    <3>1. new \in ApplyAdd(st, adds[m])
      BY <2>3 DEF Applied, C
    <3>2. m \in 1 .. A /\ n - 1 >= C /\ (n - 1) - C = m - 1 /\ m - 1 \in Nat
          /\ (m - 1) + 1 = m /\ \A k \in 1 .. m : k \in 1 .. A
      BY <1>1, <2>3
    <3> HIDE DEF m
    <3>3. adds[m] \in Add /\ DeckOf(adds[m].slot) = d
      BY <1>1, <3>2
    <3>4. new \in Good
      BY <2>1, <3>1, <3>3, AddGood
    <3>5. Counted(new.cards, d) = Counted(st.cards, d) + adds[m].quantity
      BY <2>1, <3>1, <3>3, AddStage
    <3>6. AddedBy(adds, m - 1) \in Nat /\ AddedBy(adds, m) = AddedBy(adds, m - 1) + adds[m].quantity
      <4>1. \A k \in 1 .. (m - 1) + 1 : adds[k].quantity \in Nat
        BY <1>2, <3>2
      <4>2. /\ AddedBy(adds, m - 1) \in Nat
            /\ AddedBy(adds, (m - 1) + 1) = AddedBy(adds, m - 1) + adds[(m - 1) + 1].quantity
        BY <3>2, <4>1, AddedByOneMore
      <4> QED BY <3>2, <4>2
    <3>7. Counted(st.cards, d) = Base + AddedBy(adds, m - 1)
      BY <2>1, <3>2
    <3>8. adds[m].quantity \in Nat
      BY <1>2, <3>2
    <3>9. Counted(new.cards, d) = Base + AddedBy(adds, n - C)
      BY <1>4a, <3>5, <3>6, <3>7, <3>8 DEF m
    <3> QED BY <2>0, <2>3, <3>4, <3>9
  <2> QED BY <2>2, <2>3
<1>8. db \in Stage[C + A]
  <2> HIDE DEF Stage
  <2> QED BY <1>1, <1>6, <1>7, SwappedThrough DEF C, A
<1>9. C + A \in 0 .. C + A /\ C + A >= C /\ (C + A) - C = A
  BY <1>1
<1>10. Counted(db.cards, d) = Base + AddedBy(adds, (C + A) - C)
  <2> HIDE DEF Base
  <2> QED BY <1>8, <1>9
<1> HIDE DEF Base
<1> QED BY <1>4, <1>9, <1>10

(* The count a swap's preview shows, computed from the rows before any      *)
(* entry is applied, is the one applying the entries ends at, for swaps of  *)
(* any length on any deck: whatever is cut, sent to Considering, merged or  *)
(* moved on the way is counted once (swap.rs preview and apply).            *)
THEOREM SwapsEndAsPreviewed == ASSUME ~CardEdits PROVE DecklistsSpec => []SwapAsPreviewed
<1>1. ListsInv /\ [DecklistsNext]_listVars => ListsInv'
  BY ListsStep
<1>2. ListsInv => SwapAsPreviewed
  BY SwapCounts DEF ListsInv, SwapAsPreviewed
<1> QED BY <1>1, <1>2, ListsInit, PTL DEF DecklistsSpec

-----------------------------------------------------------------------------
(* Archived and linked decks: which steps change how many copies of a card  *)
(* a deck lists.                                                            *)
SameNumber(s) == cards'[s].quantity = cards[s].quantity

LEMMA AllocationNumbers ==
  ASSUME Inv, AllocationNext, NEW s \in Slot, ~ListEditable(DeckOf(s))
  PROVE  SameNumber(s)
<1>0. cards \in [Slot -> DeckCard]
  BY InvParts
<1>1. ASSUME NEW t \in Slot, NEW i \in ItemId, NEW q \in 1 .. MaxCopies, Allocate(t, i, q)
      PROVE  SameNumber(s)
  BY <1>0, <1>1 DEF Allocate, SameNumber, DeckCard
<1>2. ASSUME NEW t \in Slot, NEW i \in ItemId, NEW q \in 1 .. MaxCopies, Deallocate(t, i, q)
      PROVE  SameNumber(s)
  BY <1>2 DEF Deallocate, SameNumber
<1>3. ASSUME NEW t \in Slot, NEW q \in 1 .. MaxQuantity,
             AllocateProxy(t, q) \/ DeallocateProxy(t, q)
      PROVE  SameNumber(s)
  BY <1>0, <1>3 DEF AllocateProxy, DeallocateProxy, SameNumber, DeckCard
<1>4. ASSUME NEW S \in SUBSET {t \in Slot : Listed(t)}, BulkDeallocate(S)
      PROVE  SameNumber(s)
  BY <1>0, <1>4 DEF BulkDeallocate, SameNumber, DeckCard
<1>5. ASSUME NEW d \in Deck, Disassemble(d)
      PROVE  SameNumber(s)
  BY <1>5 DEF Disassemble, SameNumber
<1>6. ASSUME NEW d \in Deck, NEW z \in Zone,
             NEW I \in SUBSET {i \in ItemId : items[i].copies > 0}, AddCollectionItems(d, I, z)
      PROVE  SameNumber(s)
  <2> DEFINE slotOf == [i \in I |-> Key(d, CardOf[items[i].printed], z)]
             group(t) == {i \in I : slotOf[i] = t}
             grown(first) == [t \in Slot |->
               IF t \in DOMAIN first
               THEN [quantity |-> cards[t].quantity + Cardinality(group(t)),
                     proxies |-> cards[t].proxies,
                     preferred |-> items[first[t]].printed]
               ELSE cards[t]]
  <2>1. \A i \in I : slotOf[i] # s
    BY <1>6 DEF AddCollectionItems, Key, DeckOf
  <2>2. PICK first \in [{slotOf[i] : i \in I} -> I] : cards' = grown(first)
    BY <1>6 DEF AddCollectionItems
  <2>3. s \notin DOMAIN first
    BY <2>1
  <2>4. ASSUME NEW f, s \notin DOMAIN f PROVE grown(f)[s] = cards[s]
    BY <2>4
  <2> HIDE DEF grown
  <2> QED BY <2>2, <2>3, <2>4 DEF SameNumber
<1> QED BY <1>1, <1>2, <1>3, <1>4, <1>5, <1>6 DEF AllocationNext

LEMMA DeckCardsNumbers ==
  ASSUME Inv, DeckCardsNext, NEW s \in Slot, ~ListEditable(DeckOf(s)),
         status'[DeckOf(s)] # "none"
  PROVE  SameNumber(s)
<1>0. cards \in [Slot -> DeckCard] /\ DOMAIN status = Deck
  BY InvParts
<1>1. ASSUME NEW t \in Slot, NEW total \in 1 .. MaxQuantity, NEW p \in Printing \cup {NoPrinting},
             AddCard(t, total, p)
      PROVE  SameNumber(s)
  <2>1. t # s
    BY <1>1 DEF AddCard
  <2> QED BY <1>0, <1>1, <2>1 DEF AddCard, SameNumber
<1>2. ASSUME NEW t \in Slot, NEW q \in 1 .. MaxQuantity, NEW p \in Printing \cup {NoPrinting},
             ShelveCard(t, q, p)
      PROVE  SameNumber(s)
  <2>1. t # s /\ In(t, "considering") # s
    BY <1>2 DEF ShelveCard, In, DeckOf
  <2> QED BY <1>0, <1>2, <2>1 DEF ShelveCard, SameNumber
<1>3. ASSUME NEW t \in Slot, NEW q \in 1 .. MaxQuantity, NEW z \in Zone,
             NEW p \in Printing \cup {NoPrinting}, UpdateCard(t, q, z, p)
      PROVE  SameNumber(s)
  <2> DEFINE u == In(t, z)
             from == {t} \ {u}
             row == [quantity |-> q, proxies |-> ProxiesAt(t, q), preferred |-> p]
  <2>1. DeckOf(t) # DeckOf(s)
    BY <1>3 DEF UpdateCard
  <2>2. u # s /\ from \in SUBSET Slot /\ \A r \in from : DeckOf(r) # DeckOf(s)
    BY <2>1 DEF In, DeckOf
  <2>3. cards' = [MovedCards(cards, from, z) EXCEPT ![u] = row]
    BY <1>3 DEF UpdateCard
  <2> HIDE DEF u, from, row
  <2>4. cards'[s] = MovedCards(cards, from, z)[s]
    BY <2>2, <2>3 DEF MovedCards
  <2> QED BY <2>2, <2>4, MovedOthers DEF SameNumber
<1>4. ASSUME NEW S \in SUBSET {t \in Slot : Listed(t)},
             \/ DeleteCards(S)
             \/ \E cheapest \in [S -> Printing] : OptimizePrintings(S, cheapest)
      PROVE  SameNumber(s)
  <2>1. s \notin S
    BY <1>4 DEF DeleteCards, OptimizePrintings
  <2> QED BY <1>4, <2>1 DEF DeleteCards, OptimizePrintings, SameNumber
<1>5. ASSUME NEW t \in Slot, SetCommander(t)
      PROVE  SameNumber(s)
  <2> DEFINE others == {r \in CardSlots(DeckOf(t)) : ZoneOf(r) = "commander" /\ Listed(r)} \ {t}
             self == {t} \ {In(t, "commander")}
             stepped == MovedCards(cards, others, "mainboard")
  <2>1. DeckOf(t) # DeckOf(s)
    BY <1>5 DEF SetCommander
  <2>2. /\ others \in SUBSET Slot /\ \A r \in others : DeckOf(r) # DeckOf(s)
        /\ self \in SUBSET Slot /\ \A r \in self : DeckOf(r) # DeckOf(s)
    BY <2>1 DEF CardSlots
  <2>3. cards' = MovedCards(stepped, self, "commander")
    BY <1>5 DEF SetCommander
  <2> HIDE DEF others, self
  <2>4. stepped[s] = cards[s]
    BY <2>2, MovedOthers
  <2> HIDE DEF stepped
  <2>5. MovedCards(stepped, self, "commander")[s] = stepped[s]
    BY <2>2, MovedOthers
  <2> QED BY <2>3, <2>4, <2>5 DEF SameNumber
<1>6. ASSUME NEW t \in Slot, AddPartner(t)
      PROVE  SameNumber(s)
  <2>1. \A r \in {t} : DeckOf(r) # DeckOf(s)
    BY <1>6 DEF AddPartner
  <2>2. MovedCards(cards, {t}, "commander")[s] = cards[s]
    BY <2>1, MovedOthers, {t} \in SUBSET Slot
  <2> QED BY <1>6, <2>2 DEF AddPartner, SameNumber
<1>7. ASSUME NEW d \in Deck, NEW new \in {"active", "archived"},
             CreateDeck(d, new) \/ SetStatus(d, new)
      PROVE  SameNumber(s)
  BY <1>7 DEF CreateDeck, SetStatus, SameNumber
<1>8. ASSUME NEW d \in Deck, DeleteDeck(d)
      PROVE  SameNumber(s)
  <2>1. DeckOf(s) # d
    BY <1>0, <1>8 DEF DeleteDeck
  <2> QED BY <1>8, <2>1 DEF DeleteDeck, SameNumber
<1> QED BY <1>1, <1>2, <1>3, <1>4, <1>5, <1>6, <1>7, <1>8 DEF DeckCardsNext

(* A remote list is written to its own deck only.                           *)
LEMMA WriteEntriesNumbers ==
  ASSUME NEW d \in Deck, NEW remote, WriteEntries(d, remote), NEW s \in Slot, DeckOf(s) # d
  PROVE  SameNumber(s)
<1> DEFINE wanted(t) == remote[<<CardIn(t), ZoneOf(t)>>]
           existing == {t \in CardSlots(d) : Listed(t)}
           desired == {t \in CardSlots(d) : wanted(t).quantity > 0}
<1>1. s \notin existing /\ s \notin desired
  BY DEF CardSlots
<1>2. PICK carry \in Carries(existing \ desired, desired \ existing) :
        \E preferred \in [desired -> Printing \cup {NoPrinting}] :
          cards' = [t \in Slot |->
                     IF t \in desired
                     THEN [quantity |-> wanted(t).quantity,
                           proxies |-> IF Shelved(carry, t) THEN 0
                                       ELSE ProxiesAt(Origin(carry, t), wanted(t).quantity),
                           preferred |-> preferred[t]]
                     ELSE IF t \in existing THEN NoCard ELSE cards[t]]
  BY DEF WriteEntries
<1> HIDE DEF existing, desired
<1>3. cards'[s] = cards[s]
  BY <1>1, <1>2
<1> QED BY <1>3 DEF SameNumber

(* While a deck is archived or linked, no operation but the sync of its     *)
(* remote list, and what a request that read the deck earlier still writes, *)
(* changes how many copies of a card it lists; and a swap that comes so     *)
(* late only adds cards by name (decks/mod.rs:107 and 116, swap.rs:265,     *)
(* decklist.rs:276).                                                        *)
THEOREM GuardedListsStayKept == ASSUME ~CardEdits PROVE DecklistsSpec => GuardedListsKept
<1> DEFINE Ends(d, r) == <<d, r>> \in (fetching \cup pending) \ (fetching' \cup pending')
           Kept(s) == LET d == DeckOf(s)
                      IN  /\ status[d] = "archived" \/ linked[d]
                          /\ status'[d] # "none"
                          /\ cards'[s].quantity # cards[s].quantity
                          => \/ Ends(d, "link") \/ Ends(d, "sync") \/ Ends(d, "import")
                             \/ Ends(d, "swap") /\ cards'[s].quantity > cards[s].quantity
<1>1. ASSUME ListsInv, DecklistsNext, NEW s \in Slot
      PROVE  Kept(s)
  <2> DEFINE d == DeckOf(s)
  <2> SUFFICES ASSUME status[d] = "archived" \/ linked[d], status'[d] # "none", ~SameNumber(s)
               PROVE  \/ Ends(d, "link") \/ Ends(d, "sync") \/ Ends(d, "import")
                      \/ Ends(d, "swap") /\ cards'[s].quantity > cards[s].quantity
    BY DEF SameNumber
  <2>0. /\ ~ListEditable(d) /\ Inv
        /\ fetching \subseteq Deck \X {"link", "sync"} /\ pending \subseteq Deck \X {"import", "swap"}
    BY <1>1 DEF ListEditable, Editable, ListsInv, FitInv, PendingOK, Pending, Fetch
  <2>1. CASE (AllocationNext \/ DeckCardsNext) /\ OthersKeepFetches
    BY <2>0, <2>1, AllocationNumbers, DeckCardsNumbers
  <2>2. CASE CollectionNext
    <3>1. cards' = cards
      BY <2>2 DEF CollectionNext, CreateItem, UpdateItem, DeleteItems, CreateLocation, SetKind,
                  DeleteLocation
    <3> QED BY <3>1 DEF SameNumber
  <2>3. CASE ExternalNext /\ OthersKeepRequests
    <3>1. PICK e \in Deck, remote \in RemoteLists : ApplyLink(e, remote) \/ ApplySync(e, remote)
      BY <2>3 DEF ExternalNext, BeginLink, BeginSync, FetchFails, Unlink, SameNumber
    <3>2. e = d
      BY <3>1, WriteEntriesNumbers DEF ApplyLink, ApplySync
    <3>3. pending' \subseteq pending
      BY <2>3 DEF OthersKeepRequests
    <3>4. <<d, "link">> \notin pending /\ <<d, "sync">> \notin pending
      BY <2>0
    <3> QED BY <3>1, <3>2, <3>3, <3>4 DEF ApplyLink, ApplySync
  <2>4. ASSUME NEW e \in Deck, NEW list \in ParsedLists(e), NEW replace \in BOOLEAN,
               ImportDecklist(e, list, replace)
        PROVE  Ends(d, "import")
    <3>1. e = d
      BY <1>1, <2>4, ImportGood DEF SameNumber
    <3>2. /\ <<d, "import">> \in pending /\ pending' = pending \ {<<d, "import">>}
          /\ fetching' = fetching
      BY <2>4, <3>1 DEF ImportDecklist
    <3> QED BY <2>0, <3>2
  <2>5. ASSUME NEW e \in Deck, NEW cuts \in Cuts(e), NEW adds \in Adds(e), ApplySwap(e, cuts, adds)
        PROVE  Ends(d, "swap") /\ cards'[s].quantity > cards[s].quantity
    <3>1. PICK db \in Swapped(cuts, adds) : Commit(db)
      BY <2>5 DEF ApplySwap
    <3>2. cards' = db.cards
      BY <3>1 DEF Commit
    <3>3. e = d
      BY <1>1, <2>5, <3>1, <3>2, SwapGood DEF SameNumber, ListsInv
    <3>4. cuts = <<>> /\ \A n \in DOMAIN adds : ByName(adds[n])
      BY <2>0, <2>5, <3>3 DEF ApplySwap
    <3>5. cards'[s].quantity >= cards[s].quantity
      BY <1>1, <2>5, <3>1, <3>2, <3>4, SwapGood DEF ListsInv
    <3>6. cards'[s].quantity \in Nat /\ cards[s].quantity \in Nat
      BY <1>1, <2>5, <3>1, <3>2, SwapGood, GoodParts, FitParts DEF ListsInv
    <3>7. /\ <<d, "swap">> \in pending /\ pending' = pending \ {<<d, "swap">>}
          /\ fetching' = fetching
      BY <2>5, <3>3 DEF ApplySwap
    <3> QED BY <2>0, <3>5, <3>6, <3>7 DEF SameNumber
  <2>6. ~ UNCHANGED vars
    BY DEF vars, SameNumber
  <2>7. CASE RequestsNext
    BY <2>4, <2>5, <2>6, <2>7 DEF RequestsNext, BeginImport, BeginSwap, RequestFails
  <2> QED BY <1>1, <2>1, <2>2, <2>3, <2>7 DEF DecklistsNext, Next
<1>2. ListsInv /\ [DecklistsNext]_listVars => [\A s \in Slot : Kept(s)]_cards
  <2>1. UNCHANGED listVars => UNCHANGED cards
    BY DEF listVars
  <2> HIDE DEF Kept
  <2> QED BY <1>1, <2>1
<1>3. ListsInv /\ [DecklistsNext]_listVars => ListsInv'
  BY ListsStep
<1>4. [][\A s \in Slot : Kept(s)]_cards => GuardedListsKept
  BY PTL DEF GuardedListsKept
<1> HIDE DEF Kept
<1> QED BY <1>2, <1>3, <1>4, ListsInit, PTL DEF DecklistsSpec
=============================================================================
