------------------------------ MODULE PullList ------------------------------
(***************************************************************************)
(* The pull list of a deck (pages/decks/deck-allocation-model.ts and its   *)
(* dialog): which physical copies to grab for the cards the deck is short  *)
(* of.  Copies of the requested printing come first; for the rest one      *)
(* choice per copy is offered among the other printings, which the user    *)
(* may change or skip before the list is sent to the server.               *)
(*                                                                         *)
(* The server's half (manavault-allocation bulk.rs) gives the entries one  *)
(* after the other and skips those that do not fit any more.  What the     *)
(* dialog says of the last answer is left out.                             *)
(***************************************************************************)
EXTENDS Naturals, Filters

CONSTANTS
  PullCards,    \* the mainboard cards of the deck, in their order
  Candidates,   \* for each, the items that show the card, in their order
  Exact,        \* for each, the items of the requested printing
  PullItem,     \* collection items
  MaxFree,      \* bound: free copies of an item
  MaxNeed,      \* bound: copies each card lacks
  NoItem

ASSUME PullAssumption ==
  /\ IsInjective(PullCards) /\ PullCards \in Seq(ToSet(PullCards))
  /\ \A c \in ToSet(PullCards) : IsInjective(Candidates[c]) /\ Candidates[c] \in Seq(PullItem)
  /\ MaxFree \in Nat \ {0} /\ MaxNeed \in [ToSet(PullCards) -> Nat \ {0}]
  /\ NoItem \notin PullItem

PullCard == ToSet(PullCards)

(* pullListEntryId and pullListChoiceId.                                    *)
EntryIds  == [card : PullCard, item : PullItem]
ChoiceIds == {id \in [card : PullCard, first : PullItem, index : Nat] : id.index < MaxNeed[id.card]}

VARIABLES
  pullOpen,         \* the dialog is up
  pullMode,         \* "any" printing or the "exact" one only
  selectedItemIds,  \* choices the user made
  excludedEntryIds, \* entries the user skips
  bulkAllocating,   \* the entries on their way to the server
  deckView,         \* the deck as the page last read it
  storedDeck,       \* the deck on the server
  sentList          \* history: whether the list on its way is of the deck as it is, and
                    \* whether the server skipped an entry of one that was

pullVars == <<pullOpen, pullMode, selectedItemIds, excludedEntryIds, bulkAllocating,
              deckView, storedDeck, sentList>>

Needs == {need \in [PullCard -> UNION {0 .. MaxNeed[c] : c \in PullCard}] :
            \A c \in PullCard : need[c] <= MaxNeed[c]}

Decks == [free : [PullItem -> 0 .. MaxFree], need : Needs]

Least(a, b) == IF a < b THEN a ELSE b
Total(numbers) == FoldLeft(LAMBDA n, m : n + m, 0, numbers)
SumOf(f, items) == Total([k \in DOMAIN items |-> f[items[k]]])

-----------------------------------------------------------------------------
(* createDeckPullList.  A list under construction knows what it has used of *)
(* each item and what the card at hand still lacks.                         *)
EmptyPullList == [entries |-> <<>>, choices |-> <<>>, used |-> [i \in PullItem |-> 0],
                  needed |-> 0, skipped |-> 0, remaining |-> 0]

Remaining(free, used) ==
  [i \in PullItem |-> IF used[i] < free[i] THEN free[i] - used[i] ELSE 0]

TakeExact(free, c, list, i) ==
  LET n == Least(list.remaining, Remaining(free, list.used)[i])
  IN  IF n = 0 THEN list
      ELSE [list EXCEPT !.entries = Append(@, [id |-> [card |-> c, item |-> i],
                                               card |-> c, item |-> i, quantity |-> n]),
                        !.used[i] = @ + n, !.remaining = @ - n]

TakeAllExact(free, c, list, items) ==
  FoldLeft(LAMBDA l, i : TakeExact(free, c, l, i), list, items)

(* selectedItemIdForChoice: what the user chose while it is still on offer, *)
(* else the first item with a copy left.                                    *)
SelectedItem(free, used, selections, id, others) ==
  LET left == Among(others, {i \in PullItem : Remaining(free, used)[i] > 0})
  IN  IF id \in DOMAIN selections /\ selections[id] \in ToSet(others) THEN selections[id]
      ELSE IF left = <<>> THEN NoItem ELSE Head(left)

AddChoice(free, selections, c, others, list, index) ==
  LET id   == [card |-> c, first |-> Head(others), index |-> index]
      item == SelectedItem(free, list.used, selections, id, others)
  IN  [list EXCEPT !.choices = Append(@, [id |-> id, card |-> c, others |-> others, item |-> item]),
                   !.used = [i \in PullItem |-> IF i = item THEN @[i] + 1 ELSE @[i]]]

AddChoices(free, selections, c, others, list, indexes) ==
  FoldLeft(LAMBDA l, k : AddChoice(free, selections, c, others, l, k), list, indexes)

AddCard(deck, selections, mode, list, c) ==
  LET start  == [list EXCEPT !.needed = @ + deck.need[c], !.remaining = deck.need[c]]
      exact  == TakeAllExact(deck.free, c, start, Among(Candidates[c], Exact[c]))
      left   == Remaining(deck.free, exact.used)
      others == Among(Candidates[c], {i \in PullItem \ Exact[c] : left[i] > 0})
      count  == IF mode = "exact" THEN 0 ELSE Least(exact.remaining, SumOf(left, others))
      full   == AddChoices(deck.free, selections, c, others, exact, [k \in 1 .. count |-> k - 1])
  IN  [full EXCEPT !.skipped = @ + exact.remaining - count, !.remaining = 0]

CreatePullList(deck, selections, mode) ==
  FoldLeft(LAMBDA l, c : AddCard(deck, selections, mode, l, c), EmptyPullList, PullCards)

ShownList == CreatePullList(deckView, selectedItemIds, pullMode)

(* selectedDeckPullListEntries and allocatableDeckPullListEntries: a choice  *)
(* is one copy, and an unresolved one gives no entry.                       *)
CopyOf(choice) ==
  [id |-> choice.id, card |-> choice.card, item |-> choice.item, quantity |-> 1]

Offered(list) == list.entries \o [k \in DOMAIN list.choices |-> CopyOf(list.choices[k])]

Allocatable(list, excluded) ==
  Among(Offered(list), {e \in ToSet(Offered(list)) : e.item # NoItem /\ e.id \notin excluded})

OfItem(entries, i) ==
  Total([k \in DOMAIN entries |-> IF entries[k].item = i THEN entries[k].quantity ELSE 0])

(* deckPullListSelectionError.  Seeded fault: only missing choices count.   *)
NoChoiceMissing(deck, list, excluded) ==
  \A k \in DOMAIN list.choices : list.choices[k].id \in excluded \/ list.choices[k].item # NoItem

SelectionFits(deck, list, excluded) ==
  /\ \A k \in DOMAIN list.choices : list.choices[k].id \in excluded \/ list.choices[k].item # NoItem
  /\ LET entries == Allocatable(list, excluded)
     IN  \A i \in PullItem : OfItem(entries, i) <= deck.free[i]

-----------------------------------------------------------------------------
PullType ==
  /\ pullOpen \in BOOLEAN
  /\ sentList \in {"fresh", "outdated", "skipped fresh"}
  /\ pullMode \in {"any", "exact"}
  /\ DOMAIN selectedItemIds \subseteq ChoiceIds
  /\ \A id \in DOMAIN selectedItemIds : selectedItemIds[id] \in PullItem
  /\ excludedEntryIds \subseteq EntryIds \cup ChoiceIds
  /\ \A k \in DOMAIN bulkAllocating : bulkAllocating[k].quantity \in 1 .. MaxNeed[bulkAllocating[k].card]
  /\ {deckView, storedDeck} \subseteq Decks

FreshOverlay ==
  /\ pullMode' = "any" /\ selectedItemIds' = <<>> /\ excludedEntryIds' = {}

PullInit ==
  /\ storedDeck \in Decks
  /\ deckView = storedDeck
  /\ pullOpen = FALSE /\ pullMode = "any" /\ selectedItemIds = <<>> /\ excludedEntryIds = {}
  /\ bulkAllocating = <<>> /\ sentList = "outdated"

Pending == bulkAllocating # <<>>

(* bulkAllocationOverlay.                                                   *)
OpenPullList ==
  /\ ~pullOpen /\ ~Pending
  /\ pullOpen' = TRUE /\ FreshOverlay
  /\ UNCHANGED <<bulkAllocating, deckView, storedDeck, sentList>>

(* onClose does nothing while entries are on their way.                     *)
ClosePullList ==
  /\ pullOpen /\ ~Pending
  /\ pullOpen' = FALSE /\ FreshOverlay
  /\ UNCHANGED <<bulkAllocating, deckView, storedDeck, sentList>>

(* onModeChange forgets what the user chose.                                *)
ChangeMode ==
  /\ pullOpen
  /\ pullMode' = IF pullMode = "any" THEN "exact" ELSE "any"
  /\ selectedItemIds' = <<>> /\ excludedEntryIds' = {}
  /\ UNCHANGED <<pullOpen, bulkAllocating, deckView, storedDeck, sentList>>

(* onSelectChoice, among the items offered for that choice.                 *)
SelectChoice ==
  /\ pullOpen
  /\ \E choice \in ToSet(ShownList.choices) : \E i \in ToSet(choice.others) :
       selectedItemIds' = [id \in DOMAIN selectedItemIds \cup {choice.id} |->
                             IF id = choice.id THEN i ELSE selectedItemIds[id]]
  /\ UNCHANGED <<pullOpen, pullMode, excludedEntryIds, bulkAllocating, deckView, storedDeck,
                 sentList>>

(* onToggleEntry.                                                           *)
ToggleEntry ==
  /\ pullOpen
  /\ \E id \in {e.id : e \in ToSet(ShownList.entries) \cup ToSet(ShownList.choices)} :
       excludedEntryIds' = IF id \in excludedEntryIds THEN excludedEntryIds \ {id}
                           ELSE excludedEntryIds \cup {id}
  /\ UNCHANGED <<pullOpen, pullMode, selectedItemIds, bulkAllocating, deckView, storedDeck,
                 sentList>>

(* allocatePullList, behind disableConfirm.                                 *)
Confirm ==
  /\ pullOpen /\ ~Pending
  /\ LET list == ShownList
     IN  /\ Allocatable(list, excludedEntryIds) # <<>>
         /\ SelectionFits(deckView, list, excludedEntryIds)
         /\ bulkAllocating' = Allocatable(list, excludedEntryIds)
  /\ sentList' = IF deckView = storedDeck THEN "fresh" ELSE "outdated"
  /\ UNCHANGED <<pullOpen, pullMode, selectedItemIds, excludedEntryIds, deckView,
                 storedDeck>>

(* bulk.rs: entry after entry; one that does not fit is skipped.            *)
GiveEntry(result, e) ==
  IF e.quantity <= result.deck.free[e.item] /\ e.quantity <= result.deck.need[e.card]
  THEN [result EXCEPT !.deck.free[e.item] = @ - e.quantity, !.deck.need[e.card] = @ - e.quantity]
  ELSE [result EXCEPT !.skipped = TRUE]

(* The answer: the dialog closes unless entries were skipped.  A refetch is *)
(* started in any case and not waited for.                                  *)
AnswerAllocation ==
  LET result == FoldLeft(GiveEntry, [deck |-> storedDeck, skipped |-> FALSE], bulkAllocating)
  IN  /\ Pending
      /\ bulkAllocating' = <<>>
      /\ storedDeck' = result.deck
      /\ sentList' = IF result.skipped /\ sentList = "fresh" THEN "skipped fresh" ELSE "outdated"
      /\ IF result.skipped
         THEN UNCHANGED <<pullOpen, pullMode, selectedItemIds, excludedEntryIds>>
         ELSE pullOpen' = FALSE /\ FreshOverlay
      /\ UNCHANGED deckView

(* The mutation fails.                                                      *)
FailAllocation ==
  /\ Pending
  /\ bulkAllocating' = <<>> /\ sentList' = "outdated"
  /\ UNCHANGED <<pullOpen, pullMode, selectedItemIds, excludedEntryIds, deckView, storedDeck>>

(* Somebody else takes a copy, or the deck gets one it lacked - one change  *)
(* between two refetches (bound).                                           *)
ChangeElsewhere ==
  /\ storedDeck = deckView
  /\ \/ \E i \in PullItem : /\ storedDeck.free[i] > 0
                            /\ storedDeck' = [storedDeck EXCEPT !.free[i] = @ - 1]
     \/ \E c \in PullCard : /\ storedDeck.need[c] > 0
                            /\ storedDeck' = [storedDeck EXCEPT !.need[c] = @ - 1]
  /\ sentList' = "outdated"
  /\ UNCHANGED <<pullOpen, pullMode, selectedItemIds, excludedEntryIds, bulkAllocating,
                 deckView>>

(* A refetch of the deck, also under the open dialog.                       *)
RefetchDeck ==
  /\ deckView # storedDeck
  /\ deckView' = storedDeck
  /\ UNCHANGED <<pullOpen, pullMode, selectedItemIds, excludedEntryIds, bulkAllocating,
                 storedDeck, sentList>>

PullNext ==
  \/ OpenPullList \/ ClosePullList \/ ChangeMode \/ SelectChoice \/ ToggleEntry
  \/ Confirm \/ AnswerAllocation \/ FailAllocation \/ ChangeElsewhere \/ RefetchDeck

-----------------------------------------------------------------------------
(* The server never skips an entry of a list that was made from the deck as *)
(* it still is: however the user chose and skipped, what the dialog lets    *)
(* through fits the free copies and the cards' needs together.              *)
FreshListFits == sentList # "skipped fresh"

(* Of what the deck lacks every copy is on the open list once, as an entry  *)
(* or a choice, or counted as skipped; and a list the user has not touched  *)
(* can be sent as it is.                                                    *)
ListAccounted ==
  pullOpen =>
  LET list == CreatePullList(deckView, <<>>, pullMode)
      offered == Offered(list)
  IN  /\ list.needed = Total([k \in DOMAIN offered |-> offered[k].quantity]) + list.skipped
      /\ SelectionFits(deckView, list, {})

(* The dialog's lists are complete, and one the server would skip from is   *)
(* never sent.                                                              *)
PullListSound == FreshListFits /\ ListAccounted
=============================================================================
