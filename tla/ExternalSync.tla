---------------------------- MODULE ExternalSync ----------------------------
(***************************************************************************)
(* Decks that follow a deck of a remote site (manavault-collection,        *)
(* decks/external.rs).  A link or sync reads the deck, waits for the site, *)
(* and only then writes: other transactions run in between, and the write  *)
(* does not look at the deck again.                                        *)
(***************************************************************************)
EXTENDS DeckCards

CONSTANT
  RemoteLists   \* the card lists a linked remote deck may have

(* A remote list: per card and zone how many copies and, when known, in     *)
(* which printing.                                                          *)
RemoteCard == [quantity : 0 .. MaxQuantity, printing : Printing \cup {NoPrinting}]

ASSUME RemoteAssumption ==
  /\ RemoteLists \subseteq [Card \X Zone -> RemoteCard]
  /\ \A remote \in RemoteLists, c \in Card, z \in Zone :
       remote[<<c, z>>].printing \in PrintingsOf(c) \cup {NoPrinting}

VARIABLE
  fetching      \* links and syncs that wait for the site

Fetch == Deck \X {"link", "sync"}

-----------------------------------------------------------------------------
(* write_entries pairs cards that left one zone and appeared in another:    *)
(* the row, with its copies, is carried over.  Rows are paired as long as   *)
(* there are any (the code: in key order).                                  *)
Carries(removed, added) ==
  {f \in UNION {[C -> removed] : C \in SUBSET added} :
     /\ \A s \in DOMAIN f : CardIn(f[s]) = CardIn(s)
     /\ \A s, t \in DOMAIN f : f[s] = f[t] => s = t
     /\ \A t \in added \ DOMAIN f, r \in removed :
          CardIn(r) = CardIn(t) => \E s \in DOMAIN f : f[s] = r}

Origin(carry, s) == IF s \in DOMAIN carry THEN carry[s] ELSE s

(* A row carried into Considering gives everything back.                    *)
Shelved(carry, s) == s \in DOMAIN carry /\ ZoneOf(s) = "considering"

(* What a row that now lists `kept` copies (none: it is removed) returns.   *)
Freed(s, kept) ==
  IF kept < cards[s].quantity THEN Monus(Physical(allocations, s), kept) ELSE 0

(* printing_changes: a row that holds copies keeps its printing.  Another    *)
(* takes the remote one; without one only its finish changes, which leaves  *)
(* open the printing and finish pair it now prefers.                        *)
Preferences(r, printing) ==
  IF Physical(allocations, r) > 0 THEN {cards[r].preferred}
  ELSE IF printing # NoPrinting THEN {printing}
  ELSE IF cards[r].preferred = NoPrinting THEN {NoPrinting}
  ELSE PrintingsOf(CardIn(r))

(* write_entries: the deck's cards become the remote list.  A card's copies *)
(* are trimmed when its quantity drops, cleared when it moves to            *)
(* Considering and returned when it leaves; its printing follows the remote *)
(* list only while it holds no copies.                                      *)
WriteEntries(d, remote) ==
  LET wanted(s) == remote[<<CardIn(s), ZoneOf(s)>>]
      existing == {s \in CardSlots(d) : Listed(s)}
      desired == {s \in CardSlots(d) : wanted(s).quantity > 0}
  IN  \E carry \in Carries(existing \ desired, desired \ existing) :
        LET origin(s) == Origin(carry, s)
            keepers(r) == {s \in desired : origin(s) = r /\ ~Shelved(carry, s)}
            kept(r) == IF keepers(r) = {} THEN 0
                       ELSE wanted(CHOOSE s \in keepers(r) : TRUE).quantity
            gives ==
              {g \in [ItemId -> 0 .. MaxCopies] :
                 /\ \A i \in ItemId : g[i] <= HeldIn(allocations, existing, i)
                 /\ \A r \in existing :
                      Total([i \in ItemId |->
                               IF allocations[r][i].quantity > 0 THEN g[i] ELSE 0]) = Freed(r, kept(r))}
        IN  /\ HeldOnce(allocations, existing)
            /\ \E give \in gives : \E st \in Release(tables, existing, give) :
                 /\ items' = st.items
                 /\ allocations' = [s \in Slot |->
                      IF s \in desired THEN st.allocations[origin(s)]
                      ELSE IF s \in existing THEN [i \in ItemId |-> NoRow]
                      ELSE st.allocations[s]]
            /\ \E preferred \in [desired -> Printing \cup {NoPrinting}] :
                 /\ \A s \in desired : preferred[s] \in Preferences(origin(s), wanted(s).printing)
                 /\ cards' = [s \in Slot |->
                      IF s \in desired
                      THEN [quantity |-> wanted(s).quantity,
                            proxies |-> IF Shelved(carry, s) THEN 0
                                        ELSE ProxiesAt(origin(s), wanted(s).quantity),
                            preferred |-> preferred[s]]
                      ELSE IF s \in existing THEN NoCard ELSE cards[s]]

-----------------------------------------------------------------------------
(* link and sync up to the fetch: what they check is checked here.  The     *)
(* hourly sync passes archived decks over; the one a user asks for does not *)
(* look at the status.                                                      *)
BeginLink(d) ==
  /\ RemoteLists # {}
  /\ Editable(d)
  /\ fetching' = fetching \cup {<<d, "link">>}
  /\ UNCHANGED <<items, allocations, cards, status, linked, kind>>

BeginSync(d) ==
  /\ linked[d]
  /\ fetching' = fetching \cup {<<d, "sync">>}
  /\ UNCHANGED <<items, allocations, cards, status, linked, kind>>

(* The site fails, its answer cannot be read, or the server stops.          *)
FetchFails(f) ==
  /\ f \in fetching
  /\ fetching' = fetching \ {f}
  /\ UNCHANGED <<items, allocations, cards, status, linked, kind>>

(* The site has answered with its list.                                     *)
ApplyLink(d, remote) ==
  /\ <<d, "link">> \in fetching
  /\ WriteEntries(d, remote)
  /\ linked' = [linked EXCEPT ![d] = TRUE]
  /\ fetching' = fetching \ {<<d, "link">>}
  /\ UNCHANGED <<status, kind>>

ApplySync(d, remote) ==
  /\ <<d, "sync">> \in fetching
  /\ WriteEntries(d, remote)
  /\ fetching' = fetching \ {<<d, "sync">>}
  /\ UNCHANGED <<status, linked, kind>>

Unlink(d) ==
  /\ linked[d]
  /\ linked' = [linked EXCEPT ![d] = FALSE]
  /\ UNCHANGED <<items, allocations, cards, status, kind, fetching>>

ExternalNext ==
  \/ \E d \in Deck : BeginLink(d)
  \/ \E d \in Deck : BeginSync(d)
  \/ \E f \in fetching : FetchFails(f)
  \/ \E d \in Deck, remote \in RemoteLists : ApplyLink(d, remote)
  \/ \E d \in Deck, remote \in RemoteLists : ApplySync(d, remote)
  \/ \E d \in Deck : Unlink(d)
=============================================================================
