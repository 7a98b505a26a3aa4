----------------------------- MODULE DeckRecords -----------------------------
(***************************************************************************)
(* The decks table itself (manavault-collection, decks/records.rs): edits  *)
(* of a deck's fields and the share token.  None of these requests holds a *)
(* transaction: each reads the deck, writes in one statement and reads the *)
(* deck again for its answer, and statements of other requests run in      *)
(* between.  Of the fields only the token is kept here.                    *)
(***************************************************************************)
EXTENDS Naturals, FiniteSets

CONSTANTS
  Deck,       \* deck ids
  Token,      \* share tokens; each is generated once
  Request,    \* bound: requests under way
  Ops,        \* the requests clients send
  NoToken,    \* NULL share_token
  NoDeck

Operation == {"edit", "ensure", "rotate", "disable"}

ASSUME RecordsAssumption ==
  /\ Ops \subseteq Operation
  /\ NoToken \notin Token
  /\ NoDeck \notin Deck

VARIABLES
  rows,       \* decks
  owner,      \* the deck each token was generated for
  requests    \* what each request has read, and how far it is

recordVars == <<rows, owner, requests>>

(* The status is "none" when there is no such deck.                         *)
DeckRow == [status : {"none", "some"}, token : Token \cup {NoToken}]
Deleted == [status |-> "none", token |-> NoToken]

Stage == {"idle", "sent", "write", "reload", "done", "failed"}
Idle == [op |-> "none", deck |-> NoDeck, stage |-> "idle", row |-> Deleted,
         answer |-> NoToken]

RequestState == [op : Operation \cup {"none"}, deck : Deck \cup {NoDeck},
                 stage : Stage, row : DeckRow,
                 answer : Token \cup {NoToken}]

RecordsOK ==
  /\ rows \in [Deck -> DeckRow]
  /\ owner \in [Token -> Deck \cup {NoDeck}]
  /\ requests \in [Request -> RequestState]

RecordsInit ==
  /\ rows = [d \in Deck |-> [Deleted EXCEPT !.status = "some"]]
  /\ owner = [t \in Token |-> NoDeck]
  /\ requests = [r \in Request |-> Idle]

-----------------------------------------------------------------------------
Exists(d) == rows[d].status # "none"
Live == {rows[d].token : d \in Deck} \ {NoToken}

At(r, stage) == requests[r].stage = stage
Goes(r, stage) == requests' = [requests EXCEPT ![r].stage = stage]
Answers(r, token) == requests' = [requests EXCEPT ![r].stage = "done", ![r].answer = token]

(* UPDATE decks ... WHERE id: nothing happens when the row is gone.         *)
Update(d, row) == rows' = IF Exists(d) THEN [rows EXCEPT ![d] = row] ELSE rows

Send(r, op, d) ==
  /\ At(r, "idle")
  /\ requests' = [requests EXCEPT ![r] = [Idle EXCEPT !.op = op, !.deck = d, !.stage = "sent"]]
  /\ UNCHANGED <<rows, owner>>

(* get_deck, and what is answered without a write.                          *)
Read(r) ==
  LET req == requests[r]
      row == rows[req.deck]
  IN  /\ At(r, "sent")
      /\ IF ~Exists(req.deck) THEN Goes(r, "failed")
         ELSE IF req.op = "ensure" /\ row.token # NoToken THEN Answers(r, row.token)
         ELSE requests' = [requests EXCEPT ![r].stage = "write", ![r].row = row]
      /\ UNCHANGED <<rows, owner>>

(* Seeded fault: the edit writes the share token it read, too.              *)
EditedWithToken(read, now) == read

(* update_deck writes every field it read but the share token.              *)
Edited(read, now) == [read EXCEPT !.token = now.token]

WriteEdit(r) ==
  LET req == requests[r]
  IN  /\ At(r, "write") /\ req.op = "edit"
      /\ Update(req.deck, Edited(req.row, rows[req.deck]))
      /\ Goes(r, "reload")
      /\ UNCHANGED owner

(* Seeded fault: a token that is there is kept, whoever asks.               *)
PutMissingToken(r) ==
  LET d == requests[r].deck
  IN  /\ At(r, "write") /\ requests[r].op \in {"ensure", "rotate"}
      /\ \E t \in Token :
           /\ owner[t] = NoDeck
           /\ owner' = [owner EXCEPT ![t] = d]
           /\ Update(d, IF rows[d].token = NoToken THEN [rows[d] EXCEPT !.token = t] ELSE rows[d])
      /\ Goes(r, "reload")

(* put_share_token: a token nobody has replaces whatever is there now.      *)
PutToken(r) ==
  LET d == requests[r].deck
  IN  /\ At(r, "write") /\ requests[r].op \in {"ensure", "rotate"}
      /\ \E t \in Token :
           /\ owner[t] = NoDeck
           /\ owner' = [owner EXCEPT ![t] = d]
           /\ Update(d, [rows[d] EXCEPT !.token = t])
      /\ Goes(r, "reload")

(* disable_sharing *)
ClearToken(r) ==
  LET d == requests[r].deck
  IN  /\ At(r, "write") /\ requests[r].op = "disable"
      /\ Update(d, [rows[d] EXCEPT !.token = NoToken])
      /\ Goes(r, "reload")
      /\ UNCHANGED owner

(* get_deck once more: the answer is the deck as it is now.                 *)
Reload(r) ==
  LET d == requests[r].deck
  IN  /\ At(r, "reload")
      /\ IF Exists(d) THEN Answers(r, rows[d].token) ELSE Goes(r, "failed")
      /\ UNCHANGED <<rows, owner>>

(* The connection breaks, or the server stops, at any point.                *)
Interrupt(r) ==
  /\ requests[r].stage \in {"sent", "write", "reload"}
  /\ Goes(r, "failed")
  /\ UNCHANGED <<rows, owner>>

Settled(r) == requests[r].stage \in {"done", "failed"}

(* The client has its answer, or does not wait for it any more.             *)
Finish(r) ==
  /\ Settled(r)
  /\ requests' = [requests EXCEPT ![r] = Idle]
  /\ UNCHANGED <<rows, owner>>

DeleteDeck(d) ==
  /\ Exists(d)
  /\ rows' = [rows EXCEPT ![d] = Deleted]
  /\ UNCHANGED <<owner, requests>>

ServerNext ==
  \/ \E r \in Request : Read(r)
  \/ \E r \in Request : WriteEdit(r)
  \/ \E r \in Request : PutToken(r)
  \/ \E r \in Request : ClearToken(r)
  \/ \E r \in Request : Reload(r)
  \/ \E r \in Request : Interrupt(r)
  \/ \E d \in Deck : DeleteDeck(d)

RecordsNext ==
  \/ ServerNext
  \/ \E r \in Request, op \in Ops, d \in Deck : Send(r, op, d)
  \/ \E r \in Request : Finish(r)

RecordsSpec == RecordsInit /\ [][RecordsNext]_recordVars

-----------------------------------------------------------------------------
(* A token that stopped working never works again ("the old token stops     *)
(* working immediately", docs/features.md:613), also when an edit that read *)
(* the deck before the rotation writes the deck's fields back after it.     *)
RetiredTokensStayDead ==
  [][\A t \in Token : owner[t] # NoDeck /\ t \notin Live => t \notin {rows'[d].token : d \in Deck}]_recordVars

(* The token a rotation or the end of sharing found is dead once the client *)
(* is told, whatever other requests put in its place meanwhile.             *)
RevokedIsDead ==
  \A r \in Request :
    requests[r].op \in {"rotate", "disable"} /\ At(r, "done") => requests[r].row.token \notin Live

=============================================================================
