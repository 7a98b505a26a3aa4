----------------------------- MODULE ShareProofs -----------------------------
(***************************************************************************)
(* Share links, for any number of decks, tokens and requests: a token that *)
(* stopped working never works again, a revoked one is dead when its owner *)
(* is told, and the dialog of the deck page shows its own deck's link.     *)
(*                                                                         *)
(* The invariant adds to the types that tokens, also those a request read  *)
(* or answers with, belong to the deck they were generated for, and that   *)
(* the token a revocation found is dead as soon as it has written.         *)
(***************************************************************************)
EXTENDS ShareDialog, TLAPS

Owned == \A d \in Deck : rows[d].token \in Token => owner[rows[d].token] = d

RequestsOwn ==
  \A r \in Request :
    /\ requests[r].row.token \in Token => owner[requests[r].row.token] = requests[r].deck
    /\ requests[r].answer \in Token => owner[requests[r].answer] = requests[r].deck

RevokedOnceWritten ==
  \A r \in Request :
    requests[r].op \in {"rotate", "disable"} /\ requests[r].stage \in {"reload", "done"}
      => \A d \in Deck : rows[d].token \in Token => rows[d].token # requests[r].row.token

(* A request that is under way, or holds a token, names a deck.             *)
Addressed ==
  \A r \in Request :
    requests[r].stage # "idle" \/ requests[r].row.token \in Token \/ requests[r].answer \in Token
      => requests[r].deck \in Deck

(* A deck that is gone has no token, and nobody writes back such a deck.    *)
NothingOfTheGone ==
  /\ \A d \in Deck : rows[d].status = "none" => rows[d].token = NoToken
  /\ \A r \in Request : requests[r].stage = "write" => requests[r].row.status # "none"

RecordsInv ==
  RecordsOK /\ Owned /\ RequestsOwn /\ RevokedOnceWritten /\ Addressed /\ NothingOfTheGone

-----------------------------------------------------------------------------
LEMMA DeletedType == Deleted \in DeckRow /\ Idle \in RequestState
  BY RecordsAssumption
  DEF Deleted, DeckRow, Idle, RequestState, RecordsAssumption, Stage

(* A step of one request r that leaves decks and owners alone keeps the     *)
(* invariant when the new state of r is typed and owns what it holds.       *)
LEMMA RequestOnly ==
  ASSUME RecordsInv, NEW r \in Request, NEW new \in RequestState,
         requests' = [requests EXCEPT ![r] = new], UNCHANGED <<rows, owner>>,
         new.row.token \in Token => owner[new.row.token] = new.deck,
         new.answer \in Token => owner[new.answer] = new.deck,
         new.op \in {"rotate", "disable"} /\ new.stage \in {"reload", "done"} =>
           \A d \in Deck : rows[d].token \in Token => rows[d].token # new.row.token,
         new.stage # "idle" \/ new.row.token \in Token \/ new.answer \in Token => new.deck \in Deck,
         new.stage = "write" => new.row.status # "none"
  PROVE  RecordsInv'
<1>1. RecordsOK'
  BY DEF RecordsInv, RecordsOK
<1>2. \A q \in Request : requests'[q] = IF q = r THEN new ELSE requests[q]
  BY DEF RecordsInv, RecordsOK
<1>3. Owned' /\ RequestsOwn'
  BY <1>2 DEF RecordsInv, Owned, RequestsOwn
<1>4. RevokedOnceWritten' /\ Addressed' /\ NothingOfTheGone'
  BY <1>2 DEF RecordsInv, RevokedOnceWritten, Addressed, NothingOfTheGone
<1> QED BY <1>1, <1>3, <1>4 DEF RecordsInv

(* A request that fails.                                                    *)
LEMMA FailureKeeps ==
  ASSUME RecordsInv, NEW r \in Request, requests[r].stage # "idle",
         Goes(r, "failed"), UNCHANGED <<rows, owner>>
  PROVE  RecordsInv'
<1> DEFINE new == [requests[r] EXCEPT !.stage = "failed"]
<1>1. requests[r] \in RequestState
  BY DEF RecordsInv, RecordsOK
<1>2. /\ new \in RequestState
      /\ new.stage = "failed" /\ new.op = requests[r].op /\ new.deck = requests[r].deck
      /\ new.row = requests[r].row /\ new.answer = requests[r].answer
  BY <1>1 DEF RequestState, Stage
<1>3. requests' = [requests EXCEPT ![r] = new]
  BY DEF Goes, RecordsInv, RecordsOK
<1>4. requests[r].deck \in Deck
  BY DEF RecordsInv, Addressed
<1> HIDE DEF new
<1> QED BY <1>2, <1>3, <1>4, RequestOnly DEF RecordsInv, RequestsOwn

LEMMA SendKeeps ==
  ASSUME RecordsInv, NEW r \in Request, NEW op \in Ops, NEW d \in Deck,
         Send(r, op, d)
  PROVE  RecordsInv'
<1> DEFINE new == [Idle EXCEPT !.op = op, !.deck = d, !.stage = "sent"]
<1>1. /\ new \in RequestState
      /\ new.row.token = NoToken /\ new.answer = NoToken /\ new.stage = "sent" /\ new.deck = d
  BY DeletedType, RecordsAssumption
  DEF RequestState, Idle, Deleted, RecordsAssumption, Stage
<1>2. requests' = [requests EXCEPT ![r] = new] /\ UNCHANGED <<rows, owner>>
  BY DEF Send
<1> HIDE DEF new
<1> QED BY <1>1, <1>2, RequestOnly, RecordsAssumption DEF RecordsAssumption

LEMMA AnswersKeeps ==
  ASSUME RecordsInv, NEW r \in Request, NEW token, Answers(r, token),
         UNCHANGED <<rows, owner>>, requests[r].stage # "idle",
         token = rows[requests[r].deck].token,
         requests[r].op \in {"rotate", "disable"} => requests[r].stage = "reload"
  PROVE  RecordsInv'
<1> DEFINE new == [requests[r] EXCEPT !.stage = "done", !.answer = token]
<1>1. requests[r] \in RequestState /\ requests[r].deck \in Deck
  BY DEF RecordsInv, RecordsOK, Addressed
<1>2. token \in Token \cup {NoToken}
  BY <1>1 DEF RecordsInv, RecordsOK, DeckRow
<1>3. /\ new \in RequestState
      /\ new.stage = "done" /\ new.op = requests[r].op /\ new.deck = requests[r].deck
      /\ new.row = requests[r].row /\ new.answer = token
  BY <1>1, <1>2 DEF RequestState, Stage
<1>4. requests' = [requests EXCEPT ![r] = new]
  BY DEF Answers, RecordsInv, RecordsOK
<1>5. token \in Token => owner[token] = requests[r].deck
  BY <1>1 DEF RecordsInv, Owned
<1> HIDE DEF new
<1> QED BY <1>1, <1>3, <1>4, <1>5, RequestOnly DEF RecordsInv, RequestsOwn, RevokedOnceWritten

LEMMA ReadKeeps ==
  ASSUME RecordsInv, NEW r \in Request, Read(r)
  PROVE  RecordsInv'
<1> DEFINE req == requests[r]
           row == rows[req.deck]
<1>1. At(r, "sent") /\ req.stage = "sent" /\ UNCHANGED <<rows, owner>>
  BY DEF Read, At
<1>2. CASE Goes(r, "failed")
  BY <1>1, <1>2, FailureKeeps
<1>3. CASE req.op = "ensure" /\ Answers(r, row.token)
  BY <1>1, <1>3, AnswersKeeps
<1>4. CASE requests' = [requests EXCEPT ![r].stage = "write", ![r].row = row]
  <2> DEFINE new == [req EXCEPT !.stage = "write", !.row = row]
  <2>1. req \in RequestState /\ req.deck \in Deck /\ row \in DeckRow
    BY <1>1 DEF RecordsInv, RecordsOK, Addressed
  <2>2. /\ new \in RequestState
        /\ new.stage = "write" /\ new.deck = req.deck /\ new.row = row
        /\ new.answer = req.answer
    BY <2>1 DEF RequestState, Stage
  <2>3. requests' = [requests EXCEPT ![r] = new]
    BY <1>4 DEF RecordsInv, RecordsOK
  <2>4. CASE row.status # "none"
    <3> HIDE DEF new
    <3> QED BY <1>1, <2>1, <2>2, <2>3, <2>4, RequestOnly DEF RecordsInv, RequestsOwn, Owned
  <2>5. CASE row.status = "none"
    BY <1>2, <2>5 DEF Read, Exists
  <2> QED BY <2>4, <2>5
<1> QED BY <1>2, <1>3, <1>4 DEF Read

-----------------------------------------------------------------------------
(* Writes.                                                                  *)

(* What a row of deck d may become: typed, with its old token, none, or a   *)
(* token nobody had before, generated for d.                                *)
NextRow(d, row) ==
  /\ row \in DeckRow /\ row.status # "none"
  /\ \/ row.token = rows[d].token
     \/ row.token = NoToken
     \/ row.token \in Token /\ owner[row.token] = NoDeck /\ owner'[row.token] = d

(* The step promised by RetiredTokensStayDead.                              *)
RetiredStay ==
  \A t \in Token : owner[t] # NoDeck /\ t \notin Live => t \notin {rows'[d].token : d \in Deck}

LEMMA SameRows ==
  ASSUME UNCHANGED rows
  PROVE  RetiredStay
  BY RecordsAssumption DEF RetiredStay, Live, RecordsAssumption

(* A write of one deck, the owners growing only by unused tokens.           *)
LEMMA RowKeeps ==
  ASSUME RecordsInv, NEW d \in Deck, NEW row, Exists(d) => NextRow(d, row), Update(d, row),
         owner' \in [Token -> Deck \cup {NoDeck}],
         \A t \in Token : owner[t] # NoDeck => owner'[t] = owner[t]
  PROVE  /\ rows' \in [Deck -> DeckRow]
         /\ Owned' /\ RetiredStay
         /\ \A e \in Deck : rows'[e].status = "none" => rows'[e].token = NoToken
         /\ \A e \in Deck : rows'[e].token = rows[e].token \/ rows'[e].token \notin Token
                              \/ owner[rows'[e].token] = NoDeck
<1>1. \A e \in Deck : rows'[e] = IF e = d /\ Exists(d) THEN row ELSE rows[e]
  BY DEF Update, RecordsInv, RecordsOK
<1>2. rows' \in [Deck -> DeckRow]
  BY DEF Update, NextRow, RecordsInv, RecordsOK
<1>3. \A e \in Deck : rows'[e].token = rows[e].token \/ rows'[e].token = NoToken
                        \/ (/\ rows'[e].token \in Token /\ owner[rows'[e].token] = NoDeck
                            /\ owner'[rows'[e].token] = e)
  BY <1>1 DEF NextRow
<1>4. Owned'
  <2> SUFFICES ASSUME NEW e \in Deck, rows'[e].token \in Token
               PROVE  owner'[rows'[e].token] = e
    BY DEF Owned
  <2> QED BY <1>3, RecordsAssumption DEF RecordsInv, Owned, RecordsAssumption
<1>5. RetiredStay
  BY <1>3, RecordsAssumption DEF RetiredStay, Live, RecordsAssumption
<1>6. \A e \in Deck : rows'[e].status = "none" => rows'[e].token = NoToken
  BY <1>1 DEF RecordsInv, NothingOfTheGone, NextRow
<1> QED BY <1>2, <1>3, <1>4, <1>5, <1>6, RecordsAssumption DEF RecordsAssumption

(* A request writes its deck and turns to its answer.  A rotation, and the  *)
(* end of sharing, leave no token there or one that nobody had before.      *)
LEMMA WriteKeeps ==
  ASSUME RecordsInv, NEW r \in Request, At(r, "write"), Goes(r, "reload"),
         NEW row, Update(requests[r].deck, row),
         Exists(requests[r].deck) => NextRow(requests[r].deck, row),
         owner' \in [Token -> Deck \cup {NoDeck}],
         \A t \in Token : owner[t] # NoDeck => owner'[t] = owner[t],
         requests[r].op \in {"rotate", "disable"} =>
           row.token = NoToken \/ (row.token \in Token /\ owner[row.token] = NoDeck)
  PROVE  RecordsInv' /\ RetiredStay
<1> DEFINE d == requests[r].deck
<1>1. d \in Deck
  BY DEF RecordsInv, Addressed, At
<1>2. /\ rows' \in [Deck -> DeckRow]
      /\ Owned' /\ RetiredStay
      /\ \A e \in Deck : rows'[e].status = "none" => rows'[e].token = NoToken
      /\ \A e \in Deck : rows'[e].token = rows[e].token \/ rows'[e].token \notin Token
                           \/ owner[rows'[e].token] = NoDeck
  <2> HIDE DEF d
  <2> QED BY <1>1, RowKeeps DEF d
<1>3. /\ requests' \in [Request -> RequestState]
      /\ \A q \in Request :
           /\ requests'[q].op = requests[q].op /\ requests'[q].deck = requests[q].deck
           /\ requests'[q].row = requests[q].row /\ requests'[q].answer = requests[q].answer
           /\ requests'[q].stage = IF q = r THEN "reload" ELSE requests[q].stage
  <2> DEFINE new == [requests[r] EXCEPT !.stage = "reload"]
  <2>1. requests[r] \in RequestState
    BY DEF RecordsInv, RecordsOK
  <2>2. /\ new \in RequestState
        /\ new.stage = "reload" /\ new.op = requests[r].op /\ new.deck = requests[r].deck
        /\ new.row = requests[r].row /\ new.answer = requests[r].answer
    BY <2>1 DEF RequestState, Stage
  <2>3. requests' = [requests EXCEPT ![r] = new]
    BY DEF Goes, RecordsInv, RecordsOK
  <2> HIDE DEF new
  <2> QED BY <2>2, <2>3 DEF RecordsInv, RecordsOK
<1>4. RequestsOwn'
  BY <1>3, RecordsAssumption DEF RecordsInv, RequestsOwn, Addressed, RecordsAssumption
<1>5. Addressed' /\ NothingOfTheGone'
  BY <1>2, <1>3 DEF RecordsInv, Addressed, NothingOfTheGone, At
<1>6. RevokedOnceWritten'
  <2> SUFFICES ASSUME NEW q \in Request, requests'[q].op \in {"rotate", "disable"},
                      requests'[q].stage \in {"reload", "done"},
                      NEW e \in Deck, rows'[e].token \in Token,
                      rows'[e].token = requests'[q].row.token
               PROVE  FALSE
    BY DEF RevokedOnceWritten
  <2> DEFINE t == requests[q].row.token
  <2>1. t \in Token /\ rows'[e].token = t /\ owner[t] = requests[q].deck /\ owner[t] \in Deck
    BY <1>3 DEF RecordsInv, RequestsOwn, Addressed
  <2>2. rows[e].token = t /\ e = requests[q].deck
    BY <1>2, <2>1, RecordsAssumption DEF RecordsAssumption, RecordsInv, Owned
  <2>3. CASE q = r
    <3>1. rows'[e] = IF Exists(d) THEN row ELSE rows[e]
      BY <1>1, <2>2, <2>3 DEF Update, RecordsInv, RecordsOK
    <3>2. CASE Exists(d)
      BY <1>3, <2>1, <2>3, <3>1, <3>2, RecordsAssumption DEF RecordsAssumption
    <3>3. CASE ~Exists(d)
      BY <2>1, <2>2, <2>3, <3>3, RecordsAssumption
      DEF Exists, RecordsInv, NothingOfTheGone, RecordsAssumption
    <3> QED BY <3>2, <3>3
  <2>4. CASE q # r
    BY <1>3, <2>1, <2>2, <2>4 DEF RecordsInv, RevokedOnceWritten
  <2> QED BY <2>3, <2>4
<1>7. RecordsOK'
  BY <1>2, <1>3 DEF RecordsOK
<1> QED BY <1>2, <1>4, <1>5, <1>6, <1>7 DEF RecordsInv

-----------------------------------------------------------------------------
(* The actions.                                                             *)

LEMMA WriteEditKeeps ==
  ASSUME RecordsInv, NEW r \in Request, WriteEdit(r)
  PROVE  RecordsInv' /\ RetiredStay
<1> DEFINE req == requests[r]
           now == rows[req.deck]
           row == Edited(req.row, now)
<1>1. /\ At(r, "write") /\ Goes(r, "reload") /\ req.op = "edit"
      /\ Update(req.deck, row) /\ UNCHANGED owner
  BY DEF WriteEdit
<1>2. req.row \in DeckRow /\ req.row.status # "none"
      /\ now \in DeckRow
  BY <1>1 DEF RecordsInv, RecordsOK, NothingOfTheGone, Addressed, RequestState, At
<1>3. row \in DeckRow /\ row.status # "none" /\ row.token = now.token
  <2> HIDE DEF now, req
  <2> QED BY <1>2 DEF Edited, DeckRow
<1>4. NextRow(req.deck, row)
  BY <1>3 DEF NextRow
<1> HIDE DEF row
<1> QED BY <1>1, <1>4, WriteKeeps DEF RecordsInv, RecordsOK

LEMMA PutTokenKeeps ==
  ASSUME RecordsInv, NEW r \in Request, PutToken(r)
  PROVE  RecordsInv' /\ RetiredStay
<1> DEFINE d == requests[r].deck
<1>1. At(r, "write") /\ Goes(r, "reload")
  BY DEF PutToken
<1>2. PICK t \in Token : /\ owner[t] = NoDeck /\ owner' = [owner EXCEPT ![t] = d]
                         /\ Update(d, [rows[d] EXCEPT !.token = t])
  BY DEF PutToken
<1> DEFINE row == [rows[d] EXCEPT !.token = t]
<1>3. rows[d] \in DeckRow /\ d \in Deck
  BY <1>1 DEF RecordsInv, RecordsOK, Addressed, At
<1>4. /\ owner' \in [Token -> Deck \cup {NoDeck}] /\ owner'[t] = d
      /\ \A u \in Token : owner[u] # NoDeck => owner'[u] = owner[u]
  BY <1>2, <1>3 DEF RecordsInv, RecordsOK
<1>5. row.token = t
  BY <1>3 DEF DeckRow
<1>6. Exists(d) => NextRow(d, row)
  <2> HIDE DEF d
  <2> QED BY <1>2, <1>3, <1>4 DEF NextRow, Exists, DeckRow
<1> HIDE DEF row
<1> QED BY <1>1, <1>2, <1>4, <1>5, <1>6, WriteKeeps DEF row

LEMMA ClearTokenKeeps ==
  ASSUME RecordsInv, NEW r \in Request, ClearToken(r)
  PROVE  RecordsInv' /\ RetiredStay
<1> DEFINE d == requests[r].deck
           row == [rows[d] EXCEPT !.token = NoToken]
<1>1. At(r, "write") /\ Goes(r, "reload") /\ Update(d, row) /\ UNCHANGED owner
  BY DEF ClearToken
<1>2. rows[d] \in DeckRow
  BY <1>1 DEF RecordsInv, RecordsOK, Addressed, At
<1>3. row.token = NoToken /\ (Exists(d) => NextRow(d, row))
  <2> HIDE DEF d
  <2> QED BY <1>2 DEF NextRow, Exists, DeckRow
<1> HIDE DEF row
<1> QED BY <1>1, <1>3, WriteKeeps DEF RecordsInv, RecordsOK

LEMMA ReloadKeeps ==
  ASSUME RecordsInv, NEW r \in Request, Reload(r)
  PROVE  RecordsInv'
<1>1. requests[r].stage = "reload" /\ UNCHANGED <<rows, owner>>
  BY DEF Reload, At
<1>2. CASE Answers(r, rows[requests[r].deck].token)
  BY <1>1, <1>2, AnswersKeeps
<1>3. CASE Goes(r, "failed")
  BY <1>1, <1>3, FailureKeeps
<1> QED BY <1>2, <1>3 DEF Reload

LEMMA InterruptKeeps ==
  ASSUME RecordsInv, NEW r \in Request, Interrupt(r)
  PROVE  RecordsInv'
  BY FailureKeeps DEF Interrupt

LEMMA FinishKeeps ==
  ASSUME RecordsInv, NEW r \in Request, Finish(r)
  PROVE  RecordsInv'
<1>1. Idle.row.token = NoToken /\ Idle.answer = NoToken /\ Idle.stage = "idle"
  BY DEF Idle, Deleted
<1>2. requests' = [requests EXCEPT ![r] = Idle] /\ UNCHANGED <<rows, owner>>
  BY DEF Finish
<1> QED BY <1>1, <1>2, DeletedType, RequestOnly, RecordsAssumption DEF RecordsAssumption

(* The other transactions leave the requests alone.                         *)
LEMMA TransactionKeeps ==
  ASSUME RecordsInv, NEW d \in Deck, NEW row \in DeckRow, rows' = [rows EXCEPT ![d] = row],
         UNCHANGED <<owner, requests>>,
         row.token = NoToken \/ (row.token = rows[d].token /\ row.status # "none")
  PROVE  RecordsInv' /\ RetiredStay
<1>1. \A e \in Deck : rows'[e] = IF e = d THEN row ELSE rows[e]
  BY DEF RecordsInv, RecordsOK
<1>2. \A e \in Deck : rows'[e].token \in Token => rows'[e].token = rows[e].token
  BY <1>1, RecordsAssumption DEF RecordsAssumption
<1>3. RecordsOK' /\ Owned' /\ RequestsOwn' /\ Addressed'
  BY <1>2 DEF RecordsInv, RecordsOK, Owned, RequestsOwn, Addressed
<1>4. RevokedOnceWritten'
  BY <1>2 DEF RecordsInv, RevokedOnceWritten
<1>5. NothingOfTheGone'
  BY <1>1 DEF RecordsInv, NothingOfTheGone
<1>6. RetiredStay
  BY <1>2, RecordsAssumption DEF RetiredStay, Live, RecordsAssumption
<1> QED BY <1>3, <1>4, <1>5, <1>6 DEF RecordsInv

LEMMA DeleteDeckKeeps ==
  ASSUME RecordsInv, NEW d \in Deck, DeleteDeck(d)
  PROVE  RecordsInv' /\ RetiredStay
<1>1. Deleted.token = NoToken
  BY DEF Deleted
<1> QED BY <1>1, DeletedType, TransactionKeeps DEF DeleteDeck

-----------------------------------------------------------------------------
(* The invariant of DeckRecords.                                            *)

LEMMA RecordsStep ==
  ASSUME RecordsInv, [RecordsNext]_recordVars
  PROVE  RecordsInv' /\ RetiredStay
<1>1. CASE UNCHANGED recordVars
  <2>1. UNCHANGED <<rows, owner, requests>>
    BY <1>1 DEF recordVars
  <2>2. RecordsInv'
    BY <2>1 DEF RecordsInv, RecordsOK, Owned, RequestsOwn, RevokedOnceWritten, Addressed,
                NothingOfTheGone
  <2> QED BY <2>1, <2>2, SameRows
<1>2. CASE \E r \in Request : Read(r)
  BY <1>2, ReadKeeps, SameRows DEF Read
<1>3. CASE \E r \in Request : WriteEdit(r)
  BY <1>3, WriteEditKeeps
<1>4. CASE \E r \in Request : PutToken(r)
  BY <1>4, PutTokenKeeps
<1>5. CASE \E r \in Request : ClearToken(r)
  BY <1>5, ClearTokenKeeps
<1>6. CASE \E r \in Request : Reload(r)
  BY <1>6, ReloadKeeps, SameRows DEF Reload
<1>7. CASE \E r \in Request : Interrupt(r)
  BY <1>7, InterruptKeeps, SameRows DEF Interrupt
<1>8. CASE \E d \in Deck : DeleteDeck(d)
  BY <1>8, DeleteDeckKeeps
<1>9. CASE \E r \in Request, op \in Ops, d \in Deck : Send(r, op, d)
  BY <1>9, SendKeeps, SameRows DEF Send
<1>10. CASE \E r \in Request : Finish(r)
  BY <1>10, FinishKeeps, SameRows DEF Finish
<1> QED BY <1>1, <1>2, <1>3, <1>4, <1>5, <1>6, <1>7, <1>8, <1>9, <1>10
        DEF RecordsNext, ServerNext

LEMMA RecordsStart ==
  ASSUME RecordsInit
  PROVE  RecordsInv
<1> DEFINE new == [Deleted EXCEPT !.status = "some"]
<1>1. new \in DeckRow /\ new.token = NoToken /\ new.status = "some"
  BY RecordsAssumption DEF Deleted, DeckRow, RecordsAssumption
<1>2. /\ Idle \in RequestState /\ Idle.row.token = NoToken /\ Idle.answer = NoToken
      /\ Idle.stage = "idle" /\ Idle.op = "none"
  BY DeletedType DEF Idle, Deleted
<1>3. /\ \A d \in Deck : rows[d] = new
      /\ \A r \in Request : requests[r] = Idle
      /\ rows = [d \in Deck |-> new] /\ requests = [r \in Request |-> Idle]
      /\ owner = [t \in Token |-> NoDeck]
  BY DEF RecordsInit
<1> HIDE DEF new
<1>4. RecordsOK
  BY <1>1, <1>2, <1>3 DEF RecordsOK
<1> QED BY <1>1, <1>2, <1>3, <1>4, RecordsAssumption
        DEF RecordsInv, Owned, RequestsOwn, RevokedOnceWritten, Addressed, NothingOfTheGone,
            RecordsAssumption

LEMMA RecordsInvariant == RecordsSpec => []RecordsInv
<1>1. RecordsInit => RecordsInv
  BY RecordsStart
<1>2. RecordsInv /\ [RecordsNext]_recordVars => RecordsInv'
  BY RecordsStep
<1> QED BY <1>1, <1>2, PTL DEF RecordsSpec

LEMMA RevokedDead == RecordsInv => RevokedIsDead
<1> SUFFICES ASSUME RecordsInv, NEW r \in Request,
                    requests[r].op \in {"rotate", "disable"}, requests[r].stage = "done",
                    requests[r].row.token \in Live
             PROVE  FALSE
  BY DEF RevokedIsDead, At
<1>1. PICK d \in Deck : rows[d].token = requests[r].row.token /\ rows[d].token # NoToken
  BY DEF Live
<1>2. rows[d].token \in Token
  BY <1>1 DEF RecordsInv, RecordsOK, DeckRow
<1> QED BY <1>1, <1>2 DEF RecordsInv, RevokedOnceWritten

(* Once the client is told that its link was replaced or switched off, the  *)
(* link it found opens nothing, whatever ran in between.                    *)
THEOREM RevocationTakesEffect == RecordsSpec => []RevokedIsDead
  BY RecordsInvariant, RevokedDead, PTL

(* A token that stopped working never works again, also when an edit that   *)
(* read the deck before writes its fields back afterwards.                  *)
THEOREM RevocationLasts == RecordsSpec => RetiredTokensStayDead
<1>1. RecordsInv /\ [RecordsNext]_recordVars => [RetiredStay]_recordVars
  BY RecordsStep
<1>2. []RecordsInv /\ [][RecordsNext]_recordVars => [][RetiredStay]_recordVars
  BY <1>1, PTL
<1>3. [][RetiredStay]_recordVars => RetiredTokensStayDead
  BY DEF RetiredStay, RetiredTokensStayDead
<1> QED BY <1>2, <1>3, RecordsInvariant DEF RecordsSpec

-----------------------------------------------------------------------------
(* The dialog.                                                              *)

(* What the steps of DeckRecords promise the dialog: a token stays with its *)
(* deck, and a request with the deck it is about.                           *)
Kept(r) == requests'[r].deck = requests[r].deck
OwnersKept == \A t \in Token : owner[t] # NoDeck => owner'[t] = owner[t]

LEMMA ServerStepKeeps ==
  ASSUME RecordsInv, ServerNext
  PROVE  OwnersKept /\ \A r \in Request : Kept(r)
<1>1. ASSUME NEW r \in Request, NEW stage, Goes(r, stage)
      PROVE  \A q \in Request : Kept(q)
  BY <1>1 DEF Goes, Kept, RecordsInv, RecordsOK, RequestState
<1>2. ASSUME NEW r \in Request, NEW token, Answers(r, token)
      PROVE  \A q \in Request : Kept(q)
  BY <1>2 DEF Answers, Kept, RecordsInv, RecordsOK, RequestState
<1>3. CASE \E r \in Request : Read(r)
  <2>1. PICK r \in Request : Read(r)
    BY <1>3
  <2> DEFINE row == rows[requests[r].deck]
  <2>2. OwnersKept
    BY <2>1 DEF Read, OwnersKept
  <2>3. CASE requests' = [requests EXCEPT ![r].stage = "write", ![r].row = row]
    <3>1. \A q \in Request : Kept(q)
      <4> HIDE DEF row
      <4> QED BY <2>3 DEF Kept, RecordsInv, RecordsOK, RequestState
    <3> QED BY <2>2, <3>1
  <2> QED BY <1>1, <1>2, <2>1, <2>2, <2>3 DEF Read
<1>4. CASE \E r \in Request : WriteEdit(r) \/ ClearToken(r) \/ Interrupt(r)
  BY <1>1, <1>4 DEF WriteEdit, ClearToken, Interrupt, OwnersKept
<1>5. CASE \E r \in Request : PutToken(r)
  <2>1. PICK r \in Request : PutToken(r)
    BY <1>5
  <2>2. PICK t \in Token : owner[t] = NoDeck /\ owner' = [owner EXCEPT ![t] = requests[r].deck]
    BY <2>1 DEF PutToken
  <2>3. OwnersKept
    BY <2>2 DEF OwnersKept, RecordsInv, RecordsOK
  <2>4. Goes(r, "reload")
    BY <2>1 DEF PutToken
  <2> QED BY <1>1, <2>3, <2>4
<1>6. CASE \E r \in Request : Reload(r)
  BY <1>1, <1>2, <1>6 DEF Reload, OwnersKept
<1>7. CASE \E d \in Deck : DeleteDeck(d)
  BY <1>7 DEF DeleteDeck, OwnersKept, Kept
<1> QED BY <1>3, <1>4, <1>5, <1>6, <1>7 DEF ServerNext

LEMMA OneRequest ==
  ASSUME RecordsInv, NEW r \in Request, NEW new, requests' = [requests EXCEPT ![r] = new]
  PROVE  \A q \in Request \ {r} : Kept(q)
  BY DEF Kept, RecordsInv, RecordsOK

(* A dialog that is mounted shows one deck; who waits for an answer waits   *)
(* for one about that deck, and the link in the field is one of it.         *)
Waiting == \A r \in Request : caller[r] = "mounted" => IsOpen /\ requests[r].deck = shown
FieldOwn == managed \in Token => IsOpen /\ owner[managed] = shown

DialogInv == RecordsInv /\ DialogOK /\ (~KeptMounted => Waiting /\ FieldOwn)

DialogTypes ==
  /\ shown \in Deck \cup {NoDeck}
  /\ ensured \in Deck \cup {NoDeck}
  /\ managed \in Token \cup {"null", ""}
  /\ confirm \in {"none", "rotate", "disable"}
  /\ latest \in [Mutation -> Request \cup {NoRequest}]
  /\ caller \in [Request -> {"other", "mounted", "unmounted"}]

(* Every step of the dialog is one of the requests, or none.                *)
LEMMA DialogSteps ==
  ASSUME DialogInv, [OthersNext \/ DialogNext]_shareVars
  PROVE  [RecordsNext]_recordVars
<1>1. ASSUME NEW r \in Request, NEW op \in Mutation, NEW d \in Deck, Call(r, op, d)
      PROVE  RecordsNext
  BY <1>1, DialogAssumption DEF Call, Mutation, DialogAssumption, RecordsNext
<1>2. CASE OthersNext
  BY <1>2 DEF OthersNext, RecordsNext
<1>3. CASE \E r \in Request, d \in Deck : OpenDialog(r, d)
  BY <1>1, <1>3 DEF OpenDialog, Mutation
<1>4. CASE \E r \in Request : Confirm(r)
  <2>1. confirm # "none" /\ IsOpen => confirm \in Mutation /\ shown \in Deck
    BY DEF DialogInv, DialogOK, Mutation, IsOpen
  <2> QED BY <1>1, <1>4, <2>1 DEF Confirm
<1>5. CASE \E r \in Request : Receive(r)
  BY <1>5 DEF Receive, RecordsNext
<1>6. CASE \/ CloseDialog \/ Cancel \/ UNCHANGED shareVars
           \/ \E action \in {"rotate", "disable"} : AskToConfirm(action)
  BY <1>6 DEF CloseDialog, Cancel, AskToConfirm, recordVars, shareVars
<1> QED BY <1>2, <1>3, <1>4, <1>5, <1>6 DEF DialogNext

(* Closing, whoever still waits.                                            *)
LEMMA ClosedKeeps ==
  ASSUME DialogAssumption, NEW callers \in [Request -> {"other", "mounted", "unmounted"}],
         confirm \in {"none", "rotate", "disable"}, Closed(callers)
  PROVE  /\ shown' \in Deck \cup {NoDeck} /\ ensured' \in Deck \cup {NoDeck}
         /\ managed' \in Token \cup {"null", ""} /\ confirm' \in {"none", "rotate", "disable"}
         /\ caller' \in [Request -> {"other", "mounted", "unmounted"}]
         /\ ~KeptMounted => Waiting' /\ FieldOwn'
<1>1. managed' \notin Token
  BY DEF Closed, DialogAssumption
<1>2. ~KeptMounted => \A r \in Request : caller'[r] # "mounted"
  BY DEF Closed
<1>3. caller' \in [Request -> {"other", "mounted", "unmounted"}]
  BY DEF Closed
<1>4. confirm' \in {"none", "rotate", "disable"}
  BY DEF Closed
<1> QED BY <1>1, <1>2, <1>3, <1>4 DEF Closed, Waiting, FieldOwn

LEMMA OthersKeep ==
  ASSUME DialogInv, RecordsInv', OthersNext
  PROVE  DialogInv'
<1>1. DialogTypes' /\ UNCHANGED <<shown, managed, caller>>
  BY DEF DialogInv, DialogOK, DialogTypes, OthersNext, dialogVars
<1>2. /\ OwnersKept
      /\ \A r \in Request : Kept(r) \/ caller[r] = "other"
  <2>1. CASE ServerNext
    BY <2>1, ServerStepKeeps DEF DialogInv
  <2>2. CASE \E r \in Request, op \in Ops, d \in Deck :
               caller[r] = "other" /\ Send(r, op, d)
    BY <2>2, OneRequest DEF Send, OwnersKept, DialogInv
  <2>3. CASE \E r \in Request : caller[r] = "other" /\ Finish(r)
    BY <2>3, OneRequest DEF Finish, OwnersKept, DialogInv
  <2> QED BY <2>1, <2>2, <2>3 DEF OthersNext
<1>3. ASSUME ~KeptMounted
      PROVE  Waiting' /\ FieldOwn'
  <2>1. Waiting'
    BY <1>1, <1>2, <1>3 DEF DialogInv, Waiting, Kept, IsOpen
  <2>2. FieldOwn'
    BY <1>1, <1>2, <1>3, RecordsAssumption
    DEF DialogInv, DialogOK, FieldOwn, OwnersKept, IsOpen, RecordsAssumption
  <2> QED BY <2>1, <2>2
<1> QED BY <1>1, <1>3 DEF DialogInv, DialogOK, DialogTypes, RecordsInv

(* A call about the deck the dialog then shows.                             *)
LEMMA CallKeeps ==
  ASSUME DialogInv, RecordsInv', NEW r \in Request, NEW op \in Mutation, NEW d \in Deck,
         Call(r, op, d), shown' = d, ~IsOpen \/ shown = d, UNCHANGED managed,
         ensured' \in Deck \cup {NoDeck}, confirm' \in {"none", "rotate", "disable"}
  PROVE  DialogInv'
<1>1. requests'[r].deck = d /\ UNCHANGED owner /\ \A q \in Request \ {r} : Kept(q)
  <2>1. requests' = [requests EXCEPT ![r] = [Idle EXCEPT !.op = op, !.deck = d, !.stage = "sent"]]
    BY DEF Call, Send
  <2> QED BY <2>1, OneRequest DEF Call, Send, DialogInv, RecordsInv, RecordsOK, Idle
<1>2. IsOpen'
  BY RecordsAssumption DEF IsOpen, RecordsAssumption
<1>3. ~KeptMounted => Waiting' /\ FieldOwn'
  BY <1>1, <1>2 DEF DialogInv, DialogOK, Waiting, FieldOwn, Kept, Call
<1>4. /\ latest' \in [Mutation -> Request \cup {NoRequest}]
      /\ caller' \in [Request -> {"other", "mounted", "unmounted"}]
  BY DEF Call, DialogInv, DialogOK
<1>5. DialogOK'
  BY <1>4 DEF DialogInv, DialogOK, RecordsInv
<1> QED BY <1>3, <1>5 DEF DialogInv

LEMMA NotLoadingType == NotLoading \in [Mutation -> Request \cup {NoRequest}]
  BY DEF NotLoading

LEMMA CloseKeeps ==
  ASSUME DialogInv, RecordsInv', CloseDialog
  PROVE  DialogInv'
<1>1. /\ Closed(caller) /\ caller \in [Request -> {"other", "mounted", "unmounted"}]
      /\ confirm \in {"none", "rotate", "disable"}
  BY DEF CloseDialog, DialogInv, DialogOK
<1>2. latest' \in [Mutation -> Request \cup {NoRequest}]
  BY NotLoadingType DEF CloseDialog, DialogInv, DialogOK
<1>3. /\ shown' \in Deck \cup {NoDeck} /\ ensured' \in Deck \cup {NoDeck}
      /\ managed' \in Token \cup {"null", ""} /\ confirm' \in {"none", "rotate", "disable"}
      /\ caller' \in [Request -> {"other", "mounted", "unmounted"}]
      /\ ~KeptMounted => Waiting' /\ FieldOwn'
  BY <1>1, ClosedKeeps, DialogAssumption
<1> QED BY <1>2, <1>3 DEF DialogInv, DialogOK, RecordsInv

LEMMA ReceiveKeeps ==
  ASSUME DialogInv, RecordsInv', NEW r \in Request, Receive(r)
  PROVE  DialogInv'
<1> DEFINE req == requests[r]
           after == [caller EXCEPT ![r] = "other"]
           settled == [op \in Mutation |-> IF latest[op] = r THEN NoRequest ELSE latest[op]]
<1>1. /\ after \in [Request -> {"other", "mounted", "unmounted"}]
      /\ settled \in [Mutation -> Request \cup {NoRequest}]
      /\ confirm \in {"none", "rotate", "disable"}
  BY DEF DialogInv, DialogOK
<1>2. CASE At(r, "done") /\ req.op = "disable"
  <2>1. Closed(after) /\ latest' \in [Mutation -> Request \cup {NoRequest}]
    BY <1>1, <1>2, NotLoadingType DEF Receive
  <2> HIDE DEF after
  <2>2. /\ shown' \in Deck \cup {NoDeck} /\ ensured' \in Deck \cup {NoDeck}
        /\ managed' \in Token \cup {"null", ""} /\ confirm' \in {"none", "rotate", "disable"}
        /\ caller' \in [Request -> {"other", "mounted", "unmounted"}]
        /\ ~KeptMounted => Waiting' /\ FieldOwn'
    BY <1>1, <2>1, ClosedKeeps, DialogAssumption
  <2> QED BY <2>1, <2>2 DEF DialogInv, DialogOK, RecordsInv
<1>3. CASE ~(At(r, "done") /\ req.op = "disable")
  <2>1. /\ managed' = IF ~At(r, "done") \/ ~TakesAnswer(r) THEN managed ELSE FieldFor(req.answer)
        /\ caller' = after /\ latest' = settled /\ UNCHANGED <<shown, ensured, confirm, owner>>
    BY <1>3 DEF Receive, Finish
  <2>2. requests' = [requests EXCEPT ![r] = Idle]
    BY DEF Receive, Finish
  <2>3. req.answer \in Token \cup {NoToken} /\ (req.answer \in Token => owner[req.answer] = req.deck)
    BY DEF DialogInv, RecordsInv, RecordsOK, RequestsOwn, RequestState
  <2>4. managed' \in Token \cup {"null", ""}
    BY <2>1, <2>3 DEF FieldFor, DialogInv, DialogOK
  <2>5. DialogOK'
    BY <1>1, <2>1, <2>4 DEF DialogInv, DialogOK, RecordsInv
  <2>6. ASSUME ~KeptMounted
        PROVE  Waiting' /\ FieldOwn'
    <3>1. Waiting /\ FieldOwn
      BY <2>6 DEF DialogInv
    <3>2. \A q \in Request : caller'[q] = "mounted" => q # r /\ caller[q] = "mounted"
      BY <2>1 DEF DialogInv, DialogOK
    <3>3. Waiting'
      BY <2>1, <2>2, <3>1, <3>2, OneRequest DEF DialogInv, Waiting, IsOpen, Kept
    <3>4. FieldOwn'
      BY <2>1, <2>3, <3>1, DialogAssumption
      DEF FieldOwn, Waiting, TakesAnswer, FieldFor, IsOpen, DialogAssumption
    <3> QED BY <3>3, <3>4
  <2> QED BY <2>5, <2>6 DEF DialogInv
<1> QED BY <1>2, <1>3

LEMMA DialogStep ==
  ASSUME DialogInv, [OthersNext \/ DialogNext]_shareVars
  PROVE  DialogInv'
<1>1. RecordsInv'
  BY DialogSteps, RecordsStep DEF DialogInv
<1>2. CASE OthersNext
  BY <1>1, <1>2, OthersKeep
<1>3. CASE \E r \in Request, d \in Deck : OpenDialog(r, d)
  BY <1>1, <1>3, CallKeeps DEF OpenDialog, Mutation, DialogInv, DialogOK
<1>4. CASE \E r \in Request : Confirm(r)
  <2>1. PICK r \in Request : Confirm(r)
    BY <1>4
  <2>2. confirm \in Mutation /\ shown \in Deck /\ ensured' \in Deck \cup {NoDeck}
    BY <2>1 DEF Confirm, DialogInv, DialogOK, Mutation, IsOpen
  <2> QED BY <1>1, <2>1, <2>2, CallKeeps DEF Confirm
<1>5. CASE \E r \in Request : Receive(r)
  BY <1>1, <1>5, ReceiveKeeps
<1>6. CASE CloseDialog
  BY <1>1, <1>6, CloseKeeps
<1>7. CASE Cancel \/ UNCHANGED shareVars \/ \E action \in {"rotate", "disable"} : AskToConfirm(action)
  <2>1. /\ UNCHANGED <<owner, requests, shown, ensured, managed, latest, caller>>
        /\ confirm' \in {"none", "rotate", "disable"}
    BY <1>7 DEF Cancel, AskToConfirm, shareVars, DialogInv, DialogOK
  <2>2. DialogOK'
    BY <1>1, <2>1 DEF DialogInv, DialogOK, RecordsInv
  <2>3. ~KeptMounted => Waiting' /\ FieldOwn'
    BY <2>1 DEF DialogInv, Waiting, FieldOwn, IsOpen
  <2> QED BY <1>1, <2>2, <2>3 DEF DialogInv
<1> QED BY <1>2, <1>3, <1>4, <1>5, <1>6, <1>7 DEF DialogNext

LEMMA DialogStart ==
  ASSUME ShareInit
  PROVE  DialogInv
<1>1. RecordsInv
  BY RecordsStart DEF ShareInit
<1>2. DialogOK
  BY <1>1, NotLoadingType DEF ShareInit, DialogOK, RecordsInv
<1>3. Waiting /\ FieldOwn
  BY DialogAssumption DEF ShareInit, Waiting, FieldOwn, DialogAssumption
<1> QED BY <1>1, <1>2, <1>3 DEF DialogInv

LEMMA DialogInvariant == ShareSpec => []DialogInv
<1>1. ShareInit => DialogInv
  BY DialogStart
<1>2. DialogInv /\ [OthersNext \/ DialogNext]_shareVars => DialogInv'
  BY DialogStep
<1> QED BY <1>1, <1>2, PTL DEF ShareSpec

(* The dialog is a client like any other: whatever it does, the decks only  *)
(* see requests, so what is proved of those holds with the dialog, too.     *)
THEOREM DialogIsAClient == ShareSpec => RecordsSpec
<1>1. ShareInit => RecordsInit
  BY DEF ShareInit
<1>2. DialogInv /\ [OthersNext \/ DialogNext]_shareVars => [RecordsNext]_recordVars
  BY DialogSteps
<1> QED BY <1>1, <1>2, DialogInvariant, PTL DEF ShareSpec, RecordsSpec

(* A dialog that is mounted for one deck, as on the deck page, never offers *)
(* the link of another deck under that deck's title.                        *)
THEOREM LinkOfThisDeck ==
  ASSUME ~KeptMounted
  PROVE  ShareSpec => []LinkOpensThisDeck
<1>1. DialogInv => LinkOpensThisDeck
  BY DEF DialogInv, FieldOwn, LinkOpensThisDeck, HasLink
<1> QED BY <1>1, DialogInvariant, PTL
=============================================================================
