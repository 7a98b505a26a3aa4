----------------------------- MODULE ShareDialog -----------------------------
(***************************************************************************)
(* The share dialog of the web pages (pages/decks/deck-share-dialogs.tsx), *)
(* one browser tab, together with the requests of other clients.  Opening  *)
(* the dialog asks for the deck's token, its buttons rotate the token or   *)
(* end sharing, and every answer is written into the same field, whenever  *)
(* it arrives and whichever deck it was asked for.                         *)
(*                                                                         *)
(* The deck page mounts the dialog when it opens it; the deck list keeps   *)
(* it mounted and only changes the deck it shows: KeptMounted.  Decks that *)
(* follow an external site have no token and are left out.                 *)
(***************************************************************************)
EXTENDS DeckRecords

CONSTANTS
  KeptMounted,  \* the dialog stays mounted while it is closed
  NoRequest

ASSUME DialogAssumption ==
  /\ KeptMounted \in BOOLEAN
  /\ NoRequest \notin Request
  /\ {"ensure", "rotate", "disable"} \subseteq Ops
  /\ Token \cap {"null", ""} = {}

VARIABLES
  shown,      \* the deck in the dialog's title
  ensured,    \* shareTokenDeckIdRef
  managed,    \* managedToken: null, "", or a token
  confirm,    \* confirmAction
  latest,     \* per mutation, the last call while it is loading
  caller      \* who waits for a request: nobody here, this mount or an old one

dialogVars == <<shown, ensured, managed, confirm, latest, caller>>
shareVars == <<rows, owner, requests, shown, ensured, managed, confirm, latest, caller>>

Mutation == {"ensure", "rotate", "disable"}

DialogOK ==
  /\ RecordsOK
  /\ shown \in Deck \cup {NoDeck}
  /\ ensured \in Deck \cup {NoDeck}
  /\ managed \in Token \cup {"null", ""}
  /\ confirm \in {"none", "rotate", "disable"}
  /\ latest \in [Mutation -> Request \cup {NoRequest}]
  /\ caller \in [Request -> {"other", "mounted", "unmounted"}]

NotLoading == [op \in Mutation |-> NoRequest]

ShareInit ==
  /\ RecordsInit
  /\ shown = NoDeck /\ ensured = NoDeck /\ managed = "null" /\ confirm = "none"
  /\ latest = NotLoading
  /\ caller = [r \in Request |-> "other"]

-----------------------------------------------------------------------------
IsOpen == shown # NoDeck
ChangingShare == \E op \in Mutation : latest[op] # NoRequest
HasLink == managed \in Token

(* A mutation of this dialog: a new call takes over its loading state.      *)
Call(r, op, d) ==
  /\ Send(r, op, d)
  /\ latest' = [latest EXCEPT ![op] = r]
  /\ caller' = [caller EXCEPT ![r] = "mounted"]

(* The owner opens the dialog for a deck; its effect asks for the token.    *)
OpenDialog(r, d) ==
  /\ ~IsOpen /\ Exists(d) /\ confirm = "none"
  /\ shown' = d
  /\ ensured' = d
  /\ Call(r, "ensure", d)
  /\ UNCHANGED <<managed, confirm>>

(* What closing leaves behind: the effect clears the token, and a dialog    *)
(* that is unmounted loses everything.                                      *)
Closed(callers) ==
  /\ shown' = NoDeck
  /\ ensured' = NoDeck
  /\ managed' = "null"
  /\ IF KeptMounted THEN caller' = callers /\ UNCHANGED confirm
     ELSE /\ caller' = [r \in Request |-> IF callers[r] = "mounted" THEN "unmounted" ELSE callers[r]]
          /\ confirm' = "none"

(* Close, or copy the link, which closes the dialog too.                    *)
CloseDialog ==
  /\ IsOpen /\ confirm = "none"
  /\ Closed(caller)
  /\ latest' = IF KeptMounted THEN latest ELSE NotLoading
  /\ UNCHANGED recordVars

AskToConfirm(action) ==
  /\ IsOpen /\ HasLink /\ ~ChangingShare /\ confirm = "none"
  /\ confirm' = action
  /\ UNCHANGED <<rows, owner, requests, shown, ensured, managed, latest, caller>>

Cancel ==
  /\ confirm # "none"
  /\ confirm' = "none"
  /\ UNCHANGED <<rows, owner, requests, shown, ensured, managed, latest, caller>>

(* rotateLink and disableLink, for the deck shown now.                      *)
Confirm(r) ==
  /\ confirm # "none" /\ IsOpen
  /\ confirm' = "none"
  /\ ensured' = IF confirm = "disable" THEN shown ELSE ensured
  /\ Call(r, confirm, shown)
  /\ UNCHANGED <<shown, managed>>

(* `shareToken ?? ""': sharing may have ended before the answer was read.   *)
FieldFor(answer) == IF answer = NoToken THEN "" ELSE answer

(* Seeded fault: an unmounted dialog still takes answers.                   *)
TakesAnyAnswer(r) == TRUE

(* A state update of an unmounted dialog does nothing.                      *)
TakesAnswer(r) == caller[r] = "mounted"

(* A mutation settles: the loading state follows the last call only, but    *)
(* every successful call runs its onCompleted.  After disabling it closes   *)
(* the dialog of the page, whichever deck that shows by now.                *)
Receive(r) ==
  LET req == requests[r]
      after == [caller EXCEPT ![r] = "other"]
      settled == [op \in Mutation |-> IF latest[op] = r THEN NoRequest ELSE latest[op]]
  IN  /\ caller[r] # "other"
      /\ Finish(r)
      /\ IF At(r, "done") /\ req.op = "disable"
         THEN /\ Closed(after)
              /\ latest' = IF KeptMounted THEN settled ELSE NotLoading
         ELSE /\ managed' = IF ~At(r, "done") \/ ~TakesAnswer(r) THEN managed
                            ELSE FieldFor(req.answer)
              /\ caller' = after
              /\ latest' = settled
              /\ UNCHANGED <<shown, ensured, confirm>>

OthersNext ==
  /\ \/ ServerNext
     \/ \E r \in Request, op \in Ops, d \in Deck : caller[r] = "other" /\ Send(r, op, d)
     \/ \E r \in Request : caller[r] = "other" /\ Finish(r)
  /\ UNCHANGED dialogVars

DialogNext ==
  \/ \E r \in Request, d \in Deck : OpenDialog(r, d)
  \/ CloseDialog
  \/ \E action \in {"rotate", "disable"} : AskToConfirm(action)
  \/ Cancel
  \/ \E r \in Request : Confirm(r)
  \/ \E r \in Request : Receive(r)

ShareSpec == ShareInit /\ [][OthersNext \/ DialogNext]_shareVars

-----------------------------------------------------------------------------
(* "Decks ... can each be shared through a bearer link"                     *)
(* (docs/features.md:602): the link that can be copied from the dialog,     *)
(* when nothing is loading, is one of the deck in its title.                *)
LinkOpensThisDeck == IsOpen /\ HasLink /\ ~ChangingShare => owner[managed] = shown
=============================================================================
