------------------------------ MODULE DeckTags ------------------------------
(***************************************************************************)
(* Custom tags of deck cards in the browser (pages/decks/                  *)
(* use-deck-card-actions.ts, deck-query-cache.ts, use-deck-tags.ts).  A    *)
(* tap changes the cached deck at once and is sent to the server; the      *)
(* answer or the failure is worked into the cache whenever it comes.  The  *)
(* answer's deck card and tags are normalised objects: the client writes   *)
(* them into the cache before the page's own handler runs, whatever that   *)
(* handler decides.                                                        *)
(*                                                                         *)
(* Every card counts once.  Names, colours and the order of tags are left  *)
(* out, and the deck is not read again meanwhile.                          *)
(***************************************************************************)
EXTENDS Naturals, FiniteSets

CONSTANTS
  TagCard,    \* cards of the deck
  CustomTag,  \* its tags
  MaxTagOps   \* bound: taps

ASSUME DeckTagsAssumption ==
  /\ TagCard # {} /\ IsFiniteSet(TagCard)
  /\ MaxTagOps \in Nat \ {0}

TagOps == 1 .. MaxTagOps

VARIABLES
  cachedTags,   \* tagIds of the cards in the cache
  cachedCount,  \* cardCount of the tags in the cache
  cachedList,   \* the deck's tags in the cache
  storedTags, storedList,  \* the server's
  tagOps,       \* what was tapped, in order
  opSeq,        \* customTagOpSeqRef: the newest tap on each card
  appliedOps,   \* taps the server has carried out
  newestAnswer, \* history: the latest of them that was answered
  tagOvertaken,    \* history: an answer came after that of a later one
  muddled       \* history: the newest tap on a card failed, but not by itself

tagVars == <<cachedTags, cachedCount, cachedList, storedTags, storedList, tagOps, opSeq,
             appliedOps, newestAnswer, tagOvertaken, muddled>>

Kinds  == {"assign", "unassign", "delete"}
Tagged == [TagCard -> SUBSET CustomTag]

CountIn(tags) == [t \in CustomTag |-> Cardinality({c \in TagCard : t \in tags[c]})]

Flying(n) == tagOps[n].state \in {"sent", "applied", "refused"}
Quiet == \A n \in DOMAIN tagOps : ~Flying(n)

TagsType ==
  /\ {cachedTags, storedTags} \subseteq Tagged
  /\ cachedCount \in [CustomTag -> Nat]
  /\ {cachedList, storedList} \subseteq SUBSET CustomTag
  /\ DOMAIN tagOps \subseteq TagOps
  /\ \A n \in DOMAIN tagOps :
       /\ tagOps[n].state \in {"sent", "applied", "refused", "done"}
       /\ tagOps[n].kind \in Kinds /\ tagOps[n].tag \in CustomTag
  /\ opSeq \in [TagCard -> 0 .. MaxTagOps]
  /\ {appliedOps, newestAnswer} \subseteq 0 .. MaxTagOps
  /\ {tagOvertaken, muddled} \subseteq BOOLEAN

TagsInit ==
  /\ storedTags = [c \in TagCard |-> {}] /\ storedList = CustomTag
  /\ cachedTags = storedTags /\ cachedCount = CountIn(storedTags) /\ cachedList = storedList
  /\ tagOps = <<>> /\ opSeq = [c \in TagCard |-> 0]
  /\ appliedOps = 0 /\ newestAnswer = 0 /\ tagOvertaken = FALSE /\ muddled = FALSE

-----------------------------------------------------------------------------
(* A new tap; all that are under way together share the cache.              *)
Sent(op) ==
  LET shared == [n \in DOMAIN tagOps |->
                   IF Flying(n) THEN [tagOps[n] EXCEPT !.shared = TRUE] ELSE tagOps[n]]
  IN  tagOps' = [n \in DOMAIN tagOps \cup {Cardinality(DOMAIN tagOps) + 1} |->
                   IF n \in DOMAIN tagOps THEN shared[n]
                   ELSE [op EXCEPT !.shared = ~Quiet]]

CanTap == Cardinality(DOMAIN tagOps) < MaxTagOps

NewOp(kind, c, t) ==
  [state |-> "sent", kind |-> kind, card |-> c, tag |-> t, shared |-> FALSE,
   previousTags |-> cachedTags[c], previousCount |-> cachedCount[t],
   at |-> 0, tags |-> {}, counts |-> cachedCount]

(* The cache after a tap.                                                   *)
Optimistic(c, tags, t, count) ==
  /\ cachedTags' = [cachedTags EXCEPT ![c] = tags]
  /\ cachedCount' = [cachedCount EXCEPT ![t] = count]
  /\ opSeq' = [opSeq EXCEPT ![c] = Cardinality(DOMAIN tagOps) + 1]

AssignDeckCardTag(c, t) ==
  /\ CanTap /\ t \in cachedList /\ t \notin cachedTags[c]
  /\ Optimistic(c, cachedTags[c] \cup {t}, t, cachedCount[t] + 1)
  /\ Sent(NewOp("assign", c, t))
  /\ UNCHANGED <<cachedList, storedTags, storedList, appliedOps, newestAnswer, tagOvertaken, muddled>>

UnassignDeckCardTag(c, t) ==
  /\ CanTap /\ t \in cachedTags[c]
  /\ Optimistic(c, cachedTags[c] \ {t}, t, IF cachedCount[t] > 0 THEN cachedCount[t] - 1 ELSE 0)
  /\ Sent(NewOp("unassign", c, t))
  /\ UNCHANGED <<cachedList, storedTags, storedList, appliedOps, newestAnswer, tagOvertaken, muddled>>

(* deleteTag changes the cache only when it is answered.                    *)
DeleteTag(c, t) ==
  /\ CanTap /\ t \in cachedList
  /\ Sent(NewOp("delete", c, t))
  /\ UNCHANGED <<cachedTags, cachedCount, cachedList, storedTags, storedList, opSeq, appliedOps,
                 newestAnswer, tagOvertaken, muddled>>

-----------------------------------------------------------------------------
(* The server, in any order; a tag that was deleted can only be taken off.  *)
ServerTags(op) ==
  CASE op.kind = "assign"   -> [storedTags EXCEPT ![op.card] = @ \cup {op.tag}]
    [] op.kind = "unassign" -> [storedTags EXCEPT ![op.card] = @ \ {op.tag}]
    [] op.kind = "delete"   -> [c \in TagCard |-> storedTags[c] \ {op.tag}]

ServerApplies(n) ==
  /\ tagOps[n].state = "sent"
  /\ tagOps[n].kind = "unassign" \/ tagOps[n].tag \in storedList
  /\ storedTags' = ServerTags(tagOps[n])
  /\ storedList' = IF tagOps[n].kind = "delete" THEN storedList \ {tagOps[n].tag} ELSE storedList
  /\ appliedOps' = appliedOps + 1
  /\ tagOps' = [tagOps EXCEPT ![n].state = "applied", ![n].at = appliedOps + 1,
                              ![n].tags = ServerTags(tagOps[n])[tagOps[n].card],
                              ![n].counts = CountIn(ServerTags(tagOps[n]))]
  /\ UNCHANGED <<cachedTags, cachedCount, cachedList, opSeq, newestAnswer, tagOvertaken, muddled>>

ServerRefuses(n) ==
  /\ tagOps[n].state = "sent"
  /\ tagOps' = [tagOps EXCEPT ![n].state = "refused"]
  /\ UNCHANGED <<cachedTags, cachedCount, cachedList, storedTags, storedList, opSeq, appliedOps,
                 newestAnswer, tagOvertaken, muddled>>

(* onCompleted.  The handlers' own writes repeat the client's.  A deleted   *)
(* tag is taken off the list and off the cards.                             *)
Answered(n) ==
  LET op == tagOps[n]
  IN  /\ op.state = "applied"
      /\ tagOps' = [tagOps EXCEPT ![n].state = "done"]
      /\ IF op.kind = "delete"
         THEN /\ cachedTags' = [c \in TagCard |-> cachedTags[c] \ {op.tag}]
              /\ cachedList' = cachedList \ {op.tag}
              /\ UNCHANGED cachedCount
         ELSE /\ cachedTags' = [cachedTags EXCEPT ![op.card] = op.tags]
              /\ cachedCount' = op.counts
              /\ UNCHANGED cachedList
      /\ newestAnswer' = IF op.at > newestAnswer THEN op.at ELSE newestAnswer
      /\ tagOvertaken' = (tagOvertaken \/ op.at < newestAnswer)
      /\ UNCHANGED <<storedTags, storedList, opSeq, appliedOps, muddled>>

(* Seeded fault: the failure of an earlier tap is rolled back as well.      *)
AnyTap(n) == TRUE
NewestTap(n) == opSeq[tagOps[n].card] = n

(* onError, for a refusal or an answer that was lost: what the cache held   *)
(* before the tap is put back, counts included - if no later tap was made   *)
(* on the card.                                                             *)
TapFailed(n) ==
  LET op == tagOps[n]
  IN  /\ op.state \in {"applied", "refused"}
      /\ tagOps' = [tagOps EXCEPT ![n].state = "done"]
      /\ IF op.kind # "delete" /\ NewestTap(n)
         THEN /\ cachedTags' = [cachedTags EXCEPT ![op.card] = op.previousTags]
              /\ cachedCount' = [cachedCount EXCEPT ![op.tag] = op.previousCount]
         ELSE UNCHANGED <<cachedTags, cachedCount>>
      /\ muddled' = (muddled \/ (opSeq[op.card] = n /\ op.shared) \/ op.state = "applied")
      /\ UNCHANGED <<cachedList, storedTags, storedList, opSeq, appliedOps, newestAnswer, tagOvertaken>>

TagsNext ==
  \/ \E c \in TagCard, t \in CustomTag : AssignDeckCardTag(c, t) \/ UnassignDeckCardTag(c, t)
  \/ \E t \in CustomTag : DeleteTag(CHOOSE c \in TagCard : TRUE, t)
  \/ \E n \in DOMAIN tagOps : ServerApplies(n) \/ ServerRefuses(n) \/ Answered(n) \/ TapFailed(n)

-----------------------------------------------------------------------------
(* When every tap is answered the cache shows the server's tags, whichever  *)
(* failed on the way - as long as answers came in the order the server      *)
(* worked, none was lost, and no rollback restored what another tap that    *)
(* was still under way had put there.                                       *)
TagsFollowServer == Quiet /\ ~tagOvertaken /\ ~muddled => cachedTags = storedTags
=============================================================================
