------------------------------ MODULE ScanList ------------------------------
(***************************************************************************)
(* The list of scanned cards (pages/scan/use-scan-session.ts,              *)
(* scan-list.ts, scan-training.ts).  A logged scan is listed at once; the  *)
(* catalog is asked for its printing and finish meanwhile, and answers     *)
(* after the user may have changed or removed the entry.  The frame it was *)
(* recognised in is uploaded with a label for training and relabelled when *)
(* the entry changes.                                                      *)
(*                                                                         *)
(* Several printings of a card are one card here, chosen by the scanner or *)
(* by the user; quantities, languages and prices are left out, and scans   *)
(* are logged as nonfoil until the catalog answers (preferFoil off).  In   *)
(* tokens mode a tap may log any token.                                    *)
(***************************************************************************)
EXTENDS Naturals, FiniteSets, Sequences, SequencesExt

CONSTANTS
  EntryId,      \* scans that are listed or looked up at the same time (bound)
  ScanCard, ScanToken,  \* cards, and those that are single-faced tokens
  MaxOvertaken, \* bound: scans that are changed or removed while they are looked up
  NoEntry, NoCard

ASSUME ScanListAssumption ==
  /\ EntryId \subseteq Nat /\ IsFiniteSet(EntryId) /\ NoEntry \notin EntryId
  /\ ScanToken \subseteq ScanCard /\ NoCard \notin ScanCard
  /\ MaxOvertaken \in Nat \ {0}

Finish == {"nonfoil", "foil"}

(* What newestSeen is of a scan the loop did not log.                       *)
ByHand == "by hand"

VARIABLES
  entries,      \* newest first
  lookups,      \* the scans whose printing the catalog is asked for
  labels,       \* the last label sent for each scan's frame
  last,         \* the tracker's last logged card
  inFlight,     \* a frame is being identified
  tokens,       \* settings.tokenMode
  sheet,        \* a sheet of the page is open
  outlineCheck, \* the scan whose outline the user is asked to check
  backFacePick, \* the token whose back the user is asked for
  newestSeen,   \* history: what the scan loop logged the newest scan as; NoCard
                \* when that was removed or nothing was logged
  fate,         \* history: what became of each scan
  overtaken     \* history: scans changed or removed while looked up, and not since

listVars == <<entries, lookups, labels, last, inFlight, tokens, sheet,
              outlineCheck, backFacePick, newestSeen, fate, overtaken>>

Entry ==
  [id : EntryId, card : ScanCard, finish : Finish, back : {"unknown", "settled"}]

Label == [card : ScanCard, finish : Finish]

(* No label for a frame that was never uploaded; a removed scan's is that   *)
(* of no card.                                                              *)
NotUploaded == [card |-> NoCard, finish |-> "none"]
Skipped == [card |-> NoCard, finish |-> "skipped"]

ListType ==
  /\ entries \in Seq(Entry) /\ Len(entries) <= Cardinality(EntryId)
  /\ lookups \in [EntryId -> ScanCard \cup {NoCard}]
  /\ labels \in [EntryId -> Label \cup {NotUploaded, Skipped}]
  /\ last \in ScanCard \cup {NoCard}
  /\ {inFlight, tokens, sheet} \subseteq BOOLEAN
  /\ outlineCheck \in EntryId \cup {NoEntry} /\ backFacePick \in EntryId \cup {NoEntry}
  /\ newestSeen \in ScanCard \cup {NoCard, ByHand}
  /\ fate \in [EntryId -> {"unused", "listed", "removed"}]
  /\ overtaken \subseteq EntryId

ListInit ==
  /\ entries = <<>>
  /\ lookups = [i \in EntryId |-> NoCard]
  /\ labels = [i \in EntryId |-> NotUploaded]
  /\ last = NoCard
  /\ inFlight = FALSE /\ tokens = FALSE /\ sheet = FALSE
  /\ outlineCheck = NoEntry /\ backFacePick = NoEntry
  /\ newestSeen = NoCard
  /\ fate = [i \in EntryId |-> "unused"]
  /\ overtaken = {}

-----------------------------------------------------------------------------
Listed == {entries[n] : n \in DOMAIN entries}
EntryOf(i) == CHOOSE e \in Listed : e.id = i

Prompting == outlineCheck # NoEntry \/ backFacePick # NoEntry
Paused == sheet \/ Prompting

(* A scan's slot is free again once nothing refers to it; the next scan     *)
(* takes the first.                                                         *)
FreeEntry(i) ==
  fate[i] # "listed" /\ lookups[i] = NoCard /\ i \notin {outlineCheck, backFacePick}

NextEntry(i) == FreeEntry(i) /\ \A j \in EntryId : FreeEntry(j) => i <= j

Updated(i, e) == [n \in DOMAIN entries |-> IF entries[n].id = i THEN e ELSE entries[n]]

(* relabel: a frame that was never uploaded has no label.                   *)
Relabelled(i, label) == IF labels[i] = NotUploaded THEN labels ELSE [labels EXCEPT ![i] = label]

LabelOf(e) == [card |-> e.card, finish |-> e.finish]

(* A scan enters the list, with its frame uploaded or not, and if so with   *)
(* its outline to be checked or not; `seen` is what the loop saw, if it did. *)
LogEntry(e, seen) ==
  /\ NextEntry(e.id)
  /\ newestSeen' = seen
  /\ entries' = <<e>> \o entries
  /\ fate' = [fate EXCEPT ![e.id] = "listed"]
  /\ overtaken' = overtaken \ {e.id}
  /\ \/ /\ labels' = [labels EXCEPT ![e.id] = LabelOf(e)]
        /\ outlineCheck' \in {outlineCheck, e.id}
     \/ /\ labels' = [labels EXCEPT ![e.id] = NotUploaded]
        /\ UNCHANGED outlineCheck

(* logScan *)
LogScan(i, card, seen) ==
  /\ LogEntry([id |-> i, card |-> card, finish |-> "nonfoil", back |-> "unknown"], seen)
  /\ lookups' = [lookups EXCEPT ![i] = card]

(* logManual: what the scanner was seeing counts as logged.                 *)
LogManual(i, card, finish) ==
  /\ sheet /\ ~Prompting
  /\ LogEntry([id |-> i, card |-> card, finish |-> finish, back |-> "unknown"], ByHand)
  /\ last' \in ScanCard \cup {last}
  /\ sheet' = FALSE
  /\ UNCHANGED <<lookups, inFlight, tokens, backFacePick>>

-----------------------------------------------------------------------------
(* The scan loop.                                                           *)
SendScanFrame ==
  /\ ~Paused /\ ~inFlight
  /\ inFlight' = TRUE
  /\ UNCHANGED <<entries, lookups, labels, last, tokens, sheet, outlineCheck,
                 backFacePick, newestSeen, fate, overtaken>>

(* Seeded fault: the loop looks at the pause only before it asks.           *)
AlwaysCounts == TRUE

(* An answer that comes after scanning paused does not count.               *)
Counts == ~Paused

(* An answered frame: nothing, also when it arms a token, or the end of a   *)
(* streak.                                                                  *)
FrameAnswered ==
  /\ inFlight
  /\ inFlight' = FALSE
  /\ \/ UNCHANGED <<entries, lookups, labels, last, outlineCheck, newestSeen, fate, overtaken>>
     \/ /\ Counts /\ ~tokens
        /\ \E i \in EntryId, card \in ScanCard \ {last} : LogScan(i, card, card) /\ last' = card
  /\ UNCHANGED <<tokens, sheet, backFacePick>>

(* logArmed: the tap logs whichever token a frame showed last.              *)
TapToken ==
  /\ ~Paused /\ tokens
  /\ \E i \in EntryId, card \in ScanToken : LogScan(i, card, ByHand)
  /\ UNCHANGED <<last, inFlight, tokens, sheet, backFacePick>>

-----------------------------------------------------------------------------
(* resolveEntry.  The catalog knows no printing, or fails: the entry stays. *)
LookupFails(i) ==
  /\ lookups[i] # NoCard
  /\ lookups' = [lookups EXCEPT ![i] = NoCard]
  /\ UNCHANGED <<entries, labels, last, inFlight, tokens, sheet, outlineCheck,
                 backFacePick, newestSeen, fate, overtaken>>

(* In tokens mode the back settled on another copy carries over.            *)
Inherits(i) ==
  tokens /\ \E e \in Listed : e.id # i /\ e.card = lookups[i] /\ e.back = "settled"

(* The capture is relabelled when the finish is not the logged one.         *)
Resent(i, finish) ==
  IF finish = "nonfoil" THEN labels
  ELSE Relabelled(i, [card |-> lookups[i], finish |-> finish])

(* The printing is applied to the entry as it was logged, whatever became   *)
(* of it; a single-faced token's back is asked for.                         *)
LookupAnswered(i, finish) ==
  /\ lookups[i] # NoCard
  /\ lookups' = [lookups EXCEPT ![i] = NoCard]
  /\ backFacePick' = IF lookups[i] \in ScanToken /\ ~Inherits(i) THEN i ELSE backFacePick
  /\ entries' = IF fate[i] # "listed" THEN entries
                ELSE Updated(i, [EntryOf(i) EXCEPT
                       !.card = lookups[i], !.finish = finish,
                       !.back = IF lookups[i] \in ScanToken /\ Inherits(i)
                                THEN "settled" ELSE "unknown"])
  /\ labels' = Resent(i, finish)
  /\ UNCHANGED <<last, inFlight, tokens, sheet, outlineCheck, newestSeen, fate,
                 overtaken>>

-----------------------------------------------------------------------------
(* The user's changes, from the result bar and the sheets.                  *)
Overtakes(i) ==
  /\ overtaken' = IF lookups[i] = NoCard THEN overtaken \ {i} ELSE overtaken \cup {i}
  /\ Cardinality(overtaken') <= MaxOvertaken

ChangeEntry(e) ==
  /\ ~Prompting /\ fate[e.id] = "listed"
  /\ entries' = Updated(e.id, e)
  /\ Overtakes(e.id)
  /\ UNCHANGED <<lookups, last, inFlight, tokens, sheet, outlineCheck,
                 backFacePick, newestSeen, fate>>

SetFinish(i, finish) ==
  /\ fate[i] = "listed" /\ EntryOf(i).finish # finish
  /\ ChangeEntry([EntryOf(i) EXCEPT !.finish = finish])
  /\ labels' = Relabelled(i, [card |-> EntryOf(i).card, finish |-> finish])

(* setPrinting: another printing loses the back that was picked.            *)
SetPrinting(i, finish) ==
  /\ sheet /\ fate[i] = "listed"
  /\ ChangeEntry([EntryOf(i) EXCEPT !.finish = finish, !.back = "unknown"])
  /\ labels' = Relabelled(i, [card |-> EntryOf(i).card, finish |-> finish])

(* replaceCard *)
ReplaceCard(i, card, finish) ==
  /\ sheet /\ fate[i] = "listed" /\ card # EntryOf(i).card
  /\ ChangeEntry([EntryOf(i) EXCEPT !.card = card, !.finish = finish, !.back = "unknown"])
  /\ labels' = Relabelled(i, [card |-> card, finish |-> finish])

(* Seeded fault: the card of a removed newest scan stays the last logged.   *)
KeptLast(i) == last

(* Removing the newest scan lets its card be scanned again.                 *)
LastAfter(i) == IF entries[1].id = i THEN NoCard ELSE last

(* removeEntry, also by a quantity of none: its label is not trusted.       *)
RemoveEntry(i) ==
  /\ sheet /\ ~Prompting /\ fate[i] = "listed"
  /\ last' = LastAfter(i)
  /\ newestSeen' = IF entries[1].id = i THEN NoCard ELSE newestSeen
  /\ labels' = Relabelled(i, Skipped)
  /\ \E n \in DOMAIN entries : entries[n].id = i /\ entries' = RemoveAt(entries, n)
  /\ fate' = [fate EXCEPT ![i] = "removed"]
  /\ Overtakes(i)
  /\ UNCHANGED <<lookups, inFlight, tokens, sheet, outlineCheck, backFacePick>>

(* clear: the labels of cleared scans are not followed any further.         *)
ClearList ==
  /\ sheet /\ ~Prompting /\ entries # <<>>
  /\ last' = NoCard /\ newestSeen' = NoCard
  /\ entries' = <<>>
  /\ fate' = [i \in EntryId |-> IF fate[i] = "listed" THEN "unused" ELSE fate[i]]
  /\ labels' = [i \in EntryId |-> IF fate[i] = "listed" THEN NotUploaded ELSE labels[i]]
  /\ UNCHANGED <<lookups, inFlight, tokens, sheet, outlineCheck, backFacePick,
                 overtaken>>

ToggleSheet ==
  /\ ~Prompting
  /\ sheet' = ~sheet
  /\ UNCHANGED <<entries, lookups, labels, last, inFlight, tokens, outlineCheck,
                 backFacePick, newestSeen, fate, overtaken>>

SetTokenMode ==
  /\ sheet /\ ~Prompting
  /\ tokens' = ~tokens
  /\ UNCHANGED <<entries, lookups, labels, last, inFlight, sheet, outlineCheck,
                 backFacePick, newestSeen, fate, overtaken>>

-----------------------------------------------------------------------------
(* saveOutline, skipOutline: a saved outline is sent with the label.        *)
AnswerOutline ==
  /\ outlineCheck # NoEntry
  /\ outlineCheck' = NoEntry
  /\ labels' \in {labels} \cup (IF fate[outlineCheck] = "listed"
                                THEN {Relabelled(outlineCheck, LabelOf(EntryOf(outlineCheck)))}
                                ELSE {})
  /\ UNCHANGED <<entries, lookups, last, inFlight, tokens, sheet, backFacePick,
                 newestSeen, fate, overtaken>>

(* pickBackFace: the chip asks again for a token's back.                    *)
PickBackFace(i) ==
  /\ ~Prompting /\ fate[i] = "listed" /\ lookups[i] = NoCard /\ EntryOf(i).card \in ScanToken
  /\ backFacePick' = i
  /\ UNCHANGED <<entries, lookups, labels, last, inFlight, tokens, sheet,
                 outlineCheck, newestSeen, fate, overtaken>>

(* setBackFace, dismissBackFace *)
AnswerBackFace ==
  /\ backFacePick # NoEntry
  /\ backFacePick' = NoEntry
  /\ entries' \in {entries} \cup (IF fate[backFacePick] = "listed"
                                  THEN {Updated(backFacePick,
                                          [EntryOf(backFacePick) EXCEPT !.back = "settled"])}
                                  ELSE {})
  /\ UNCHANGED <<lookups, labels, last, inFlight, tokens, sheet, outlineCheck,
                 newestSeen, fate, overtaken>>

ListNext ==
  \/ SendScanFrame \/ FrameAnswered \/ TapToken
  \/ ClearList \/ ToggleSheet \/ SetTokenMode \/ AnswerOutline \/ AnswerBackFace
  \/ \E i \in EntryId :
       \/ LookupFails(i) \/ RemoveEntry(i) \/ PickBackFace(i)
       \/ \E finish \in Finish :
            \/ LookupAnswered(i, finish) \/ SetFinish(i, finish) \/ SetPrinting(i, finish)
            \/ \E card \in ScanCard :
                 ReplaceCard(i, card, finish) \/ LogManual(i, card, finish)

-----------------------------------------------------------------------------
(* "Never the same card twice in a row", and "removing the latest scan lets *)
(* the same card be scanned again straight away": as long as the newest     *)
(* scan is one the loop logged, the tracker remembers its card, and once    *)
(* that scan or the list is gone it remembers none, whatever was changed,   *)
(* looked up or removed besides (removeEntry, clear).                       *)
RemembersLastScan == newestSeen # ByHand => last = newestSeen

(* Scanning pauses while a sheet or a question is on the page: the loop     *)
(* logs nothing then, also not from a frame it sent before.                 *)
PausedLogsNothing ==
  [][Len(entries') > Len(entries) /\ newestSeen' # ByHand => ~Paused]_listVars

(* "The last label wins": the label of an uploaded frame is the card and    *)
(* finish of its entry, and a removed scan's is not trusted.  A scan that   *)
(* was changed or removed while it was looked up is left out until it is    *)
(* changed again: the late answer may label it with what was seen.          *)
LabelsFollowList ==
  \A i \in EntryId \ overtaken :
    labels[i] # NotUploaded =>
      /\ fate[i] = "listed" => labels[i] = LabelOf(EntryOf(i))
      /\ fate[i] = "removed" => labels[i] = Skipped

(* What is remembered of the scans besides the list, the card the tracker   *)
(* would not log again and the labels of uploaded frames, follows the list. *)
ScansAgree == RemembersLastScan /\ LabelsFollowList
=============================================================================
