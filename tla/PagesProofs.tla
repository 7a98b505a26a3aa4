----------------------------- MODULE PagesProofs -----------------------------
(***************************************************************************)
(* Proofs about the pages of the web frontend (the import dialog, the      *)
(* lists on their way to it, the swap workbench, the tags of a deck, the   *)
(* pull list of a deck) and about the server's files: the scanner's        *)
(* bundles, the pictures of shared decks and restores of the database.     *)
(***************************************************************************)
EXTENDS AppParts, ScanProofs, FiniteSetTheorems, SequenceTheorems, TLAPS

LEMMA PageSteps ==
  /\ [WebNext]_webVars => [ImportNext]_importVars
  /\ [WebNext]_webVars => [SharedNext]_sharedVars
  /\ [WebNext]_webVars => [PullNext]_pullVars
  /\ [WebNext]_webVars => [SwapNext]_swapVars
  /\ [WebNext]_webVars => [TagsNext]_tagVars
  BY DEF WebNext, webVars, pageVars, FollowDevice, FollowFrames, FollowLock, FollowList,
         FollowImport, FollowShared, FollowPull, FollowSwap, FollowTags

-----------------------------------------------------------------------------
(* The import dialog.  Rows that are not late are of the text and pricing   *)
(* entered, on the page and on their way; auto-sort works on the rows shown *)
(* and never while a commit is under way.                                   *)
RowsTyped ==
  /\ importText \in ImportList \cup {NoList} /\ pricing \in Pricing
  /\ {preview, summary, sortCall} \subseteq Rows \cup {NoRows}
  /\ fileReads \subseteq ImportList
  /\ previewCalls \in [PreviewCall -> Rows \cup {NoRows}]

OfText(rows) ==
  rows # NoRows /\ ~rows.late => rows.list = importText /\ rows.pricing = pricing

OfPreview(rows) == rows # NoRows /\ ~rows.late => rows = [preview EXCEPT !.late = FALSE]

RowsInv ==
  /\ RowsTyped
  /\ OfText(preview) /\ \A c \in PreviewCall : OfText(previewCalls[c])
  /\ OfPreview(summary) /\ OfPreview(sortCall)

CommitInv ==
  /\ summary # NoRows => sortCall = NoRows
  /\ commits \in Nat /\ commits <= 1
  /\ commits > 0 => sortCall = NoRows /\ (commitPendingAutoSort \/ summary = NoRows)

LEMMA LateRows ==
  ASSUME NEW rows \in Rows \cup {NoRows}
  PROVE  /\ Late(rows) \in Rows \cup {NoRows}
         /\ Late(rows) # NoRows => Late(rows).late
         /\ rows = NoRows => Late(rows) = NoRows
  BY ImportAssumption DEF Late, Rows, NoRows, Pricing

LEMMA LateCallRows ==
  ASSUME RowsTyped
  PROVE  /\ LateCalls \in [PreviewCall -> Rows \cup {NoRows}]
         /\ \A c \in PreviewCall : LateCalls[c] # NoRows => LateCalls[c].late
<1>1. \A c \in PreviewCall : /\ Late(previewCalls[c]) \in Rows \cup {NoRows}
                             /\ Late(previewCalls[c]) # NoRows => Late(previewCalls[c]).late
  BY LateRows DEF RowsTyped
<1> QED
  BY <1>1 DEF LateCalls

(* Every step that changes the text, the pricing or the preview.            *)
LEMMA FreshRows ==
  ASSUME RowsInv, RowsTyped', OfText(preview)', summary' = NoRows, sortCall' = Late(sortCall),
         \/ previewCalls' = LateCalls
         \/ \A c \in PreviewCall : OfText(previewCalls[c])'
  PROVE  RowsInv'
<1>1. \A c \in PreviewCall : OfText(previewCalls[c])'
  BY LateCallRows DEF RowsInv, OfText
<1>2. Late(sortCall) # NoRows => Late(sortCall).late
  BY LateRows DEF RowsInv, RowsTyped
<1> QED
  BY <1>1, <1>2 DEF RowsInv, OfPreview

LEMMA AskedRows ==
  ASSUME RowsTyped, NEW list \in ImportList, NEW calls \in [PreviewCall -> Rows \cup {NoRows}],
         AskPreview(list, calls)
  PROVE  /\ previewCalls' \in [PreviewCall -> Rows \cup {NoRows}]
         /\ \A c \in PreviewCall :
              \/ previewCalls'[c] = calls[c]
              \/ previewCalls'[c].list = list /\ previewCalls'[c].pricing = pricing
<1>1. [list |-> list, pricing |-> pricing, picked |-> FALSE, late |-> FALSE] \in Rows
  BY DEF RowsTyped, Rows
<1>2. CASE pricing = "no amount"
  BY <1>2 DEF AskPreview
<1>3. CASE pricing # "no amount"
  <2>1. PICK c \in PreviewCall :
          previewCalls' = [calls EXCEPT ![c] = [list |-> list, pricing |-> pricing,
                                                picked |-> FALSE, late |-> FALSE]]
    BY <1>3 DEF AskPreview
  <2> QED
    BY <1>1, <2>1
<1> QED
  BY <1>2, <1>3

LEMMA RowsStep == RowsInv /\ [ImportNext]_importVars => RowsInv'
<1> SUFFICES ASSUME RowsInv, [ImportNext]_importVars PROVE RowsInv'
  OBVIOUS
<1> USE DEF RowsInv
<1>1. Late(sortCall) \in Rows \cup {NoRows}
  BY LateRows DEF RowsTyped
<1>2. ASSUME UNCHANGED <<importText, pricing, preview, fileReads>>,
             RowsTyped', \A c \in PreviewCall : previewCalls'[c] # NoRows => OfText(previewCalls[c])',
             summary' \in {NoRows, summary, sortCall}, sortCall' \in {NoRows, sortCall}
      PROVE  RowsInv'
  BY <1>2 DEF OfText, OfPreview
<1>3. CASE Update /\ importText' \in ImportList \cup {NoList} /\ pricing' \in Pricing
  <2>1. RowsTyped' /\ OfText(preview)'
    BY <1>1, <1>3, LateCallRows DEF Update, Invalidated, RowsTyped, OfText
  <2> QED
    BY <1>3, <2>1, FreshRows DEF Update
<1>4. CASE EditText \/ EditPricing
  BY <1>3, <1>4 DEF EditText, EditPricing, RowsTyped
<1>5. ASSUME NEW list \in ImportList, ShareList(list) PROVE RowsInv'
  <2>1. /\ importText' = list /\ preview' = NoRows /\ summary' = NoRows
        /\ sortCall' = Late(sortCall) /\ UNCHANGED <<pricing, fileReads>>
    BY <1>5 DEF ShareList, SetSource
  <2>2. /\ previewCalls' \in [PreviewCall -> Rows \cup {NoRows}]
        /\ \A c \in PreviewCall :
             \/ previewCalls'[c] = LateCalls[c]
             \/ previewCalls'[c].list = list /\ previewCalls'[c].pricing = pricing
    BY <1>5, AskedRows, LateCallRows DEF ShareList
  <2>3. RowsTyped'
    BY <1>1, <2>1, <2>2 DEF RowsTyped
  <2>4. \A c \in PreviewCall : OfText(previewCalls[c])'
    BY <2>1, <2>2, LateCallRows DEF OfText
  <2>5. OfText(preview)'
    BY <2>1 DEF OfText
  <2> QED
    BY <2>1, <2>3, <2>4, <2>5, FreshRows
<1>6. ASSUME NEW list \in ImportList, FileRead(list) PROVE RowsInv'
  <2>1. RowsTyped' /\ OfText(preview)'
    BY <1>1, <1>6, LateCallRows DEF FileRead, SetSource, RowsTyped, OfText
  <2> QED
    BY <1>6, <2>1, FreshRows DEF FileRead, SetSource
<1>7. CASE SubmitPreview
  <2>1. /\ UNCHANGED <<importText, pricing, preview, summary, fileReads, sortCall>>
        /\ AskPreview(importText, previewCalls) /\ importText \in ImportList
    BY <1>7 DEF SubmitPreview, RowsTyped
  <2>2. /\ previewCalls' \in [PreviewCall -> Rows \cup {NoRows}]
        /\ \A c \in PreviewCall :
             \/ previewCalls'[c] = previewCalls[c]
             \/ previewCalls'[c].list = importText /\ previewCalls'[c].pricing = pricing
    BY <2>1, AskedRows DEF RowsTyped
  <2>3. RowsTyped'
    BY <2>1, <2>2 DEF RowsTyped
  <2>4. \A c \in PreviewCall : OfText(previewCalls[c])'
    BY <2>1, <2>2 DEF OfText
  <2> QED
    BY <1>2, <2>1, <2>3, <2>4
<1>8. ASSUME NEW c \in PreviewCall, Previewed(c) PROVE RowsInv'
  <2>1. /\ previewCalls' = [previewCalls EXCEPT ![c] = NoRows] /\ preview' = previewCalls[c]
        /\ summary' = NoRows /\ sortCall' = Late(sortCall)
        /\ UNCHANGED <<importText, pricing, fileReads>>
    BY <1>8 DEF Previewed, CallEnds
  <2>2. RowsTyped' /\ OfText(preview)' /\ \A d \in PreviewCall : OfText(previewCalls[d])'
    BY <1>1, <2>1 DEF RowsTyped, OfText
  <2> QED
    BY <2>1, <2>2, FreshRows
<1>9. ASSUME NEW c \in PreviewCall, PreviewFailed(c) PROVE RowsInv'
  <2>1. /\ previewCalls' = [previewCalls EXCEPT ![c] = NoRows]
        /\ UNCHANGED <<importText, pricing, preview, summary, fileReads, sortCall>>
    BY <1>9 DEF PreviewFailed, CallEnds
  <2>2. RowsTyped' /\ \A d \in PreviewCall : OfText(previewCalls[d])'
    BY <2>1 DEF RowsTyped, OfText
  <2> QED
    BY <1>2, <2>1, <2>2
<1>10. CASE SelectCandidate
  <2>1. /\ preview' = [preview EXCEPT !.picked = TRUE,
                                      !.pricing = IF pricing = "total spend" THEN pricing ELSE @]
        /\ preview \in Rows
        /\ sortCall' = Late(sortCall) /\ summary = NoRows
        /\ UNCHANGED <<importText, pricing, summary, fileReads, previewCalls>>
    BY <1>10 DEF SelectCandidate, AtDialog, RowsTyped
  <2>2. /\ preview' \in Rows /\ preview'.list = preview.list /\ preview'.late = preview.late
        /\ preview'.pricing \in {preview.pricing, pricing}
    BY <2>1 DEF Rows, RowsTyped
  <2>3. RowsTyped'
    BY <1>1, <2>1, <2>2 DEF RowsTyped
  <2>4. preview # NoRows
    BY <1>10 DEF SelectCandidate
  <2>5. OfText(preview)' /\ \A d \in PreviewCall : OfText(previewCalls[d])'
    BY <2>1, <2>2, <2>4 DEF OfText
  <2> QED
    BY <2>1, <2>3, <2>5, FreshRows
<1>11. CASE PreviewAutoSort
  <2>1. /\ sortCall' = [preview EXCEPT !.late = FALSE] /\ preview \in Rows
        /\ UNCHANGED <<importText, pricing, preview, summary, fileReads, previewCalls>>
    BY <1>11 DEF PreviewAutoSort, Enabled, RowsTyped
  <2>2. sortCall' \in Rows
    BY <2>1 DEF Rows
  <2> QED
    BY <2>1, <2>2 DEF RowsTyped, OfText, OfPreview
<1>12. CASE AutoSortAnswered
  BY <1>12 DEF AutoSortAnswered, RowsTyped, OfText, OfPreview
<1>13. CASE Committed \/ CloseImport \/ (RequestClose /\ ~Loading)
  <2>1. Reset
    BY <1>13 DEF Committed, CloseImport, RequestClose
  <2>2. RowsTyped' /\ OfText(preview)'
    BY <1>1, <2>1, LateCallRows DEF Reset, RowsTyped, OfText, Pricing
  <2> QED
    BY <2>1, <2>2, FreshRows DEF Reset
<1>14. CASE UNCHANGED <<importText, pricing, preview, fileReads, previewCalls, sortCall>>
            /\ summary' \in {NoRows, summary}
  BY <1>14 DEF RowsTyped, OfText, OfPreview
<1>15. ASSUME NEW list \in ImportList, ChooseFile(list) PROVE RowsInv'
  BY <1>15 DEF ChooseFile, RowsTyped, OfText, OfPreview
<1>16. CASE OpenImport \/ DismissSummary \/ Commit(FALSE) \/ Commit(TRUE) \/ CommitFailed
            \/ (RequestClose /\ Loading) \/ UNCHANGED importVars
  BY <1>14, <1>16
  DEF OpenImport, DismissSummary, Commit, CommitFailed, RequestClose, importVars
<1> QED
  BY <1>4, <1>5, <1>6, <1>7, <1>8, <1>9, <1>10, <1>11, <1>12, <1>13, <1>15, <1>16 DEF ImportNext

LEMMA CommitStep == RowsInv /\ CommitInv /\ [ImportNext]_importVars => CommitInv'
<1> SUFFICES ASSUME RowsInv, CommitInv, [ImportNext]_importVars PROVE CommitInv'
  OBVIOUS
<1> USE DEF CommitInv
<1>1. sortCall = NoRows => Late(sortCall) = NoRows
  BY DEF Late
<1>2. ASSUME NEW list \in ImportList, ShareList(list) \/ ChooseFile(list) \/ FileRead(list)
      PROVE  CommitInv'
  BY <1>1, <1>2 DEF ShareList, ChooseFile, FileRead, SetSource
<1>3. CASE EditText \/ EditPricing
  BY <1>1, <1>3 DEF EditText, EditPricing, Update
<1>4. ASSUME NEW c \in PreviewCall, Previewed(c) \/ PreviewFailed(c) PROVE CommitInv'
  BY <1>1, <1>4 DEF Previewed, PreviewFailed, CallEnds
<1>5. CASE SelectCandidate \/ DismissSummary \/ OpenImport \/ SubmitPreview
  BY <1>1, <1>5 DEF SelectCandidate, DismissSummary, OpenImport, SubmitPreview, AtDialog
<1>6. CASE PreviewAutoSort \/ AutoSortAnswered
  BY <1>6 DEF PreviewAutoSort, AutoSortAnswered, AtDialog, Enabled
<1>7. CASE Commit(TRUE)
  BY <1>7 DEF Commit
<1>8. CASE Commit(FALSE)
  BY <1>8 DEF Commit, AtDialog, Enabled
<1>9. CASE Committed
  <2>1. commits = 1 /\ commits' = 0
    BY <1>9 DEF Committed
  <2>2. commits' \in Nat /\ commits' <= 1 /\ ~(commits' > 0)
    BY <2>1
  <2>3. summary' = NoRows
    BY <1>9 DEF Committed, Reset
  <2> QED
    BY <2>2, <2>3, Zenon
<1>10. CASE CommitFailed
  BY <1>10 DEF CommitFailed
<1>11. CASE CloseImport \/ RequestClose
  BY <1>1, <1>11 DEF CloseImport, RequestClose, Reset, Loading
<1>12. CASE UNCHANGED importVars
  BY <1>12 DEF importVars
<1> QED
  BY <1>2, <1>3, <1>4, <1>5, <1>6, <1>7, <1>8, <1>9, <1>10, <1>11, <1>12 DEF ImportNext

LEMMA ImportInvariant == WebSpec => [](RowsInv /\ CommitInv)
<1>1. ImportInit => RowsInv /\ CommitInv
  <2> SUFFICES ASSUME ImportInit PROVE RowsInv /\ CommitInv
    OBVIOUS
  <2>1. RowsTyped
    BY DEF ImportInit, RowsTyped, Pricing
  <2>2. \A c \in PreviewCall : OfText(previewCalls[c])
    BY DEF ImportInit, OfText
  <2>3. OfText(preview) /\ OfPreview(summary) /\ OfPreview(sortCall)
    BY DEF ImportInit, OfText, OfPreview
  <2>4. /\ commits \in Nat /\ commits <= 1 /\ ~(commits > 0)
        /\ summary = NoRows /\ sortCall = NoRows
    <3>1. commits = 0 /\ summary = NoRows /\ sortCall = NoRows
      BY Zenon DEF ImportInit
    <3> QED
      BY <3>1
  <2>5. CommitInv
    BY <2>4, Zenon DEF CommitInv
  <2> QED
    BY <2>1, <2>2, <2>3, <2>5 DEF RowsInv
<1>2. WebInit => ImportInit
  BY DEF WebInit
<1> QED
  BY <1>1, <1>2, RowsStep, CommitStep, PageSteps, PTL DEF WebSpec

(* Rows on the page are of the text and pricing entered unless these        *)
(* changed while the server worked, and one commit is under way at a time,  *)
(* for any lists and any number of calls.                                   *)
THEOREM CommitsShownRows == WebSpec => []CommitsWhatIsShown
<1>1. RowsInv => RowsOfText
  BY DEF RowsInv, OfText, OfPreview, RowsOfText
<1>2. CommitInv => OneCommit
  BY DEF CommitInv, OneCommit
<1>3. RowsInv /\ CommitInv => CommitsWhatIsShown
  BY <1>1, <1>2 DEF CommitsWhatIsShown
<1> QED
  BY <1>3, ImportInvariant, PTL

-----------------------------------------------------------------------------
(* Lists on their way to the dialog: the session's storage holds scanned    *)
(* lists only and no other place does, so what happens to another list      *)
(* leaves the fates of the scanned ones.                                    *)
SharedTyped ==
  /\ queuedImport \in Scanned \cup {NoShared}
  /\ {pendingImport, retained} \subseteq Received \cup {NoShared}
  /\ plugin \in [list : Received, reads : Nat] \cup {NoPlugin}
  /\ DOMAIN shareFate = Shared

SharedInv == SharedTyped /\ ScannedListShownOnce

ScannedFatesStay == \A s \in Scanned : shareFate'[s] = shareFate[s]

LEMMA OtherFates ==
  ASSUME SharedTyped, NEW s \in Received, NEW r \in Received \cup {NoShared}
  PROVE  /\ DOMAIN ShowList(s) = Shared /\ DOMAIN Replacing(r, s) = Shared
         /\ \A q \in Scanned : ShowList(s)[q] = shareFate[q] /\ Replacing(r, s)[q] = shareFate[q]
         /\ DOMAIN [Replacing(r, s) EXCEPT ![s] = "handed"] = Shared
         /\ \A q \in Scanned : [Replacing(r, s) EXCEPT ![s] = "handed"][q] = shareFate[q]
<1>1. \A q \in Scanned : q # s /\ q # r
  BY SharedAssumption
<1>2. DOMAIN ShowList(s) = Shared /\ \A q \in Scanned : ShowList(s)[q] = shareFate[q]
  BY <1>1 DEF ShowList, SharedTyped, Shared
<1>3. DOMAIN Replacing(r, s) = Shared /\ \A q \in Scanned : Replacing(r, s)[q] = shareFate[q]
  BY <1>1 DEF Replacing, SharedTyped, Shared
<1> QED
  BY <1>1, <1>2, <1>3 DEF Shared

LEMMA OtherStep ==
  ASSUME SharedInv, SharedTyped', ScannedFatesStay, UNCHANGED queuedImport
  PROVE  SharedInv'
  BY DEF SharedInv, ScannedFatesStay, ScannedListShownOnce

LEMMA ReceiveStep ==
  ASSUME SharedTyped, NEW s \in Received, Receive(s)
  PROVE  /\ pendingImport' \in Received \cup {NoShared}
         /\ DOMAIN shareFate' = Shared /\ ScannedFatesStay
<1>1. pendingImport \in Received \cup {NoShared}
  BY DEF SharedTyped
<1> QED
  BY <1>1, OtherFates DEF Receive, ScannedFatesStay

LEMMA PluginTyped ==
  ASSUME SharedTyped
  PROVE  /\ plugin # NoPlugin => plugin.list \in Received
         /\ ReadPlugin => plugin' \in [list : Received, reads : Nat] \cup {NoPlugin}
<1>1. CASE plugin = NoPlugin
  BY <1>1 DEF ReadPlugin, NoPlugin
<1>2. CASE plugin \in [list : Received, reads : Nat]
  BY <1>2 DEF ReadPlugin
<1> QED
  BY <1>1, <1>2 DEF SharedTyped

LEMMA SharedStep == SharedInv /\ [SharedNext]_sharedVars => SharedInv'
<1> SUFFICES ASSUME SharedInv, [SharedNext]_sharedVars PROVE SharedInv'
  OBVIOUS
<1> USE DEF SharedInv
<1>1. ASSUME NEW s \in Scanned, HandOver(s) PROVE SharedInv'
  <2> DEFINE fates == Replacing(queuedImport, s)
  <2>1. shareFate[s] = "none" /\ queuedImport # s /\ s \in Shared
    BY <1>1 DEF HandOver, ScannedListShownOnce, Shared
  <2>2. pendingImport' = NoShared /\ UNCHANGED <<plugin, retained>>
    BY <1>1 DEF HandOver, LoadPage
  <2>3. CASE queuedImport' = s /\ shareFate' = [fates EXCEPT ![s] = "handed"]
    <3>1. DOMAIN fates = Shared /\ \A q \in Scanned \ {queuedImport} : fates[q] = shareFate[q]
      BY DEF Replacing, SharedTyped, Shared
    <3>2. queuedImport \in Scanned => fates[queuedImport] = "replaced"
      BY <2>1, SharedAssumption DEF Replacing, SharedTyped, ScannedListShownOnce, Shared
    <3>3. SharedTyped'
      BY <2>2, <2>3, <3>1 DEF SharedTyped
    <3>4. \A q \in Scanned \ {s} : shareFate'[q] = fates[q]
      BY <2>3, <3>1 DEF Shared
    <3>5. shareFate'[s] = "handed"
      BY <2>1, <2>3, <3>1
    <3> QED
      BY <2>3, <3>1, <3>2, <3>3, <3>4, <3>5 DEF ScannedListShownOnce
  <2>4. CASE shareFate' = [shareFate EXCEPT ![s] = "dropped"] /\ UNCHANGED queuedImport
    BY <2>1, <2>2, <2>4 DEF SharedTyped, ScannedListShownOnce
  <2> QED
    BY <1>1, <2>3, <2>4 DEF HandOver
<1>2. ASSUME NEW s \in Received, ShareFromApp(s) PROVE SharedInv'
  <2>1. plugin' \in [list : Received, reads : Nat] /\ UNCHANGED queuedImport
    BY <1>2 DEF ShareFromApp
  <2>2. /\ {pendingImport', retained'} \subseteq Received \cup {NoShared}
        /\ shareFate' \in {[shareFate EXCEPT ![s] = "shown"],
                           [Replacing(pendingImport, s) EXCEPT ![s] = "handed"],
                           [Replacing(retained, s) EXCEPT ![s] = "handed"]}
    BY <1>2 DEF ShareFromApp, SharedTyped
  <2>3. DOMAIN shareFate' = Shared /\ ScannedFatesStay
    <3>1. CASE shareFate' = [shareFate EXCEPT ![s] = "shown"]
      BY <3>1, SharedAssumption DEF ScannedFatesStay, SharedTyped, Shared
    <3>2. ASSUME NEW r \in {pendingImport, retained},
                 shareFate' = [Replacing(r, s) EXCEPT ![s] = "handed"]
          PROVE  DOMAIN shareFate' = Shared /\ ScannedFatesStay
      <4>1. r \in Received \cup {NoShared}
        BY DEF SharedTyped
      <4> QED
        BY <3>2, <4>1, OtherFates DEF ScannedFatesStay
    <3> QED
      BY <2>2, <3>1, <3>2
  <2> QED
    BY <2>1, <2>2, <2>3, OtherStep DEF SharedTyped
<1>3. CASE PluginRead
  <2>1. UNCHANGED <<queuedImport, retained>>
    BY <1>3 DEF PluginRead
  <2>2. CASE plugin = NoPlugin
    BY <1>3, <2>2, OtherStep DEF PluginRead, SharedTyped, ScannedFatesStay
  <2>3. CASE plugin # NoPlugin
    <3>1. Receive(plugin.list) /\ ReadPlugin
      BY <1>3, <2>3 DEF PluginRead
    <3> QED
      BY <2>1, <2>3, <3>1, PluginTyped, ReceiveStep, OtherStep DEF SharedTyped
  <2> QED
    BY <2>2, <2>3
<1>4. CASE ListenerAdded
  <2>1. retained' = NoShared /\ UNCHANGED <<queuedImport, plugin>>
    BY <1>4 DEF ListenerAdded
  <2>2. CASE retained = NoShared
    BY <1>4, <2>1, <2>2, OtherStep DEF ListenerAdded, SharedTyped, ScannedFatesStay
  <2>3. CASE retained # NoShared
    <3>1. Receive(retained) /\ retained \in Received
      BY <1>4, <2>3 DEF ListenerAdded, SharedTyped
    <3> QED
      BY <2>1, <3>1, ReceiveStep, OtherStep DEF SharedTyped
  <2> QED
    BY <2>2, <2>3
<1>5. CASE MountCollection
  <2>1. /\ pendingImport' = NoShared /\ queuedImport' = NoShared /\ UNCHANGED <<plugin, retained>>
    BY <1>5 DEF MountCollection, Unqueued
  <2>2. CASE Waiting = NoShared
    <3>1. queuedImport = NoShared /\ shareFate' = shareFate
      BY <1>5, <2>2 DEF MountCollection, Waiting
    <3> QED
      BY <2>1, <3>1 DEF SharedTyped, ScannedListShownOnce
  <2>3. CASE Waiting # NoShared
    <3> DEFINE fates == Replacing(queuedImport, Waiting)
    <3>1. shareFate' = [fates EXCEPT ![Waiting] = After(@)] /\ Waiting \in Shared
      BY <1>5, <2>3 DEF MountCollection, Waiting, SharedTyped, Shared
    <3>2. /\ DOMAIN fates = Shared
          /\ \A q \in Scanned \ {queuedImport} : fates[q] = shareFate[q]
      BY DEF Replacing, SharedTyped, Shared
    <3>3. \A q \in Scanned \ {queuedImport} : q # Waiting /\ shareFate'[q] = shareFate[q]
      BY <3>1, <3>2, SharedAssumption DEF Waiting, SharedTyped, Shared
    <3>4. ASSUME queuedImport \in Scanned PROVE shareFate'[queuedImport] \in {"replaced", "shown"}
      <4>1. shareFate[queuedImport] = "handed" /\ queuedImport # NoShared /\ queuedImport \in Shared
        BY <3>4, SharedAssumption DEF ScannedListShownOnce, Shared
      <4>2. CASE Waiting = queuedImport
        BY <3>1, <3>2, <4>1, <4>2 DEF Replacing, After
      <4>3. CASE Waiting # queuedImport
        BY <3>1, <3>2, <4>1, <4>3 DEF Replacing, SharedTyped
      <4> QED
        BY <4>2, <4>3
    <3>5. DOMAIN shareFate' = Shared
      BY <3>1, <3>2
    <3> QED
      BY <2>1, <3>3, <3>4, <3>5, SharedAssumption DEF SharedTyped, ScannedListShownOnce
  <2> QED
    BY <2>2, <2>3
<1>6. CASE TakeAnswered
  <2>1. /\ ReadPlugin /\ UNCHANGED <<pendingImport, queuedImport, retained>>
    BY <1>6 DEF TakeAnswered
  <2>2. DOMAIN shareFate' = Shared /\ ScannedFatesStay
    <3>1. CASE shareFate' = shareFate
      BY <3>1 DEF ScannedFatesStay, SharedTyped
    <3>2. CASE shareFate' = ShowList(plugin.list) /\ plugin # NoPlugin
      <4>1. plugin.list \in Received
        BY <3>2, PluginTyped
      <4> QED
        BY <3>2, <4>1, OtherFates DEF ScannedFatesStay
    <3> QED
      BY <1>6, <3>1, <3>2 DEF TakeAnswered
  <2> QED
    BY <2>1, <2>2, PluginTyped, OtherStep DEF SharedTyped
<1>7. CASE LeaveCollection \/ OpenScanner \/ Expire \/ UNCHANGED sharedVars
  <2>1. /\ UNCHANGED <<queuedImport, retained, shareFate>>
        /\ pendingImport' \in {NoShared, pendingImport} /\ plugin' \in {NoPlugin, plugin}
    BY <1>7 DEF LeaveCollection, OpenScanner, LoadPage, Expire, sharedVars
  <2> QED
    BY <2>1, OtherStep DEF SharedTyped, ScannedFatesStay
<1> QED
  BY <1>1, <1>2, <1>3, <1>4, <1>5, <1>6, <1>7 DEF SharedNext

LEMMA SharedInvariant == WebSpec => []SharedInv
<1>1. SharedInit => SharedInv
  BY SharedAssumption DEF SharedInit, SharedInv, SharedTyped, ScannedListShownOnce, Shared
<1>2. WebInit => SharedInit
  BY DEF WebInit
<1> QED
  BY <1>1, <1>2, SharedStep, PageSteps, PTL DEF WebSpec

(* A scanned list is shown once, for any lists and any number of them.      *)
THEOREM ScannedOnce == WebSpec => []ScannedListShownOnce
<1>1. SharedInv => ScannedListShownOnce
  BY DEF SharedInv
<1> QED
  BY <1>1, SharedInvariant, PTL

-----------------------------------------------------------------------------
(* The swap: an answer is kept for the current question only, and once no   *)
(* edit is pending the current question is what is staged.                  *)
SwapFields == {"cuts", "toBoard", "considering", "search"}

SwapInv ==
  /\ DOMAIN swap = SwapFields /\ DOMAIN debouncedSwap = SwapFields
  /\ settled => debouncedSwap = swap
  /\ previewData # NoSwap => previewData = debouncedSwap
  /\ ~previewing /\ debouncedSwap # EmptySwap /\ ~previewError => previewData = debouncedSwap

LEMMA EditFields ==
  ASSUME DOMAIN swap = SwapFields, NEW s \in Edits(swap)
  PROVE  DOMAIN s = SwapFields
  BY DEF Edits, ToggleCut, SetCutQuantity, ToggleConsidering, StageSearched, AddChip, AddByName

LEMMA EmptyFields == DOMAIN EmptySwap = SwapFields /\ DOMAIN NoSwap # SwapFields
  BY DEF EmptySwap, NoSwap, SwapFields

LEMMA SwapStep == SwapInv /\ [SwapNext]_swapVars => SwapInv'
<1> SUFFICES ASSUME SwapInv, [SwapNext]_swapVars PROVE SwapInv'
  OBVIOUS
<1> USE DEF SwapInv
<1>1. CASE SwapClosed
  BY <1>1, EmptyFields DEF SwapClosed
<1>2. CASE Edit
  BY <1>2, EditFields DEF Edit
<1>3. CASE Debounce
  BY <1>3 DEF Debounce
<1>4. CASE AnswerPreview
  BY <1>4 DEF AnswerPreview
<1>5. CASE ConfirmDiscard
  BY <1>1, <1>5, EmptyFields DEF ConfirmDiscard
<1>6. CASE OpenSwap \/ ApplySwap \/ SwapFails \/ Discard \/ KeepEditing \/ UNCHANGED swapVars
  BY <1>6 DEF OpenSwap, ApplySwap, SwapFails, Discard, KeepEditing, swapVars, previewVars
<1>7. CASE SwapApplied \/ CloseButton \/ Escape
  BY <1>1, <1>7 DEF SwapApplied, CloseButton, Escape, RequestSwapClose, Refuse, previewVars
<1> QED
  BY <1>2, <1>3, <1>4, <1>5, <1>6, <1>7 DEF SwapNext

(* A verdict that is not marked stale is on what is staged, for any cards   *)
(* and any number of copies.                                                *)
THEOREM CurrentVerdict == WebSpec => []VerdictIsCurrent
<1>1. SwapInit => SwapInv
  BY EmptyFields DEF SwapInit, SwapInv
<1>2. SwapInv => VerdictIsCurrent
  BY EmptyFields DEF SwapInv, VerdictIsCurrent, Legality, Stale, Verdict
<1>3. WebInit => SwapInit
  BY DEF WebInit
<1> QED
  BY <1>1, <1>2, <1>3, SwapStep, PageSteps, PTL DEF WebSpec

-----------------------------------------------------------------------------
(* Tags.  Answers that come in the order the server worked are replayed on  *)
(* the cache: the tags of a card are the server's once what is under way is *)
(* applied to them (Follows), unless the newest tap on the card still waits *)
(* for the server (Hanging).  What a tap that was made alone puts back is   *)
(* what the server has (RollsBack).                                         *)
OpFields == {"state", "kind", "card", "tag", "shared", "previousTags", "previousCount",
             "at", "tags", "counts"}
IsOp(op) ==
  /\ DOMAIN op = OpFields
  /\ op.state \in {"sent", "applied", "refused", "done"}
  /\ op.kind \in Kinds /\ op.card \in TagCard /\ op.tag \in CustomTag
  /\ op.shared \in BOOLEAN
  /\ op.previousTags \subseteq CustomTag /\ op.tags \subseteq CustomTag
  /\ op.at \in Nat

TagsShape ==
  /\ cachedTags \in Tagged /\ storedTags \in Tagged
  /\ opSeq \in [TagCard -> Nat] /\ appliedOps \in Nat /\ newestAnswer \in Nat
  /\ tagOvertaken \in BOOLEAN /\ muddled \in BOOLEAN
  /\ \E k \in Nat : DOMAIN tagOps = 1 .. k
  /\ \A n \in DOMAIN tagOps : IsOp(tagOps[n])

AppliedOp(n) == tagOps[n].state = "applied"
Unanswered(n) == tagOps[n].state \in {"sent", "refused"}

TagsWait ==
  /\ \A n \in DOMAIN tagOps : AppliedOp(n) =>
       /\ 1 <= tagOps[n].at /\ tagOps[n].at <= appliedOps
       /\ \A m \in DOMAIN tagOps : AppliedOp(m) /\ tagOps[m].at = tagOps[n].at => m = n
  /\ \A n \in DOMAIN tagOps : Flying(n) /\ ~tagOps[n].shared =>
       \A m \in DOMAIN tagOps : Flying(m) => m = n
  /\ \A c \in TagCard : opSeq[c] # 0 =>
       /\ opSeq[c] \in DOMAIN tagOps
       /\ tagOps[opSeq[c]].kind # "delete" /\ tagOps[opSeq[c]].card = c

OnCard(c) == {n \in DOMAIN tagOps : AppliedOp(n) /\ tagOps[n].kind # "delete" /\ tagOps[n].card = c}
Deleting(after) ==
  {t \in CustomTag : \E n \in DOMAIN tagOps : /\ AppliedOp(n) /\ tagOps[n].kind = "delete"
                                              /\ tagOps[n].at > after /\ tagOps[n].tag = t}
Hanging(c) == opSeq[c] # 0 /\ Unanswered(opSeq[c])

Unmuddled == ~tagOvertaken /\ ~muddled
InOrder == Unmuddled /\ \A n \in DOMAIN tagOps : AppliedOp(n) => tagOps[n].at >= newestAnswer

LastOn(c, n) == n \in OnCard(c) /\ \A m \in OnCard(c) : tagOps[m].at <= tagOps[n].at
Follows(c) ==
  /\ OnCard(c) = {} => Hanging(c) \/ cachedTags[c] \ Deleting(0) = storedTags[c]
  /\ \A n, a : LastOn(c, n) /\ tagOps[n].at = a => storedTags[c] = tagOps[n].tags \ Deleting(a)

RollsBack ==
  \A n \in DOMAIN tagOps :
    Unanswered(n) /\ tagOps[n].kind # "delete" /\ ~tagOps[n].shared =>
      tagOps[n].previousTags = storedTags[tagOps[n].card]

TagsInv ==
  /\ TagsShape /\ TagsWait
  /\ Unmuddled => RollsBack
  /\ InOrder => \A c \in TagCard : Follows(c)

(* With nothing under way the cache is the server's.                        *)
LEMMA QuietFollows ==
  ASSUME TagsInv, Quiet, Unmuddled
  PROVE  cachedTags = storedTags
<1>1. ASSUME NEW c \in TagCard PROVE cachedTags[c] = storedTags[c]
  <2>1. \A n \in DOMAIN tagOps : ~AppliedOp(n) /\ ~Unanswered(n)
    BY DEF Quiet, Flying, AppliedOp, Unanswered
  <2>2. OnCard(c) = {} /\ Deleting(0) = {} /\ ~Hanging(c)
    BY <2>1 DEF OnCard, Deleting, Hanging, TagsInv, TagsWait
  <2>3. Follows(c)
    BY <2>1 DEF TagsInv, InOrder
  <2> QED
    BY <2>2, <2>3 DEF Follows
<1> QED
  BY <1>1 DEF TagsInv, TagsShape, Tagged

LEMMA TapSent ==
  ASSUME TagsShape, NEW op, IsOp(op), op.state = "sent", Sent(op),
         NEW k \in Nat, DOMAIN tagOps = 1 .. k
  PROVE  /\ Cardinality(DOMAIN tagOps) = k
         /\ DOMAIN tagOps' = 1 .. (k + 1)
         /\ \A n \in 1 .. k : IsOp(tagOps'[n])
         /\ \A n \in 1 .. k :
              tagOps'[n] = IF Flying(n) THEN [tagOps[n] EXCEPT !.shared = TRUE] ELSE tagOps[n]
         /\ IsOp(tagOps'[k + 1])
         /\ tagOps'[k + 1] = [op EXCEPT !.shared = ~Quiet]
<1>1. Cardinality(1 .. k) = k
  BY FS_Interval
<1>2. DOMAIN tagOps' = 1 .. (k + 1)
  BY <1>1 DEF Sent
<1>3. tagOps'[k + 1] = [op EXCEPT !.shared = ~Quiet]
  BY <1>1 DEF Sent
<1>4. \A n \in 1 .. k :
        tagOps'[n] = IF Flying(n) THEN [tagOps[n] EXCEPT !.shared = TRUE] ELSE tagOps[n]
  BY <1>1 DEF Sent
<1>5. IsOp([op EXCEPT !.shared = ~Quiet])
  BY DEF IsOp, OpFields
<1>6. \A n \in 1 .. k : IsOp([tagOps[n] EXCEPT !.shared = TRUE]) /\ IsOp(tagOps[n])
  BY DEF IsOp, OpFields, TagsShape
<1> QED
  BY <1>1, <1>2, <1>3, <1>4, <1>5, <1>6

(* A tap is sent: what is under way stays under way.                        *)
LEMMA TapKeeps ==
  ASSUME TagsInv, NEW op, IsOp(op), op.state = "sent", Sent(op),
         UNCHANGED <<storedTags, appliedOps, newestAnswer, tagOvertaken, muddled>>,
         cachedTags' \in Tagged, opSeq' \in [TagCard -> Nat],
         op.kind # "delete" =>
           /\ op.previousTags = cachedTags[op.card]
           /\ opSeq' = [opSeq EXCEPT ![op.card] = Cardinality(DOMAIN tagOps) + 1]
           /\ \A c \in TagCard : c # op.card => cachedTags'[c] = cachedTags[c],
         op.kind = "delete" => UNCHANGED <<opSeq, cachedTags>>
  PROVE  TagsInv'
<1>1. PICK k \in Nat : DOMAIN tagOps = 1 .. k
  BY DEF TagsInv, TagsShape
<1>2. /\ Cardinality(DOMAIN tagOps) = k
      /\ DOMAIN tagOps' = 1 .. (k + 1)
      /\ \A n \in 1 .. k : IsOp(tagOps'[n])
      /\ \A n \in 1 .. k :
           tagOps'[n] = IF Flying(n) THEN [tagOps[n] EXCEPT !.shared = TRUE] ELSE tagOps[n]
      /\ IsOp(tagOps'[k + 1])
      /\ tagOps'[k + 1] = [op EXCEPT !.shared = ~Quiet]
  BY <1>1, TapSent DEF TagsInv
<1>3. ASSUME NEW n \in 1 .. k
      PROVE  /\ n \in DOMAIN tagOps /\ n \in DOMAIN tagOps' /\ n # k + 1
             /\ tagOps'[n].state = tagOps[n].state /\ tagOps'[n].kind = tagOps[n].kind
             /\ tagOps'[n].card = tagOps[n].card /\ tagOps'[n].tag = tagOps[n].tag
             /\ tagOps'[n].previousTags = tagOps[n].previousTags
             /\ tagOps'[n].at = tagOps[n].at /\ tagOps'[n].tags = tagOps[n].tags
             /\ ~tagOps'[n].shared => ~tagOps[n].shared /\ ~Flying(n)
             /\ Flying(n)' <=> Flying(n)
             /\ AppliedOp(n)' <=> AppliedOp(n)
             /\ Unanswered(n)' <=> Unanswered(n)
  <2>1. DOMAIN tagOps[n] = OpFields
    BY <1>1 DEF TagsInv, TagsShape, IsOp
  <2>2. n \in DOMAIN tagOps /\ n \in DOMAIN tagOps' /\ n # k + 1
    BY <1>1, <1>2
  <2>3. CASE Flying(n)
    <3>1. tagOps'[n] = [tagOps[n] EXCEPT !.shared = TRUE]
      BY <1>2, <2>3
    <3>2. tagOps'[n].shared /\ \A f \in OpFields \ {"shared"} : tagOps'[n][f] = tagOps[n][f]
      BY <2>1, <3>1 DEF OpFields
    <3> QED
      BY <2>2, <3>2 DEF OpFields, Flying, AppliedOp, Unanswered
  <2>4. CASE ~Flying(n)
    <3>1. tagOps'[n] = tagOps[n]
      BY <1>2, <2>4
    <3> QED
      BY <2>2, <2>4, <3>1 DEF Flying, AppliedOp, Unanswered
  <2> QED
    BY <2>3, <2>4
<1>4. /\ k + 1 \in DOMAIN tagOps' /\ k + 1 \notin DOMAIN tagOps
      /\ tagOps'[k + 1].state = "sent" /\ tagOps'[k + 1].kind = op.kind
      /\ tagOps'[k + 1].card = op.card /\ tagOps'[k + 1].previousTags = op.previousTags
      /\ tagOps'[k + 1].shared = ~Quiet
      /\ ~AppliedOp(k + 1)' /\ Unanswered(k + 1)'
  BY <1>1, <1>2 DEF IsOp, OpFields, AppliedOp, Unanswered
<1>5. \A n \in DOMAIN tagOps' : n \in 1 .. k \/ n = k + 1
  BY <1>2
<1>6. TagsShape'
  BY <1>2, <1>5 DEF TagsInv, TagsShape
<1>7. TagsWait'
  <2>1. \A n \in DOMAIN tagOps' : AppliedOp(n)' =>
           /\ 1 <= tagOps'[n].at /\ tagOps'[n].at <= appliedOps'
           /\ \A m \in DOMAIN tagOps' : AppliedOp(m)' /\ tagOps'[m].at = tagOps'[n].at => m = n
    BY <1>3, <1>4, <1>5 DEF TagsInv, TagsWait
  <2>2. \A n \in DOMAIN tagOps' : Flying(n)' /\ ~tagOps'[n].shared =>
          \A m \in DOMAIN tagOps' : Flying(m)' => m = n
    BY <1>1, <1>3, <1>4, <1>5 DEF Quiet
  <2>3. ASSUME NEW c \in TagCard, opSeq'[c] # 0
        PROVE  /\ opSeq'[c] \in DOMAIN tagOps'
               /\ tagOps'[opSeq'[c]].kind # "delete" /\ tagOps'[opSeq'[c]].card = c
    <3>1. CASE op.kind # "delete" /\ op.card = c
      BY <1>2, <1>4, <3>1 DEF TagsInv, TagsShape
    <3>2. CASE ~(op.kind # "delete" /\ op.card = c)
      <4>1. opSeq'[c] = opSeq[c]
        BY <3>2 DEF TagsInv, TagsShape
      <4> QED
        BY <1>1, <1>3, <2>3, <4>1 DEF TagsInv, TagsWait
    <3> QED
      BY <3>1, <3>2
  <2> QED
    BY <2>1, <2>2, <2>3 DEF TagsWait
<1>8. ASSUME Unmuddled' PROVE RollsBack'
  <2>1. Unmuddled
    BY <1>8 DEF Unmuddled
  <2>2. ASSUME op.kind # "delete", Quiet PROVE op.previousTags = storedTags[op.card]
    BY <2>1, <2>2, QuietFollows DEF TagsInv
  <2>3. \A n \in 1 .. k : Unanswered(n) => Flying(n)
    BY DEF Unanswered, Flying
  <2> QED
    BY <1>3, <1>4, <1>5, <2>2, <2>3 DEF RollsBack
<1>9. ASSUME InOrder', NEW c \in TagCard PROVE Follows(c)'
  <2>1. InOrder
    BY <1>1, <1>3, <1>9 DEF InOrder, Unmuddled
  <2>2. Follows(c)
    BY <2>1 DEF TagsInv
  <2>3. OnCard(c)' = OnCard(c)
    BY <1>1, <1>3, <1>4, <1>5 DEF OnCard
  <2>4. \A a : Deleting(a)' = Deleting(a)
    BY <1>1, <1>3, <1>4, <1>5 DEF Deleting
  <2>5. ASSUME OnCard(c) = {} PROVE Hanging(c)' \/ cachedTags'[c] \ Deleting(0) = storedTags[c]
    <3>1. CASE op.kind # "delete" /\ op.card = c
      BY <1>2, <1>4, <3>1 DEF Hanging, TagsInv, TagsShape
    <3>2. CASE ~(op.kind # "delete" /\ op.card = c)
      <4>1. opSeq'[c] = opSeq[c] /\ cachedTags'[c] = cachedTags[c]
        BY <3>2 DEF TagsInv, TagsShape
      <4>2. Hanging(c) => opSeq[c] \in 1 .. k
        BY <1>1 DEF Hanging, TagsInv, TagsWait
      <4> QED
        BY <1>3, <2>2, <2>5, <4>1, <4>2 DEF Hanging, Follows
    <3> QED
      BY <3>1, <3>2
  <2>6. \A n \in OnCard(c) : tagOps'[n].at = tagOps[n].at /\ tagOps'[n].tags = tagOps[n].tags
    BY <1>1, <1>3 DEF OnCard
  <2> QED
    BY <2>2, <2>3, <2>4, <2>5, <2>6 DEF Follows, LastOn
<1> QED
  BY <1>6, <1>7, <1>8, <1>9 DEF TagsInv

(* One tap is carried out, refused or settled.                              *)
LEMMA OpMoves ==
  ASSUME TagsShape, NEW n \in DOMAIN tagOps, NEW op, IsOp(op), tagOps' = [tagOps EXCEPT ![n] = op],
         op.kind = tagOps[n].kind, op.card = tagOps[n].card, op.tag = tagOps[n].tag,
         op.shared = tagOps[n].shared
  PROVE  /\ DOMAIN tagOps' = DOMAIN tagOps
         /\ tagOps'[n] = op
         /\ \A m \in DOMAIN tagOps : m # n => tagOps'[m] = tagOps[m]
         /\ \A m \in DOMAIN tagOps' : IsOp(tagOps'[m])
         /\ \E k \in Nat : DOMAIN tagOps' = 1 .. k
         /\ \A m \in DOMAIN tagOps : /\ tagOps'[m].kind = tagOps[m].kind
                                     /\ tagOps'[m].card = tagOps[m].card
                                     /\ tagOps'[m].tag = tagOps[m].tag
                                     /\ tagOps'[m].shared = tagOps[m].shared
  BY DEF TagsShape

(* Whether a tap that was tapped alone is still alone.                      *)
LEMMA StaysAlone ==
  ASSUME TagsInv, TagsShape', NEW n \in DOMAIN tagOps, Flying(n), opSeq' = opSeq,
         DOMAIN tagOps' = DOMAIN tagOps,
         \A m \in DOMAIN tagOps : m # n => tagOps'[m] = tagOps[m],
         \A m \in DOMAIN tagOps : /\ tagOps'[m].kind = tagOps[m].kind
                                  /\ tagOps'[m].card = tagOps[m].card
                                  /\ tagOps'[m].shared = tagOps[m].shared,
         appliedOps' \in Nat, appliedOps <= appliedOps',
         AppliedOp(n)' => /\ appliedOps' = appliedOps + 1 /\ tagOps'[n].at = appliedOps'
  PROVE  TagsWait'
<1>1. \A m \in DOMAIN tagOps : m # n => /\ Flying(m)' <=> Flying(m)
                                        /\ AppliedOp(m)' <=> AppliedOp(m)
  BY DEF Flying, AppliedOp
<1>2. \A m \in DOMAIN tagOps' : AppliedOp(m)' =>
         /\ 1 <= tagOps'[m].at /\ tagOps'[m].at <= appliedOps'
         /\ \A l \in DOMAIN tagOps' : AppliedOp(l)' /\ tagOps'[l].at = tagOps'[m].at => l = m
  <2>1. \A m \in DOMAIN tagOps : AppliedOp(m) =>
          tagOps[m].at \in Nat /\ 1 <= tagOps[m].at /\ tagOps[m].at <= appliedOps
    BY DEF TagsInv, TagsWait, TagsShape, IsOp
  <2>2. \A l, m \in DOMAIN tagOps :
          AppliedOp(m) /\ AppliedOp(l) /\ tagOps[l].at = tagOps[m].at => l = m
    BY DEF TagsInv, TagsWait
  <2>3. appliedOps \in Nat
    BY DEF TagsInv, TagsShape
  <2> QED
    BY <1>1, <2>1, <2>2, <2>3
<1>3. \A m \in DOMAIN tagOps' : Flying(m)' /\ ~tagOps'[m].shared =>
        \A l \in DOMAIN tagOps' : Flying(l)' => l = m
  BY <1>1 DEF TagsInv, TagsWait
<1>4. \A c \in TagCard : opSeq'[c] # 0 =>
        /\ opSeq'[c] \in DOMAIN tagOps'
        /\ tagOps'[opSeq'[c]].kind # "delete" /\ tagOps'[opSeq'[c]].card = c
  BY DEF TagsInv, TagsWait
<1> QED
  BY <1>2, <1>3, <1>4 DEF TagsWait

LEMMA ServerStep ==
  ASSUME TagsInv, NEW n \in DOMAIN tagOps, ServerApplies(n)
  PROVE  TagsInv'
<1> DEFINE op == [tagOps[n] EXCEPT !.state = "applied", !.at = appliedOps + 1,
                              !.tags = ServerTags(tagOps[n])[tagOps[n].card],
                              !.counts = CountIn(ServerTags(tagOps[n]))]
<1>1. IsOp(tagOps[n]) /\ tagOps[n].state = "sent"
  BY DEF TagsInv, TagsShape, ServerApplies
<1>2. ServerTags(tagOps[n]) \in Tagged
  BY <1>1 DEF TagsInv, TagsShape, ServerTags, Tagged, IsOp, Kinds
<1>3. /\ op.state = "applied" /\ op.at = appliedOps + 1
      /\ op.tags = ServerTags(tagOps[n])[tagOps[n].card]
      /\ op.kind = tagOps[n].kind /\ op.card = tagOps[n].card /\ op.tag = tagOps[n].tag
      /\ op.shared = tagOps[n].shared /\ op.previousTags = tagOps[n].previousTags
      /\ DOMAIN op = OpFields
  BY <1>1 DEF IsOp, OpFields
<1>4. IsOp(op)
  BY <1>1, <1>2, <1>3 DEF IsOp, Tagged, TagsInv, TagsShape
<1>5. tagOps' = [tagOps EXCEPT ![n] = op]
  BY DEF ServerApplies
<1> HIDE DEF op
<1>6. /\ DOMAIN tagOps' = DOMAIN tagOps /\ tagOps'[n] = op
      /\ \A m \in DOMAIN tagOps : m # n => tagOps'[m] = tagOps[m]
      /\ \A m \in DOMAIN tagOps' : IsOp(tagOps'[m])
      /\ \E k \in Nat : DOMAIN tagOps' = 1 .. k
      /\ \A m \in DOMAIN tagOps : /\ tagOps'[m].kind = tagOps[m].kind
                                  /\ tagOps'[m].card = tagOps[m].card
                                  /\ tagOps'[m].tag = tagOps[m].tag
                                  /\ tagOps'[m].shared = tagOps[m].shared
  BY <1>3, <1>4, <1>5, OpMoves DEF TagsInv
<1>7. /\ storedTags' = ServerTags(tagOps[n]) /\ appliedOps' = appliedOps + 1
      /\ UNCHANGED <<cachedTags, opSeq, newestAnswer, tagOvertaken, muddled>>
  BY DEF ServerApplies
<1>8. TagsShape'
  BY <1>2, <1>6, <1>7 DEF TagsInv, TagsShape
<1>9. TagsWait'
  BY <1>1, <1>3, <1>6, <1>7, <1>8, StaysAlone DEF TagsInv, TagsShape, Flying, AppliedOp
<1>10. RollsBack'
  <2>1. Flying(n)' /\ ~Unanswered(n)'
    BY <1>3, <1>6 DEF Flying, Unanswered
  <2>2. \A m \in DOMAIN tagOps' : Unanswered(m)' => Flying(m)'
    BY DEF Unanswered, Flying
  <2> QED
    BY <1>6, <1>9, <2>1, <2>2 DEF TagsWait, RollsBack
<1>11. ASSUME InOrder', NEW c \in TagCard PROVE Follows(c)'
  <2>1. \A m \in DOMAIN tagOps : m # n => /\ AppliedOp(m)' <=> AppliedOp(m)
                                          /\ Unanswered(m)' <=> Unanswered(m)
    BY <1>6 DEF AppliedOp, Unanswered
  <2>2. ~AppliedOp(n) /\ AppliedOp(n)' /\ tagOps'[n].at = appliedOps + 1
    BY <1>1, <1>3, <1>6 DEF AppliedOp
  <2>3. InOrder
    BY <1>6, <1>7, <1>11, <2>1, <2>2 DEF InOrder, Unmuddled
  <2>4. Follows(c)
    BY <2>3 DEF TagsInv
  <2>5. \A m \in DOMAIN tagOps : AppliedOp(m) => tagOps[m].at \in Nat /\ tagOps[m].at <= appliedOps
    BY DEF TagsInv, TagsWait, TagsShape, IsOp
  <2>6. appliedOps \in Nat
    BY DEF TagsInv, TagsShape
  <2>7. CASE op.kind = "delete"
    <3>1. OnCard(c)' = OnCard(c)
      BY <1>3, <1>6, <2>1, <2>2, <2>7 DEF OnCard
    <3>2. storedTags'[c] = storedTags[c] \ {op.tag}
      BY <1>3, <1>7, <2>7 DEF ServerTags
    <3>3. ASSUME NEW a \in Nat, a <= appliedOps PROVE Deleting(a)' = Deleting(a) \cup {op.tag}
      <4>1. op.tag \in CustomTag
        BY <1>4 DEF IsOp
      <4>2. \A t : t \in Deleting(a)' <=> t \in Deleting(a) \/ t = op.tag
        BY <1>1, <1>3, <1>6, <2>1, <2>2, <2>6, <2>7, <3>3, <4>1 DEF Deleting
      <4> QED
        BY <4>2
    <3>4. \A m \in OnCard(c) : /\ m # n /\ tagOps'[m] = tagOps[m]
                                /\ tagOps[m].at \in Nat /\ tagOps[m].at <= appliedOps
      BY <1>6, <2>2, <2>5 DEF OnCard
    <3>5. OnCard(c) = {} => Hanging(c)' \/ cachedTags[c] \ Deleting(0)' = storedTags'[c]
      <4>1. opSeq[c] # n \/ opSeq[c] = 0
        BY <1>3, <2>7 DEF TagsInv, TagsWait
      <4>2. Hanging(c) => Hanging(c)'
        BY <1>7, <2>1, <4>1 DEF Hanging, TagsInv, TagsWait
      <4> QED
        BY <2>4, <2>6, <3>2, <3>3, <4>2 DEF Follows
    <3>6. ASSUME NEW m, NEW a, LastOn(c, m)', tagOps'[m].at = a
          PROVE  storedTags'[c] = tagOps'[m].tags \ Deleting(a)'
      <4>1. LastOn(c, m) /\ tagOps'[m] = tagOps[m] /\ a \in Nat /\ a <= appliedOps
        BY <3>1, <3>4, <3>6 DEF LastOn
      <4>2. storedTags[c] = tagOps[m].tags \ Deleting(a)
        BY <2>4, <3>6, <4>1 DEF Follows
      <4> QED
        BY <3>2, <3>3, <4>1, <4>2
    <3> QED
      BY <1>7, <3>1, <3>5, <3>6 DEF Follows
  <2>8. CASE op.kind # "delete" /\ op.card = c
    <3>1. n \in OnCard(c)'
      BY <1>3, <1>6, <2>2, <2>8 DEF OnCard
    <3>2. \A m : LastOn(c, m)' => m = n
      <4>1. ASSUME NEW m, LastOn(c, m)', m # n PROVE FALSE
        <5>1. m \in DOMAIN tagOps /\ AppliedOp(m) /\ tagOps'[m] = tagOps[m]
          BY <1>6, <2>1, <4>1 DEF LastOn, OnCard
        <5>2. tagOps'[n].at <= tagOps'[m].at
          BY <3>1, <4>1 DEF LastOn
        <5> QED
          BY <2>2, <2>5, <2>6, <5>1, <5>2
      <4> QED
        BY <4>1
    <3>3. \A a : a = appliedOps + 1 => Deleting(a)' = {}
      <4>1. \A m \in DOMAIN tagOps' : AppliedOp(m)' => ~(tagOps'[m].at > appliedOps + 1)
        BY <1>6, <2>1, <2>2, <2>5, <2>6
      <4> QED
        BY <4>1 DEF Deleting
    <3>4. storedTags'[c] = tagOps'[n].tags
      BY <1>3, <1>6, <1>7, <2>8
    <3> QED
      BY <2>2, <3>1, <3>2, <3>3, <3>4 DEF Follows
  <2>9. CASE op.kind # "delete" /\ op.card # c
    <3>1. OnCard(c)' = OnCard(c)
      BY <1>3, <1>6, <2>1, <2>2, <2>9 DEF OnCard
    <3>2. storedTags'[c] = storedTags[c]
      BY <1>1, <1>3, <1>7, <2>9 DEF ServerTags, IsOp, Kinds, TagsInv, TagsShape, Tagged
    <3>3. \A a : Deleting(a)' = Deleting(a)
      BY <1>3, <1>6, <2>1, <2>2, <2>9 DEF Deleting
    <3>4. \A m \in OnCard(c) : tagOps'[m] = tagOps[m]
      BY <1>6, <2>2 DEF OnCard
    <3>5. Hanging(c) => Hanging(c)'
      <4>1. opSeq[c] # n \/ opSeq[c] = 0
        BY <1>3, <2>9 DEF TagsInv, TagsWait
      <4> QED
        BY <1>7, <2>1, <4>1 DEF Hanging, TagsInv, TagsWait
    <3> QED
      BY <1>7, <2>4, <3>1, <3>2, <3>3, <3>4, <3>5 DEF Follows, LastOn
  <2> QED
    BY <2>7, <2>8, <2>9
<1> QED
  BY <1>8, <1>9, <1>10, <1>11 DEF TagsInv

LEMMA AnswerStep ==
  ASSUME TagsInv, NEW n \in DOMAIN tagOps, Answered(n)
  PROVE  TagsInv'
<1> DEFINE op == [tagOps[n] EXCEPT !.state = "done"]
<1>1. IsOp(tagOps[n]) /\ tagOps[n].state = "applied"
  BY DEF TagsInv, TagsShape, Answered
<1>2. /\ op.state = "done" /\ op.at = tagOps[n].at /\ op.tags = tagOps[n].tags
      /\ op.kind = tagOps[n].kind /\ op.card = tagOps[n].card /\ op.tag = tagOps[n].tag
      /\ op.shared = tagOps[n].shared /\ op.previousTags = tagOps[n].previousTags
      /\ DOMAIN op = OpFields
  BY <1>1 DEF IsOp, OpFields
<1>3. IsOp(op)
  BY <1>1, <1>2 DEF IsOp
<1>4. tagOps' = [tagOps EXCEPT ![n] = op]
  BY DEF Answered
<1> HIDE DEF op
<1>5. /\ DOMAIN tagOps' = DOMAIN tagOps /\ tagOps'[n] = op
      /\ \A m \in DOMAIN tagOps : m # n => tagOps'[m] = tagOps[m]
      /\ \A m \in DOMAIN tagOps' : IsOp(tagOps'[m])
      /\ \E k \in Nat : DOMAIN tagOps' = 1 .. k
      /\ \A m \in DOMAIN tagOps : /\ tagOps'[m].kind = tagOps[m].kind
                                  /\ tagOps'[m].card = tagOps[m].card
                                  /\ tagOps'[m].tag = tagOps[m].tag
                                  /\ tagOps'[m].shared = tagOps[m].shared
  BY <1>2, <1>3, <1>4, OpMoves DEF TagsInv
<1>6. /\ UNCHANGED <<storedTags, opSeq, appliedOps, muddled>>
      /\ newestAnswer' = IF tagOps[n].at > newestAnswer THEN tagOps[n].at ELSE newestAnswer
      /\ ~tagOvertaken' => ~tagOvertaken /\ ~(tagOps[n].at < newestAnswer)
      /\ tagOvertaken' \in BOOLEAN
      /\ IF tagOps[n].kind = "delete"
         THEN cachedTags' = [c \in TagCard |-> cachedTags[c] \ {tagOps[n].tag}]
         ELSE cachedTags' = [cachedTags EXCEPT ![tagOps[n].card] = tagOps[n].tags]
  BY DEF Answered
<1>7. TagsShape'
  <2>1. cachedTags' \in Tagged
    BY <1>1, <1>6 DEF TagsInv, TagsShape, Tagged, IsOp
  <2>2. newestAnswer' \in Nat /\ tagOvertaken' \in BOOLEAN
    BY <1>1, <1>6 DEF IsOp, TagsInv, TagsShape
  <2> QED
    BY <1>5, <1>6, <2>1, <2>2 DEF TagsInv, TagsShape
<1>8. ~AppliedOp(n)' /\ ~Unanswered(n)' /\ AppliedOp(n) /\ ~Unanswered(n)
  BY <1>1, <1>2, <1>5 DEF AppliedOp, Unanswered
<1>9. TagsWait'
  BY <1>1, <1>5, <1>6, <1>7, <1>8, StaysAlone DEF TagsInv, TagsShape, Flying
<1>10. \A m \in DOMAIN tagOps : m # n => /\ AppliedOp(m)' <=> AppliedOp(m)
                                         /\ Unanswered(m)' <=> Unanswered(m)
  BY <1>5 DEF AppliedOp, Unanswered
<1>11. ASSUME Unmuddled' PROVE RollsBack'
  <2>1. RollsBack
    BY <1>6, <1>11 DEF TagsInv, Unmuddled
  <2> QED
    BY <1>5, <1>6, <1>8, <1>10, <2>1 DEF RollsBack
<1>12. ASSUME InOrder', NEW c \in TagCard PROVE Follows(c)'
  <2>1. newestAnswer' = tagOps[n].at /\ newestAnswer <= tagOps[n].at /\ Unmuddled
    BY <1>1, <1>6, <1>12 DEF InOrder, Unmuddled, IsOp, TagsInv, TagsShape
  <2>2. \A m \in DOMAIN tagOps : AppliedOp(m) =>
          tagOps[m].at \in Nat /\ (m # n => tagOps[m].at > tagOps[n].at)
    <3>1. ASSUME NEW m \in DOMAIN tagOps, AppliedOp(m), m # n PROVE tagOps[m].at > tagOps[n].at
      <4>1. tagOps[m].at >= tagOps[n].at
        BY <1>5, <1>10, <1>12, <2>1, <3>1 DEF InOrder
      <4>2. tagOps[m].at # tagOps[n].at
        BY <1>8, <3>1 DEF TagsInv, TagsWait
      <4> QED
        BY <4>1, <4>2 DEF TagsInv, TagsShape, IsOp
    <3> QED
      BY <3>1 DEF TagsInv, TagsShape, IsOp
  <2>3. InOrder
    BY <1>1, <2>1, <2>2 DEF InOrder, TagsInv, TagsShape, IsOp
  <2>4. Follows(c)
    BY <2>3 DEF TagsInv
  <2>5. \A m : m \in OnCard(c)' <=> m \in OnCard(c) /\ m # n
    BY <1>5, <1>8, <1>10 DEF OnCard
  <2>6. \A m \in OnCard(c) : m # n => tagOps'[m] = tagOps[m]
    BY <1>5 DEF OnCard
  <2>7. \A a : \A t : t \in Deleting(a)' <=>
          t \in CustomTag /\ \E m \in DOMAIN tagOps : /\ m # n /\ AppliedOp(m)
                                                      /\ tagOps[m].kind = "delete"
                                                      /\ tagOps[m].at > a /\ tagOps[m].tag = t
    BY <1>5, <1>8, <1>10 DEF Deleting
  <2>8. \A a : a \in Nat /\ tagOps[n].at <= a => Deleting(a)' = Deleting(a)
    <3>1. ASSUME NEW a \in Nat, tagOps[n].at <= a
          PROVE \A t : t \in Deleting(a)' <=> t \in Deleting(a)
      <4>1. ~(tagOps[n].at > a)
        BY <1>1, <3>1 DEF IsOp
      <4> QED
        BY <2>7, <4>1 DEF Deleting
    <3> QED
      BY <3>1
  <2>9. ASSUME NEW m, NEW a, LastOn(c, m)', tagOps'[m].at = a
        PROVE  storedTags'[c] = tagOps'[m].tags \ Deleting(a)'
    <3>1. m \in OnCard(c) /\ m # n /\ tagOps'[m] = tagOps[m]
      BY <2>5, <2>6, <2>9 DEF LastOn
    <3>2. tagOps[m].at \in Nat /\ tagOps[n].at < tagOps[m].at
      BY <2>2, <3>1 DEF OnCard
    <3>3. LastOn(c, m)
      <4>1. \A l \in OnCard(c) : l # n => tagOps[l].at <= tagOps[m].at
        BY <2>5, <2>6, <2>9, <3>1 DEF LastOn
      <4> QED
        BY <1>1, <3>1, <3>2, <4>1 DEF LastOn, IsOp
    <3>4. storedTags[c] = tagOps[m].tags \ Deleting(a)
      BY <2>4, <2>9, <3>1, <3>3 DEF Follows
    <3>5. Deleting(a)' = Deleting(a)
      BY <1>1, <2>8, <2>9, <3>1, <3>2 DEF IsOp
    <3> QED
      BY <1>6, <3>1, <3>4, <3>5
  <2>10. ASSUME OnCard(c)' = {} PROVE Hanging(c)' \/ cachedTags'[c] \ Deleting(0)' = storedTags'[c]
    <3>1. CASE n \in OnCard(c)
      <4>1. LastOn(c, n)
        BY <1>1, <2>5, <2>10, <3>1 DEF LastOn, IsOp
      <4>2. storedTags[c] = tagOps[n].tags \ Deleting(tagOps[n].at)
        BY <2>4, <4>1 DEF Follows
      <4>3. Deleting(0)' = Deleting(tagOps[n].at)
        <5>1. \A t : t \in Deleting(0)' <=> t \in Deleting(tagOps[n].at)
          BY <1>1, <2>2, <2>7 DEF Deleting, IsOp
        <5> QED
          BY <5>1
      <4>4. cachedTags'[c] = tagOps[n].tags
        BY <1>6, <3>1 DEF OnCard, TagsInv, TagsShape, Tagged
      <4> QED
        BY <1>6, <4>2, <4>3, <4>4
    <3>2. CASE n \notin OnCard(c)
      <4>1. OnCard(c) = {}
        BY <2>5, <2>10, <3>2
      <4>2. Hanging(c) => Hanging(c)'
        BY <1>6, <1>8, <1>10 DEF Hanging, TagsInv, TagsWait
      <4>3. CASE tagOps[n].kind = "delete"
        <5>1. cachedTags'[c] = cachedTags[c] \ {tagOps[n].tag} /\ tagOps[n].tag \in CustomTag
          BY <1>1, <1>6, <4>3 DEF IsOp
        <5>2. tagOps[n].at > 0
          BY <1>8 DEF TagsInv, TagsWait, TagsShape, IsOp
        <5>3. \A t : t \in Deleting(0) <=> t \in Deleting(0)' \/ t = tagOps[n].tag
          BY <1>8, <2>7, <4>3, <5>1, <5>2 DEF Deleting
        <5> QED
          BY <1>6, <2>4, <4>1, <4>2, <5>1, <5>3 DEF Follows
      <4>4. CASE tagOps[n].kind # "delete"
        <5>1. tagOps[n].card # c
          BY <1>8, <3>2, <4>4 DEF OnCard
        <5>2. cachedTags'[c] = cachedTags[c]
          BY <1>6, <4>4, <5>1 DEF TagsInv, TagsShape, Tagged
        <5>3. \A t : t \in Deleting(0) <=> t \in Deleting(0)'
          BY <2>7, <4>4 DEF Deleting
        <5> QED
          BY <1>6, <2>4, <4>1, <4>2, <5>2, <5>3 DEF Follows
      <4> QED
        BY <4>3, <4>4
    <3> QED
      BY <3>1, <3>2
  <2> QED
    BY <2>9, <2>10 DEF Follows
<1> QED
  BY <1>7, <1>9, <1>11, <1>12 DEF TagsInv

(* A tap that fails, or that the server refuses.                            *)
LEMMA FailStep ==
  ASSUME TagsInv, NEW n \in DOMAIN tagOps, TapFailed(n) \/ ServerRefuses(n)
  PROVE  TagsInv'
<1> DEFINE s == IF TapFailed(n) THEN "done" ELSE "refused"
<1> DEFINE op == [tagOps[n] EXCEPT !.state = s]
<1>1. IsOp(tagOps[n]) /\ Flying(n) /\ s \in {"done", "refused"}
  BY DEF TagsInv, TagsShape, TapFailed, ServerRefuses, Flying
<1>2. tagOps' = [tagOps EXCEPT ![n] = op]
  BY DEF TapFailed, ServerRefuses
<1> HIDE DEF s
<1>3. /\ op.state = s /\ op.at = tagOps[n].at /\ op.tags = tagOps[n].tags
      /\ op.kind = tagOps[n].kind /\ op.card = tagOps[n].card /\ op.tag = tagOps[n].tag
      /\ op.shared = tagOps[n].shared /\ op.previousTags = tagOps[n].previousTags
      /\ DOMAIN op = OpFields
  BY <1>1 DEF IsOp, OpFields
<1>4. IsOp(op)
  BY <1>1, <1>3 DEF IsOp
<1> HIDE DEF op
<1>5. /\ DOMAIN tagOps' = DOMAIN tagOps /\ tagOps'[n] = op
      /\ \A m \in DOMAIN tagOps : m # n => tagOps'[m] = tagOps[m]
      /\ \A m \in DOMAIN tagOps' : IsOp(tagOps'[m])
      /\ \E k \in Nat : DOMAIN tagOps' = 1 .. k
      /\ \A m \in DOMAIN tagOps : /\ tagOps'[m].kind = tagOps[m].kind
                                  /\ tagOps'[m].card = tagOps[m].card
                                  /\ tagOps'[m].tag = tagOps[m].tag
                                  /\ tagOps'[m].shared = tagOps[m].shared
  BY <1>2, <1>3, <1>4, OpMoves DEF TagsInv
<1>6. /\ UNCHANGED <<storedTags, opSeq, appliedOps, newestAnswer, tagOvertaken>>
      /\ ~muddled' => ~muddled
      /\ muddled' \in BOOLEAN
      /\ \/ /\ cachedTags' = cachedTags
            /\ ~(s = "done" /\ opSeq[tagOps[n].card] = n /\ tagOps[n].kind # "delete")
         \/ /\ cachedTags' = [cachedTags EXCEPT ![tagOps[n].card] = tagOps[n].previousTags]
            /\ s = "done" /\ opSeq[tagOps[n].card] = n /\ tagOps[n].kind # "delete"
            /\ ~muddled' => ~tagOps[n].shared
      /\ ~muddled' /\ s = "done" => Unanswered(n)
      /\ s = "refused" => Unanswered(n)
  BY <1>1 DEF TapFailed, ServerRefuses, NewestTap, Unanswered, s, TagsInv, TagsShape
<1>7. TagsShape'
  <2>1. cachedTags' \in Tagged
    BY <1>1, <1>6 DEF TagsInv, TagsShape, Tagged, IsOp
  <2> QED
    BY <1>5, <1>6, <2>1 DEF TagsInv, TagsShape
<1>8. ~AppliedOp(n)' /\ (Unanswered(n)' => s = "refused") /\ (s = "refused" => Unanswered(n)')
  BY <1>1, <1>3, <1>5 DEF AppliedOp, Unanswered
<1>9. TagsWait'
  BY <1>1, <1>5, <1>6, <1>7, <1>8, StaysAlone DEF TagsInv, TagsShape
<1>10. \A m \in DOMAIN tagOps : m # n => /\ AppliedOp(m)' <=> AppliedOp(m)
                                         /\ Unanswered(m)' <=> Unanswered(m)
  BY <1>5 DEF AppliedOp, Unanswered
<1>11. ASSUME Unmuddled' PROVE RollsBack'
  <2>1. RollsBack
    BY <1>6, <1>11 DEF TagsInv, Unmuddled
  <2>2. tagOps'[n].previousTags = tagOps[n].previousTags
    BY <1>3, <1>5
  <2> QED
    BY <1>5, <1>6, <1>8, <1>10, <2>1, <2>2 DEF RollsBack
<1>12. ASSUME InOrder', NEW c \in TagCard PROVE Follows(c)'
  <2>1. Unmuddled /\ ~muddled' /\ Unanswered(n)
    BY <1>1, <1>6, <1>12 DEF InOrder, Unmuddled
  <2>2. ~AppliedOp(n)
    BY <2>1 DEF Unanswered, AppliedOp
  <2>3. InOrder
    BY <1>5, <1>6, <1>10, <1>12, <2>1, <2>2 DEF InOrder
  <2>4. Follows(c)
    BY <2>3 DEF TagsInv
  <2>5. OnCard(c)' = OnCard(c)
    BY <1>5, <1>8, <1>10, <2>2 DEF OnCard
  <2>6. \A a : Deleting(a)' = Deleting(a)
    BY <1>5, <1>8, <1>10, <2>2 DEF Deleting
  <2>7. \A m \in OnCard(c) : tagOps'[m] = tagOps[m]
    BY <1>5, <2>2 DEF OnCard
  <2>8. ASSUME OnCard(c) = {} PROVE Hanging(c)' \/ cachedTags'[c] \ Deleting(0) = storedTags[c]
    <3>1. CASE /\ cachedTags' = cachedTags
               /\ ~(s = "done" /\ opSeq[tagOps[n].card] = n /\ tagOps[n].kind # "delete")
      <4>1. Hanging(c) => Hanging(c)'
        BY <1>1, <1>6, <1>8, <1>10, <3>1 DEF Hanging, TagsInv, TagsWait
      <4> QED
        BY <2>4, <2>8, <3>1, <4>1 DEF Follows
    <3>2. CASE ~(/\ cachedTags' = cachedTags
                 /\ ~(s = "done" /\ opSeq[tagOps[n].card] = n /\ tagOps[n].kind # "delete"))
      <4>1. /\ cachedTags' = [cachedTags EXCEPT ![tagOps[n].card] = tagOps[n].previousTags]
            /\ opSeq[tagOps[n].card] = n /\ tagOps[n].kind # "delete" /\ ~tagOps[n].shared
        BY <1>6, <2>1, <3>2
      <4>2. tagOps[n].previousTags = storedTags[tagOps[n].card]
        BY <2>1, <4>1 DEF TagsInv, RollsBack
      <4>3. Deleting(0) = {}
        <5>1. \A m \in DOMAIN tagOps : AppliedOp(m) => Flying(m)
          BY DEF AppliedOp, Flying
        <5> QED
          BY <1>1, <2>2, <4>1, <5>1 DEF TagsInv, TagsWait, Deleting
      <4>4. CASE c = tagOps[n].card
        BY <4>1, <4>2, <4>3, <4>4 DEF TagsInv, TagsShape, Tagged
      <4>5. CASE c # tagOps[n].card
        <5>1. cachedTags'[c] = cachedTags[c]
          BY <4>1, <4>5 DEF TagsInv, TagsShape, Tagged
        <5>2. Hanging(c) => Hanging(c)'
          BY <1>6, <1>10, <4>5 DEF Hanging, TagsInv, TagsWait
        <5> QED
          BY <2>4, <2>8, <5>1, <5>2 DEF Follows
      <4> QED
        BY <4>4, <4>5
    <3> QED
      BY <3>1, <3>2
  <2> QED
    BY <1>6, <2>4, <2>5, <2>6, <2>7, <2>8 DEF Follows, LastOn
<1> QED
  BY <1>7, <1>9, <1>11, <1>12 DEF TagsInv

LEMMA TagsStep == TagsInv /\ [TagsNext]_tagVars => TagsInv'
<1> SUFFICES ASSUME TagsInv, [TagsNext]_tagVars PROVE TagsInv'
  OBVIOUS
<1>1. ASSUME NEW c \in TagCard, NEW t \in CustomTag, NEW kind \in Kinds
      PROVE  /\ IsOp(NewOp(kind, c, t))
             /\ NewOp(kind, c, t).kind = kind /\ NewOp(kind, c, t).card = c
             /\ NewOp(kind, c, t).state = "sent"
             /\ NewOp(kind, c, t).previousTags = cachedTags[c]
  BY DEF NewOp, IsOp, OpFields, TagsInv, TagsShape, Tagged
<1>2. \A c \in TagCard, t \in CustomTag :
        "assign" \in Kinds /\ "unassign" \in Kinds /\ "delete" \in Kinds
  BY DEF Kinds
<1>3. \E k \in Nat : Cardinality(DOMAIN tagOps) = k
  BY FS_Interval DEF TagsInv, TagsShape
<1>4. ASSUME NEW c \in TagCard, NEW t \in CustomTag, NEW tags \in SUBSET CustomTag, NEW count,
             NEW kind \in {"assign", "unassign"},
             Optimistic(c, tags, t, count), Sent(NewOp(kind, c, t)),
             UNCHANGED <<storedTags, appliedOps, newestAnswer, tagOvertaken, muddled>>
      PROVE  TagsInv'
  <2>1. cachedTags' \in Tagged /\ opSeq' \in [TagCard -> Nat]
    BY <1>3, <1>4 DEF Optimistic, Tagged, TagsInv, TagsShape
  <2>2. \A d \in TagCard : d # c => cachedTags'[d] = cachedTags[d]
    BY <1>4 DEF Optimistic, Tagged, TagsInv, TagsShape
  <2>3. kind \in Kinds /\ kind # "delete"
    BY <1>4 DEF Kinds
  <2> DEFINE op == NewOp(kind, c, t)
  <2>4. IsOp(op) /\ op.kind = kind /\ op.card = c /\ op.state = "sent"
    BY <1>1, <2>3
  <2>5. op.kind # "delete" => /\ op.previousTags = cachedTags[op.card]
                              /\ opSeq' = [opSeq EXCEPT ![op.card] = Cardinality(DOMAIN tagOps) + 1]
                              /\ \A d \in TagCard : d # op.card => cachedTags'[d] = cachedTags[d]
    <3>1. op.card = c /\ op.previousTags = cachedTags[c]
      BY <1>1, <2>3
    <3>2. opSeq' = [opSeq EXCEPT ![c] = Cardinality(DOMAIN tagOps) + 1]
      BY <1>4 DEF Optimistic
    <3> HIDE DEF op
    <3> QED
      BY <2>2, <3>1, <3>2
  <2>6. Sent(op) /\ op.kind # "delete"
    BY <1>4, <2>3, <2>4
  <2> HIDE DEF op
  <2> QED
    BY <1>4, <2>1, <2>4, <2>5, <2>6, TapKeeps
<1>5. ASSUME NEW c \in TagCard, NEW t \in CustomTag, AssignDeckCardTag(c, t) PROVE TagsInv'
  <2>1. cachedTags[c] \cup {t} \in SUBSET CustomTag
    BY DEF TagsInv, TagsShape, Tagged
  <2> QED
    BY <1>4, <1>5, <2>1 DEF AssignDeckCardTag
<1>6. ASSUME NEW c \in TagCard, NEW t \in CustomTag, UnassignDeckCardTag(c, t) PROVE TagsInv'
  <2>1. cachedTags[c] \ {t} \in SUBSET CustomTag
    BY DEF TagsInv, TagsShape, Tagged
  <2> QED
    BY <1>4, <1>6, <2>1 DEF UnassignDeckCardTag
<1>7. ASSUME NEW c \in TagCard, NEW t \in CustomTag, DeleteTag(c, t) PROVE TagsInv'
  BY <1>1, <1>2, <1>7, TapKeeps DEF DeleteTag, TagsInv, TagsShape
<1>8. (CHOOSE c \in TagCard : TRUE) \in TagCard
  BY DeckTagsAssumption
<1>9. CASE UNCHANGED tagVars
  BY <1>9 DEF tagVars, TagsInv, TagsShape, TagsWait, InOrder, Unmuddled, RollsBack, Follows, LastOn,
              OnCard, Deleting, Hanging, AppliedOp, Unanswered, Flying
<1> QED
  BY <1>5, <1>6, <1>7, <1>8, <1>9, ServerStep, AnswerStep, FailStep DEF TagsNext

LEMMA TagsStart == TagsInit => TagsInv
<1> SUFFICES ASSUME TagsInit PROVE TagsInv
  OBVIOUS
<1>1. DOMAIN tagOps = {} /\ DOMAIN tagOps = 1 .. 0
  BY DEF TagsInit
<1>2. TagsShape /\ TagsWait /\ RollsBack
  BY <1>1 DEF TagsInit, TagsShape, TagsWait, RollsBack, Tagged
<1>3. \A c \in TagCard : Follows(c)
  BY <1>1 DEF TagsInit, Follows, LastOn, OnCard, Deleting
<1> QED
  BY <1>2, <1>3 DEF TagsInv

LEMMA TagsInvariant == WebSpec => []TagsInv
<1>1. WebInit => TagsInit
  BY DEF WebInit
<1> QED
  BY <1>1, TagsStart, TagsStep, PageSteps, PTL DEF WebSpec

(* Once every tap is answered the cache is the server's, for any cards,     *)
(* tags and number of taps, in every order in which the server carries them *)
(* out, refuses them and answers.                                           *)
THEOREM TagsFollow == WebSpec => []TagsFollowServer
<1>1. TagsInv => TagsFollowServer
  BY QuietFollows DEF TagsFollowServer, Unmuddled
<1> QED
  BY <1>1, TagsInvariant, PTL

-----------------------------------------------------------------------------
(* The web frontend beside the server's files is the web frontend: what is  *)
(* proved of WebSpec, here and in ScanProofs, holds of AppSpec.             *)
THEOREM WebPart == AppSpec => WebSpec
<1>1. AppInit => WebInit
  BY DEF AppInit
<1>2. [AppNext]_appVars => [WebNext]_webVars
  BY DEF AppNext, appVars, FollowWeb, FollowBundles, FollowPictures, FollowRestores,
         FollowBackups
<1> QED
  BY <1>1, <1>2, PTL DEF AppSpec, WebSpec

LEMMA FileSteps ==
  /\ [AppNext]_appVars => [BundlesNext]_bundleVars
  /\ [AppNext]_appVars => [PicturesNext]_pictureVars
  /\ [AppNext]_appVars => [RestoresNext]_restoreVars
  /\ [AppNext]_appVars => [BackupNext]_backupVars
  BY DEF AppNext, appVars, fileVars, FollowWeb, FollowBundles, FollowPictures, FollowRestores,
         FollowBackups

-----------------------------------------------------------------------------
(* The scanner's bundles, until one was published from leftovers: an update *)
(* switches to a whole directory of another version, and when it prunes,    *)
(* the link to the previous version is that of the one replaced.            *)
BundlesTyped ==
  /\ bundleDirs \in [BundleVersion -> {"none", "half", "whole"}]
  /\ {currentLink, previousLink, replaced} \subseteq Link
  /\ update \in [step : UpdateStep, version : Link, intact : BOOLEAN, before : Link]
  /\ ~At("idle") => update.version \in BundleVersion

UpdateSound ==
  /\ At("verified") => update.intact
  /\ update.step \in {"downloading", "downloaded", "verified", "published"} =>
       update.version # currentLink
  /\ update.step \in {"published", "switched", "pruning"} => bundleDirs[update.version] = "whole"
  /\ update.step \in {"switched", "pruning"} => currentLink = update.version
  /\ At("switched") => replaced = update.before /\ replaced # update.version
  /\ At("pruning") => replaced \in {NoVersion, previousLink}

BundlesInv ==
  /\ BundlesTyped
  /\ BundlesServed
  /\ halfReused \in BOOLEAN
  /\ ~halfReused => UpdateSound

LEMMA BundlesStep == BundlesInv /\ [BundlesNext]_bundleVars => BundlesInv'
<1> SUFFICES ASSUME BundlesInv, [BundlesNext]_bundleVars PROVE BundlesInv'
  OBVIOUS
<1> USE BundleAssumption
    DEF BundlesInv, BundlesTyped, BundlesServed, UpdateSound, At, Step, EndUpdate, NoUpdate, Link,
        UpdateStep
<1>1. ASSUME NEW v \in BundleVersion, BeginUpdate(v) PROVE BundlesInv'
  BY <1>1 DEF BeginUpdate, CurrentVersions
<1>2. CASE Download
  BY <1>2 DEF Download
<1>3. CASE Verify
  <2>1. CASE update.intact
    BY <1>3, <2>1 DEF Verify, Verified
  <2>2. CASE ~update.intact
    <3>1. update' = NoUpdate
          /\ UNCHANGED <<bundleDirs, currentLink, previousLink, replaced, halfReused>>
      BY <1>3, <2>2, Zenon DEF Verify, Verified
    <3> QED
      BY <3>1
  <2> QED
    BY <2>1, <2>2
<1>4. CASE Publish
  BY <1>4 DEF Publish
<1>5. CASE SwitchCurrent
  BY <1>5 DEF SwitchCurrent, CurrentVersions
<1>6. CASE SwitchPrevious
  BY <1>6 DEF SwitchPrevious
<1>7. ASSUME NEW v \in BundleVersion, RemoveVersion(v) PROVE BundlesInv'
  BY <1>7 DEF RemoveVersion, CurrentVersions, Kept
<1>8. CASE UpdateEnds
  BY <1>8 DEF UpdateEnds
<1>9. CASE UNCHANGED bundleVars
  BY <1>9 DEF bundleVars
<1> QED
  BY <1>1, <1>2, <1>3, <1>4, <1>5, <1>6, <1>7, <1>8, <1>9 DEF BundlesNext

LEMMA BundlesInvariant == AppSpec => []BundlesInv
<1>1. BundlesInit => BundlesInv
  <2> SUFFICES ASSUME BundlesInit PROVE BundlesInv
    OBVIOUS
  <2> USE DEF BundlesInit, NoUpdate, UpdateStep, Link, At
  <2>1. BundlesTyped
    BY DEF BundlesTyped
  <2>2. BundlesServed /\ UpdateSound /\ halfReused \in BOOLEAN
    BY DEF BundlesServed, UpdateSound
  <2> QED
    BY <2>1, <2>2 DEF BundlesInv
<1>2. AppInit => BundlesInit
  BY DEF AppInit
<1> QED
  BY <1>1, <1>2, BundlesStep, FileSteps, PTL DEF AppSpec

(* The version served and the one before it stay whole wherever an update   *)
(* stops, for any number of versions and updates.                           *)
THEOREM BundlesStayWhole == AppSpec => []BundlesServed
<1>1. BundlesInv => BundlesServed
  BY DEF BundlesInv
<1> QED
  BY <1>1, BundlesInvariant, PTL

-----------------------------------------------------------------------------
(* Restores.  While a directory is being filled, what was saved before is   *)
(* in others; once filled it holds what the files do, unless an earlier log *)
(* lies in it.  Another file's log lies beside the database only while a    *)
(* restore that will be made again, or that was cut short by hand, is to    *)
(* blame.                                                                   *)
RestoreSteps == {"extracted", "copying", "file copied", "copied", "placing", "placed", "cleaned"}

RestoresTyped ==
  /\ server \in {"up", "down"} \cup RestoreSteps
  /\ {byHand, cutShort, stagedSince} \subseteq BOOLEAN
  /\ database \in Data \cup {Half} /\ walLog \in Log
  /\ changes \in Data /\ backups \subseteq Data
  /\ server \in {"up", "down"} => ~byHand
  /\ server \in RestoreSteps => incoming \in Data
  /\ server = "down" => incoming = NoFile
  /\ server \in RestoreSteps /\ ~byHand => pendingZip # NoFile

CopiedAside ==
  /\ saved \subseteq InCopies
  /\ server \in {"copying", "file copied", "copied"} => saved \subseteq copies
  /\ server = "file copied" => asideFile = database
  /\ server = "copied" => LogLeft \/ Held = Has

LogsOwned ==
  /\ walLog = Mixed =>
       \/ cutShort \/ pendingZip # NoFile
       \/ byHand /\ server \in {"placing", "placed"}
  /\ server = "cleaned" => walLog = NoFile
  /\ server = "up" /\ ~cutShort => ownerData # Mixed

StagedOnce ==
  server = "up" /\ (pendingZip # NoFile \/ incoming # NoFile) => stagedSince

RestoresInv == RestoresTyped /\ CopiedAside /\ LogsOwned /\ StagedOnce

LEMMA FileValues ==
  /\ Half \notin Data /\ Mixed \notin Data /\ Half # Mixed /\ NoFile \notin Data
  /\ NoFile # Half /\ NoFile # Mixed
  /\ \A n \in Data : n < MaxChanges => n + 1 \in Data
  BY RestoreAssumption DEF Half, Mixed, Data

LEMMA RestoresStep == RestoresInv /\ [RestoresNext]_restoreVars => RestoresInv'
<1> SUFFICES ASSUME RestoresInv, [RestoresNext]_restoreVars PROVE RestoresInv'
  OBVIOUS
<1> USE FileValues
    DEF RestoresInv, RestoresTyped, CopiedAside, LogsOwned, StagedOnce, RestoreSteps, ReadBack,
        Log, Has, Held, InCopies, LogLeft, copyVars
<1>1. CASE Change
  BY <1>1 DEF Change
<1>2. CASE Checkpoint
  BY <1>2 DEF Checkpoint
<1>3. CASE BackUp
  BY <1>3 DEF BackUp
<1>4. CASE EndStaging
  <2>1. CASE pendingZip' = Half
    BY <1>4, <2>1 DEF EndStaging
  <2>2. CASE pendingZip' = incoming
    BY <1>4, <2>2 DEF EndStaging
  <2> QED
    BY <1>4, <2>1, <2>2 DEF EndStaging
<1>5. ASSUME NEW b \in backups, BeginStaging(b) \/ RestoreByHand(b) PROVE RestoresInv'
  <2>1. CASE BeginStaging(b)
    BY <2>1 DEF BeginStaging
  <2>2. CASE RestoreByHand(b)
    BY <2>2 DEF RestoreByHand
  <2> QED
    BY <1>5, <2>1, <2>2
<1>6. CASE ApplyPending
  BY <1>6 DEF ApplyPending
<1>7. CASE BeginCopy
  BY <1>7 DEF BeginCopy, aroundCopy, Foreign
<1>8. CASE CopyFile
  BY <1>8 DEF CopyFile, aroundCopy
<1>9. CASE CopyLog
  BY <1>9 DEF CopyLog, aroundCopy
<1>10. CASE BeginPlacing
  BY <1>10 DEF BeginPlacing, Foreign
<1>11. CASE PutInPlace
  BY <1>11 DEF PutInPlace
<1>12. CASE RemoveLog
  BY <1>12 DEF RemoveLog, LogRemoved
<1>13. CASE FinishRestore
  BY <1>13 DEF FinishRestore
<1>14. CASE Open
  <2>1. RestoresTyped' /\ CopiedAside' /\ StagedOnce'
    BY <1>14 DEF Open
  <2>2. walLog # Mixed \/ cutShort
    BY <1>14 DEF Open
  <2>3. ~cutShort => Has # Mixed
    BY <2>2
  <2>4. LogsOwned'
    BY <1>14, <2>2, <2>3 DEF Open
  <2> QED
    BY <2>1, <2>4
<1>15. CASE StopServer
  BY <1>15 DEF StopServer
<1>16. CASE UNCHANGED restoreVars
  BY <1>16 DEF restoreVars
<1> QED
  BY <1>1, <1>2, <1>3, <1>4, <1>5, <1>6, <1>7, <1>8, <1>9, <1>10, <1>11,
     <1>12, <1>13, <1>14, <1>15, <1>16 DEF RestoresNext

LEMMA RestoresInvariant == AppSpec => []RestoresInv
<1>1. RestoresInit => RestoresInv
  <2> SUFFICES ASSUME RestoresInit PROVE RestoresInv
    OBVIOUS
  <2> USE FileValues DEF RestoresInit, RestoreSteps
  <2>1. 0 \in Data
    BY RestoreAssumption DEF Data
  <2>2. RestoresTyped
    BY <2>1 DEF RestoresTyped, Log
  <2>3. CopiedAside
    BY DEF CopiedAside
  <2>4. LogsOwned /\ StagedOnce
    BY <2>1 DEF LogsOwned, StagedOnce
  <2> QED
    BY <2>2, <2>3, <2>4 DEF RestoresInv
<1>2. AppInit => RestoresInit
  BY DEF AppInit
<1> QED
  BY <1>1, <1>2, RestoresStep, FileSteps, PTL DEF AppSpec

(* However restores fail, stop and start again, what they overwrite stays   *)
(* in a copy, unless one of the same second writes into its directory, for  *)
(* any number of changes, backups and restores.                             *)
THEOREM OwnerKeepsData == AppSpec => []DataRecoverable
<1>1. RestoresInv => DataRecoverable
  BY DEF RestoresInv, CopiedAside, LogsOwned, StagedOnce, DataRecoverable
<1> QED
  BY <1>1, RestoresInvariant, PTL

-----------------------------------------------------------------------------
(* The pictures.  A render between its rename and the end of its pruning    *)
(* answers for the picture it added.  Whichever of those that have listed   *)
(* the directory prune, the files left, other than the pictures the rest    *)
(* answer for, are within the limit.  After a stop nobody answers for what  *)
(* lies beyond it, until the first of the next renders has tidied up.       *)
Publishing == {r \in RenderSlot : renders[r].step \in {"published", "pruning"}}

Pruning == {r \in RenderSlot : renders[r].step = "pruning"}

LeftBy(q) ==
  {p \in shelf : /\ \A r \in q : p \notin renders[r].listed
                 /\ \A r \in Publishing \ q : p # renders[r].picture}

Accounted == \A q \in SUBSET Pruning : Cardinality(LeftBy(q)) <= MaxArtifacts

NotTidied ==
  /\ Cardinality(shelf) <= MaxArtifacts + Cardinality(RenderSlot)
  /\ \A r \in RenderSlot :
       /\ renders[r].step \in {"idle", "prepared", "tidying"}
       /\ RenderAt(r, "tidying") => Cardinality(shelf \ renders[r].listed) <= MaxArtifacts

OwnPictures ==
  \A r \in RenderSlot : ~RenderAt(r, "idle") =>
    /\ renders[r].picture \in Picture
    /\ \A q \in RenderSlot : q # r => renders[q].picture # renders[r].picture

PicturesInv ==
  /\ PicturesType
  /\ IsFiniteSet(shelf) /\ unfinished = {}
  /\ OwnPictures
  /\ NotTidied \/ Accounted

(* What a listing names leaves no more files than the limit.                *)
LEMMA ExcessLeaves ==
  ASSUME NEW files, IsFiniteSet(files), NEW preserve, NEW gone \in Excess(files, preserve)
  PROVE  gone \subseteq files /\ Cardinality(files \ gone) <= MaxArtifacts
<1> DEFINE others == files \ {preserve}
           n == Cardinality(files)
           excess == IF n > MaxArtifacts THEN n - MaxArtifacts ELSE 0
<1>1. /\ gone \subseteq others
      /\ Cardinality(gone) = IF excess < Cardinality(others) THEN excess ELSE Cardinality(others)
  BY Zenon DEF Excess
<1>2. n \in Nat /\ Cardinality(others) \in Nat /\ Cardinality(others) >= n - 1
  <2>1. IsFiniteSet(others)
        /\ Cardinality(others) = IF preserve \in files THEN n - 1 ELSE n
    BY FS_RemoveElement
  <2>2. n \in Nat /\ Cardinality(others) \in Nat
    BY <2>1, FS_CardinalityType
  <2> HIDE DEF n, others
  <2> QED
    BY <2>1, <2>2
<1>3. files \cap gone = gone
  BY <1>1
<1>4. Cardinality(files \ gone) = n - Cardinality(gone)
  BY <1>3, FS_Difference
<1>5. MaxArtifacts \in Nat /\ MaxArtifacts >= 1
  BY PictureAssumption
<1>6. n - Cardinality(gone) <= MaxArtifacts
  <2> HIDE DEF others, n
  <2> QED
    BY <1>1, <1>2, <1>5
<1> QED
  BY <1>1, <1>4, <1>6

(* Fewer files are within every limit that more files are within.           *)
LEMMA FewerFiles ==
  ASSUME NEW files, IsFiniteSet(files), NEW fewer \in SUBSET files, NEW n \in Nat,
         Cardinality(files) <= n
  PROVE  IsFiniteSet(fewer) /\ Cardinality(fewer) <= n
<1>1. IsFiniteSet(fewer) /\ Cardinality(fewer) <= Cardinality(files)
  BY FS_Subset
<1>2. Cardinality(fewer) \in Nat /\ Cardinality(files) \in Nat
  BY <1>1, FS_CardinalityType
<1> QED
  BY <1>1, <1>2

(* With every file accounted for, the directory holds one file beyond its   *)
(* limit for each render at most.                                           *)
LEMMA OneEach ==
  ASSUME PicturesType, IsFiniteSet(shelf), Accounted
  PROVE  Cardinality(shelf) <= MaxArtifacts + Cardinality(RenderSlot)
<1> DEFINE own == {renders[r].picture : r \in Publishing}
           left == LeftBy({})
           f == [r \in Publishing |-> renders[r].picture]
<1>1. IsFiniteSet(Publishing) /\ Cardinality(Publishing) <= Cardinality(RenderSlot)
  BY PictureAssumption, FS_Subset DEF Publishing
<1>2. f \in Surjection(Publishing, own)
  BY DEF Surjection
<1>3. IsFiniteSet(own) /\ Cardinality(own) <= Cardinality(Publishing)
  BY <1>1, <1>2, FS_Surjection
<1>4. left \subseteq shelf /\ shelf \subseteq left \cup own
  BY DEF LeftBy
<1>5. IsFiniteSet(left) /\ Cardinality(left) <= MaxArtifacts
  <2>1. {} \subseteq Pruning
    OBVIOUS
  <2> QED
    BY <2>1, <1>4, FS_Subset DEF Accounted
<1> HIDE DEF own, left
<1>6. Cardinality(left \cup own) <= Cardinality(left) + Cardinality(own)
      /\ IsFiniteSet(left \cup own)
  <2>1. IsFiniteSet(left \cap own)
    BY <1>5, FS_Intersection
  <2>2. Cardinality(left \cap own) \in Nat /\ Cardinality(left) \in Nat /\ Cardinality(own) \in Nat
    BY <2>1, <1>3, <1>5, FS_CardinalityType
  <2>3. /\ IsFiniteSet(left \cup own)
        /\ Cardinality(left \cup own)
             = Cardinality(left) + Cardinality(own) - Cardinality(left \cap own)
    BY <1>3, <1>5, FS_Union
  <2> QED
    BY <2>2, <2>3
<1>7. Cardinality(shelf) <= Cardinality(left \cup own)
  BY <1>4, <1>6, FS_Subset
<1>8. /\ Cardinality(shelf) \in Nat /\ Cardinality(left) \in Nat /\ Cardinality(own) \in Nat
      /\ Cardinality(left \cup own) \in Nat
      /\ Cardinality(Publishing) \in Nat /\ Cardinality(RenderSlot) \in Nat
  BY <1>1, <1>3, <1>5, <1>6, FS_CardinalityType, PictureAssumption
<1> QED
  BY <1>1, <1>3, <1>5, <1>6, <1>7, <1>8, PictureAssumption

(* What is left in the new state was left in the old one.                   *)
LEMMA StillAccounted ==
  ASSUME IsFiniteSet(shelf), Accounted,
         \A q \in SUBSET Pruning' : \E o \in SUBSET Pruning : LeftBy(q)' \subseteq LeftBy(o)
  PROVE  Accounted'
<1> SUFFICES ASSUME NEW q \in SUBSET Pruning' PROVE Cardinality(LeftBy(q)') <= MaxArtifacts
  BY DEF Accounted
<1>1. PICK o \in SUBSET Pruning : LeftBy(q)' \subseteq LeftBy(o)
  OBVIOUS
<1>2. Cardinality(LeftBy(o)) <= MaxArtifacts
  BY DEF Accounted
<1>3. IsFiniteSet(LeftBy(o))
  BY FS_Subset DEF LeftBy
<1> QED
  BY <1>1, <1>2, <1>3, FewerFiles, PictureAssumption

LEMMA PicturesStep == PicturesInv /\ [PicturesNext]_pictureVars => PicturesInv'
<1> SUFFICES ASSUME PicturesInv, [PicturesNext]_pictureVars PROVE PicturesInv'
  OBVIOUS
<1> USE PictureAssumption DEF PicturesInv
<1>0. MaxArtifacts \in Nat /\ MaxArtifacts + Cardinality(RenderSlot) \in Nat
  BY FS_CardinalityType
<1>1. CASE StopRenders
  <2>1. Cardinality(shelf) <= MaxArtifacts + Cardinality(RenderSlot)
    BY OneEach DEF NotTidied
  <2>2. NotTidied'
    BY <1>1, <2>1 DEF StopRenders, NotTidied, NoRender, RenderAt
  <2>3. PicturesType' /\ OwnPictures'
    BY <1>1 DEF StopRenders, PicturesType, RenderStep, OwnPictures, NoRender, RenderAt
  <2> QED
    BY <1>1, <2>2, <2>3 DEF StopRenders
<1>2. ASSUME NEW r \in RenderSlot, NEW p \in Picture, BeginRender(r, p) PROVE PicturesInv'
  <2>1. PicturesType' /\ OwnPictures'
    BY <1>2 DEF BeginRender, PicturesType, RenderStep, OwnPictures, NoRender, RenderAt
  <2>2. NotTidied => NotTidied'
    BY <1>2 DEF BeginRender, NotTidied, NoRender, RenderAt, PicturesType
  <2>3. Accounted => Accounted'
    <3>1. \A q \in SUBSET Pruning' : q \subseteq Pruning /\ LeftBy(q)' \subseteq LeftBy(q)
      BY <1>2 DEF BeginRender, Pruning, Publishing, LeftBy, RenderAt, NoRender, PicturesType
    <3> QED
      BY <3>1, StillAccounted
  <2> QED
    BY <1>2, <2>1, <2>2, <2>3 DEF BeginRender
<1>3. ASSUME NEW r \in RenderSlot, ListFiles(r) PROVE PicturesInv'
  <2>1. CASE RenderAt(r, "prepared")
    <3>1. PICK gone \in Tidied(shelf) :
            renders' = [renders EXCEPT ![r] = [@ EXCEPT !.step = "tidying", !.listed = gone]]
      BY <1>3, <2>1 DEF ListFiles, RenderAt
    <3>2. gone \subseteq shelf /\ Cardinality(shelf \ gone) <= MaxArtifacts
      BY <3>1, ExcessLeaves DEF Tidied
    <3>a. /\ renders'[r].step = "tidying" /\ renders'[r].listed = gone
          /\ renders'[r].picture = renders[r].picture
          /\ \A q \in RenderSlot : q # r => renders'[q] = renders[q]
      BY <3>1 DEF PicturesType
    <3>b. UNCHANGED <<shelf, unfinished, temporary>>
      BY <1>3 DEF ListFiles
    <3>3. PicturesType' /\ OwnPictures'
      BY <2>1, <3>1, <3>2, <3>a, <3>b DEF PicturesType, RenderStep, OwnPictures, RenderAt
    <3>4. NotTidied => NotTidied'
      BY <3>2, <3>a, <3>b DEF NotTidied, RenderAt
    <3>5. Accounted => Accounted'
      <4>1. \A q \in SUBSET Pruning' : q \subseteq Pruning /\ LeftBy(q)' \subseteq LeftBy(q)
        BY <2>1, <3>a, <3>b DEF Pruning, Publishing, LeftBy, RenderAt
      <4> QED
        BY <4>1, StillAccounted
    <3> QED
      BY <3>3, <3>4, <3>5, <3>b
  <2>2. CASE RenderAt(r, "published")
    <3>1. PICK gone \in Excess(shelf, renders[r].picture) :
            renders' = [renders EXCEPT ![r] = [@ EXCEPT !.step = "pruning", !.listed = gone]]
      BY <1>3, <2>2 DEF ListFiles, RenderAt
    <3>2. gone \subseteq shelf /\ Cardinality(shelf \ gone) <= MaxArtifacts
      BY <3>1, ExcessLeaves
    <3>a. /\ renders'[r].step = "pruning" /\ renders'[r].listed = gone
          /\ renders'[r].picture = renders[r].picture
          /\ \A q \in RenderSlot : q # r => renders'[q] = renders[q]
      BY <3>1 DEF PicturesType
    <3>b. UNCHANGED <<shelf, unfinished, temporary>>
      BY <1>3 DEF ListFiles
    <3>3. PicturesType' /\ OwnPictures'
      BY <2>2, <3>1, <3>2, <3>a, <3>b DEF PicturesType, RenderStep, OwnPictures, RenderAt
    <3>4. Accounted
      BY <2>2 DEF NotTidied, RenderAt
    <3>5. Accounted'
      <4> SUFFICES ASSUME NEW q \in SUBSET Pruning' PROVE Cardinality(LeftBy(q)') <= MaxArtifacts
        BY DEF Accounted
      <4>1. CASE r \in q
        <5>1. LeftBy(q)' \subseteq shelf \ gone
          BY <4>1, <3>a, <3>b DEF LeftBy
        <5>2. IsFiniteSet(shelf \ gone)
          BY FS_Subset
        <5> QED
          BY <1>0, <3>2, <5>1, <5>2, FewerFiles
      <4>2. CASE r \notin q
        <5>1. q \subseteq Pruning /\ LeftBy(q)' \subseteq LeftBy(q)
          BY <2>2, <3>a, <3>b, <4>2 DEF Pruning, Publishing, LeftBy, RenderAt
        <5>2. IsFiniteSet(LeftBy(q)) /\ Cardinality(LeftBy(q)) <= MaxArtifacts
          BY <3>4, <5>1, FS_Subset DEF Accounted, LeftBy
        <5> QED
          BY <1>0, <5>1, <5>2, FewerFiles
      <4> QED
        BY <4>1, <4>2
    <3> QED
      BY <3>3, <3>5, <3>b
  <2> QED
    BY <1>3, <2>1, <2>2 DEF ListFiles
<1>4. ASSUME NEW r \in RenderSlot, TidyUp(r) PROVE PicturesInv'
  <2>1. PicturesType' /\ OwnPictures'
    BY <1>4 DEF TidyUp, PicturesType, RenderStep, OwnPictures, RenderAt
  <2>2. IsFiniteSet(shelf')
    BY <1>4, FS_Subset DEF TidyUp
  <2>3. Accounted => Accounted'
    <3>1. \A q \in SUBSET Pruning' : q \subseteq Pruning /\ LeftBy(q)' \subseteq LeftBy(q)
      BY <1>4 DEF TidyUp, Pruning, Publishing, LeftBy, RenderAt, PicturesType
    <3> QED
      BY <3>1, StillAccounted
  <2>4. NotTidied => Accounted'
    <3> SUFFICES ASSUME NotTidied, NEW q \in SUBSET Pruning'
                 PROVE  Cardinality(LeftBy(q)') <= MaxArtifacts
      BY DEF Accounted
    <3>1. Publishing' = {} /\ Pruning' = {}
      BY <1>4 DEF TidyUp, NotTidied, Pruning, Publishing, PicturesType
    <3>2. LeftBy(q)' = shelf \ renders[r].listed
      BY <1>4, <3>1 DEF TidyUp, LeftBy
    <3> QED
      BY <1>4, <3>2 DEF TidyUp, NotTidied
  <2> QED
    BY <1>4, <2>1, <2>2, <2>3, <2>4 DEF TidyUp
<1>5. ASSUME NEW r \in RenderSlot, OpenTemporary(r) \/ FillTemporary(r) \/ RenderFails(r)
      PROVE  PicturesInv'
  <2> USE DEF OpenTemporary, FillTemporary, RenderFails, RenderGoes, EndRender, NoRender, RenderAt
  <2>1. PicturesType' /\ OwnPictures'
    BY <1>5 DEF PicturesType, RenderStep, OwnPictures
  <2>2. NotTidied => NotTidied'
    BY <1>5 DEF NotTidied, PicturesType
  <2>3. Accounted => Accounted'
    <3>1. \A q \in SUBSET Pruning' : q \subseteq Pruning /\ LeftBy(q)' \subseteq LeftBy(q)
      BY <1>5 DEF Pruning, Publishing, LeftBy, PicturesType
    <3> QED
      BY <3>1, StillAccounted
  <2> QED
    BY <1>5, <2>1, <2>2, <2>3
<1>6. ASSUME NEW r \in RenderSlot, PublishPicture(r) PROVE PicturesInv'
  <2> DEFINE p == renders[r].picture
  <2>1. RenderAt(r, "writing") /\ temporary[r] = "whole" /\ p \in Picture
    BY <1>6 DEF PublishPicture, Complete, RenderAt, OwnPictures
  <2>2. /\ shelf' = shelf \cup {p} /\ unfinished' = {}
        /\ renders' = [renders EXCEPT ![r].step = "published"]
        /\ temporary' = [temporary EXCEPT ![r] = "none"]
    BY <1>6, <2>1 DEF PublishPicture, RenderGoes
  <2>3. PicturesType' /\ OwnPictures'
    BY <2>1, <2>2 DEF PicturesType, RenderStep, OwnPictures, RenderAt
  <2>4. IsFiniteSet(shelf')
    BY <2>2, FS_AddElement
  <2>5. Accounted
    BY <2>1 DEF NotTidied, RenderAt
  <2>6. \A q \in SUBSET Pruning' : q \subseteq Pruning /\ LeftBy(q)' \subseteq LeftBy(q)
    BY <2>1, <2>2 DEF Pruning, Publishing, LeftBy, RenderAt, PicturesType
  <2> QED
    BY <2>2, <2>3, <2>4, <2>5, <2>6, StillAccounted
<1>7. ASSUME NEW r \in RenderSlot, Prune(r) PROVE PicturesInv'
  <2>1. PicturesType' /\ OwnPictures'
    BY <1>7 DEF Prune, EndRender, NoRender, PicturesType, RenderStep, OwnPictures, RenderAt
  <2>2. IsFiniteSet(shelf')
    BY <1>7, FS_Subset DEF Prune
  <2>3. Accounted
    BY <1>7 DEF Prune, NotTidied, RenderAt
  <2>4. ASSUME NEW q \in SUBSET Pruning'
        PROVE  (q \cup {r}) \in SUBSET Pruning /\ LeftBy(q)' \subseteq LeftBy(q \cup {r})
    BY <1>7, <2>4 DEF Prune, EndRender, NoRender, Pruning, Publishing, LeftBy, RenderAt, PicturesType
  <2> QED
    BY <1>7, <2>1, <2>2, <2>3, <2>4, StillAccounted DEF Prune
<1>8. ASSUME NEW r \in RenderSlot, PruneFails(r) PROVE PicturesInv'
  <2> USE DEF EndRender, NoRender
  <2>1. PicturesType' /\ OwnPictures'
    BY <1>8 DEF PruneFails, PicturesType, RenderStep, OwnPictures, RenderAt
  <2>2. shelf' \subseteq shelf /\ IsFiniteSet(shelf') /\ unfinished' = {}
    BY <1>8, FS_Subset DEF PruneFails
  <2>3. NotTidied => NotTidied'
    <3> SUFFICES ASSUME NotTidied PROVE NotTidied'
      OBVIOUS
    <3>1. Cardinality(shelf') <= MaxArtifacts + Cardinality(RenderSlot)
      BY <1>0, <2>2, FewerFiles DEF NotTidied
    <3>2. ASSUME NEW q \in RenderSlot, RenderAt(q, "tidying")'
          PROVE  Cardinality(shelf' \ renders'[q].listed) <= MaxArtifacts
      <4>1. renders'[q] = renders[q] /\ RenderAt(q, "tidying")
        BY <1>8, <3>2 DEF PruneFails, RenderAt, PicturesType
      <4>2. IsFiniteSet(shelf \ renders[q].listed)
        BY FS_Subset
      <4> QED
        BY <1>0, <2>2, <4>1, <4>2, FewerFiles DEF NotTidied
    <3>3. \A q \in RenderSlot : renders'[q].step \in {"idle", "prepared", "tidying"}
      BY <1>8 DEF PruneFails, NotTidied, PicturesType
    <3> QED
      BY <3>1, <3>2, <3>3 DEF NotTidied
  <2>4. Accounted => Accounted'
    <3>1. renders[r].step \in {"published", "pruning"} => renders[r].picture \notin shelf'
      BY <1>8 DEF PruneFails
    <3>2. /\ renders' = [renders EXCEPT ![r] = [step |-> "idle", picture |-> NoPicture, listed |-> {}]]
          /\ renders[r].step \notin {"idle", "rendering", "writing"}
      BY <1>8 DEF PruneFails
    <3>3. \A q \in SUBSET Pruning' : q \subseteq Pruning /\ LeftBy(q)' \subseteq LeftBy(q)
      BY <2>2, <3>1, <3>2 DEF Pruning, Publishing, LeftBy, PicturesType
    <3> QED
      BY <3>3, StillAccounted
  <2> QED
    BY <2>1, <2>2, <2>3, <2>4
<1>9. CASE UNCHANGED pictureVars
  BY <1>9 DEF pictureVars, PicturesType, OwnPictures, NotTidied, Accounted, LeftBy, Pruning,
              Publishing, RenderAt
<1> QED
  BY <1>1, <1>2, <1>3, <1>4, <1>5, <1>6, <1>7, <1>8, <1>9 DEF PicturesNext

LEMMA PicturesInvariant == AppSpec => []PicturesInv
<1>1. PicturesInit => PicturesInv
  <2> SUFFICES ASSUME PicturesInit PROVE PicturesInv
    OBVIOUS
  <2> USE PictureAssumption DEF PicturesInit, NoRender, RenderAt
  <2>1. PicturesType /\ OwnPictures
    BY DEF PicturesType, RenderStep, OwnPictures
  <2>2. NotTidied
    BY FS_EmptySet, FS_CardinalityType DEF NotTidied
  <2> QED
    BY <2>1, <2>2, FS_EmptySet DEF PicturesInv
<1>2. AppInit => PicturesInit
  BY DEF AppInit
<1> QED
  BY <1>1, <1>2, PicturesStep, FileSteps, PTL DEF AppSpec

(* What a request reads is a whole picture, and the directory outgrows its  *)
(* limit by one file for each render at most, for any number of pictures,   *)
(* renders and stops.                                                       *)
THEOREM PicturesStayWhole == AppSpec => []PicturesServed
<1>1. PicturesInv => PicturesServed
  BY OneEach DEF PicturesInv, PicturesServed, NotTidied
<1> QED
  BY <1>1, PicturesInvariant, PTL

-----------------------------------------------------------------------------
(* The server's files together: what its workers leave behind can be served *)
(* wherever they fail or stop.                                              *)
THEOREM FilesStaySound == AppSpec => []FilesSound
<1>1. BundlesServed /\ PicturesServed /\ DataRecoverable => FilesSound
  BY DEF FilesSound
<1> QED
  BY <1>1, BundlesStayWhole, PicturesStayWhole, OwnerKeepsData, PTL

-----------------------------------------------------------------------------
(* Natural numbers and what is folded along them.  A set of naturals that   *)
(* has 0, and with each number the next one, has them all: the least of the *)
(* others, as a set of predecessors, would have no lesser one.              *)
LEMMA AllNaturals ==
  ASSUME NEW S \in SUBSET Nat, 0 \in S, \A n \in S : n + 1 \in S
  PROVE  S = Nat
<1> DEFINE below(n) == 0 .. (n - 1)
           U == {below(n) : n \in Nat \ S}
<1> SUFFICES ASSUME Nat \ S # {} PROVE FALSE
  OBVIOUS
<1>1. U \subseteq FiniteSubsetsOf(Nat)
  <2> SUFFICES ASSUME NEW n \in Nat PROVE below(n) \in FiniteSubsetsOf(Nat)
    OBVIOUS
  <2>1. IsFiniteSet(below(n))
    BY FS_Interval
  <2> QED
    BY <2>1 DEF FiniteSubsetsOf
<1>2. U # {}
  OBVIOUS
<1> HIDE DEF U
<1>3. PICK x \in U : \A y \in U : <<y, x>> \notin StrictSubsetOrdering(Nat)
  BY <1>1, <1>2, FS_StrictSubsetOrderingWellFounded, WFMin
<1> USE DEF U
<1>4. PICK n \in Nat \ S : x = below(n)
  OBVIOUS
<1>5. n - 1 \in Nat \ S
  <2>1. n # 0 /\ n - 1 \in Nat /\ (n - 1) + 1 = n
    BY <1>4
  <2> QED
    BY <1>4, <2>1
<1>6. below(n - 1) \in U
  BY <1>5
<1>7. below(n - 1) \subseteq below(n) /\ n - 1 \in below(n) /\ n - 1 \notin below(n - 1)
  BY <1>5
<1>8. <<below(n - 1), below(n)>> \in StrictSubsetOrdering(Nat)
  <2>1. below(n) \subseteq Nat /\ below(n - 1) \subseteq Nat
    OBVIOUS
  <2> HIDE DEF below
  <2> QED
    BY <1>7, <2>1 DEF StrictSubsetOrdering
<1> QED
  BY <1>3, <1>4, <1>6, <1>8


(* Stage by stage: what is in the first set to begin with, and moves from   *)
(* each set to the next, ends in the last.                                  *)
Climbs(n, T, run) ==
  run[0] \in T[0] /\ \A k \in 1 .. n : run[k - 1] \in T[k - 1] => run[k] \in T[k]

LEMMA Stages ==
  ASSUME NEW n \in Nat, NEW T, NEW run, Climbs(n, T, run)
  PROVE  run[n] \in T[n] /\ \A k \in 0 .. n : run[k] \in T[k]
<1> USE DEF Climbs
<1> DEFINE X == {k \in Nat : k <= n => run[k] \in T[k]}
<1>1. 0 \in X
  OBVIOUS
<1>2. ASSUME NEW k \in X PROVE k + 1 \in X
  <2>1. CASE k + 1 <= n
    <3>1. k + 1 \in 1 .. n /\ (k + 1) - 1 = k /\ k <= n
      BY <2>1
    <3>2. run[(k + 1) - 1] \in T[(k + 1) - 1]
      BY <3>1
    <3> QED BY <3>1, <3>2
  <2>2. CASE ~(k + 1 <= n)
    BY <2>2
  <2> QED BY <2>1, <2>2
<1>3. X = Nat
  <2>1. X \in SUBSET Nat
    OBVIOUS
  <2> HIDE DEF X
  <2> QED BY <1>1, <1>2, <2>1, AllNaturals
<1> QED BY <1>3

(* The largest of some of the first numbers.                                *)
LEMMA MaxIs ==
  ASSUME NEW n \in Nat
  PROVE  \A d \in SUBSET (1 .. n) : d # {} => Max(d) \in d /\ \A k \in d : k <= Max(d)
<1> DEFINE X == {m \in Nat : \A d \in SUBSET (1 .. m) : d # {} => \E x \in d : \A y \in d : x >= y}
<1>1. 0 \in X
  <2>1. 1 .. 0 = {}
    OBVIOUS
  <2> QED BY <2>1
<1>2. ASSUME NEW m \in X PROVE m + 1 \in X
  <2> SUFFICES ASSUME NEW d \in SUBSET (1 .. m + 1), d # {}
               PROVE  \E x \in d : \A y \in d : x >= y
    OBVIOUS
  <2>1. CASE m + 1 \in d
    BY <2>1
  <2>2. CASE m + 1 \notin d
    <3>1. d \in SUBSET (1 .. m)
      BY <2>2
    <3> QED BY <3>1
  <2> QED BY <2>1, <2>2
<1>3. X = Nat
  <2>1. X \in SUBSET Nat
    OBVIOUS
  <2> HIDE DEF X
  <2> QED BY <1>1, <1>2, <2>1, AllNaturals
<1> SUFFICES ASSUME NEW d \in SUBSET (1 .. n), d # {}
             PROVE  Max(d) \in d /\ \A k \in d : k <= Max(d)
  OBVIOUS
<1>4. \E x \in d : \A y \in d : x >= y
  BY <1>3
<1>5. Max(d) \in d /\ \A y \in d : Max(d) >= y
  BY <1>4 DEF Max
<1>6. \A y \in d : y \in Int
  OBVIOUS
<1> QED BY <1>5, <1>6

LEMMA MaxOfFirst ==
  ASSUME NEW n \in Nat, NEW k \in 1 .. n
  PROVE  Max(1 .. k) = k /\ (1 .. k) \ {k} = 1 .. (k - 1) /\ 1 .. k # {} /\ 1 .. k \in SUBSET (1 .. n)
<1>1. k \in Nat /\ k \in 1 .. k /\ 1 .. k # {}
  OBVIOUS
<1>2. Max(1 .. k) \in 1 .. k /\ \A j \in 1 .. k : j <= Max(1 .. k)
  BY <1>1, MaxIs
<1>3. Max(1 .. k) = k
  BY <1>1, <1>2
<1> QED BY <1>1, <1>3

(* What a fold from the left computes exists, for a step in a set.          *)
Folding(n, base, G, it) ==
  \A d \in SUBSET (1 .. n) : it[d] = IF d = {} THEN base ELSE G[<<it[d \ {Max(d)}], Max(d)>>]

LEMMA FoldExists ==
  ASSUME NEW U, NEW n \in Nat, NEW base \in U, NEW G \in [U \X (1 .. n) -> U]
  PROVE  \E it \in [SUBSET (1 .. n) -> U] : Folding(n, base, G, it)
<1> DEFINE Is(m, it) == \A d \in SUBSET (1 .. m) :
                          it[d] = IF d = {} THEN base ELSE G[<<it[d \ {Max(d)}], Max(d)>>]
           Some(m) == \E it \in [SUBSET (1 .. m) -> U] : Is(m, it)
           X == {m \in Nat : m <= n => Some(m)}
<1>1. 0 \in X
  <2> DEFINE it == [d \in SUBSET (1 .. 0) |-> base]
  <2>1. it \in [SUBSET (1 .. 0) -> U] /\ Is(0, it)
    OBVIOUS
  <2> HIDE DEF it, Is
  <2> QED BY <2>1
<1>2. ASSUME NEW m \in X PROVE m + 1 \in X
  <2> SUFFICES ASSUME m + 1 <= n PROVE Some(m + 1)
    <3> HIDE DEF Some
    <3> QED OBVIOUS
  <2>1. m \in Nat /\ m <= n /\ m + 1 \in Nat /\ m + 1 \in 1 .. n
    OBVIOUS
  <2>2. PICK f \in [SUBSET (1 .. m) -> U] : Is(m, f)
    BY <2>1
  <2> DEFINE g == [d \in SUBSET (1 .. m + 1) |->
                     IF m + 1 \in d THEN G[<<f[d \ {m + 1}], m + 1>>] ELSE f[d]]
  <2>3. ASSUME NEW d \in SUBSET (1 .. m + 1), m + 1 \in d
        PROVE  Max(d) = m + 1 /\ d \ {m + 1} \in SUBSET (1 .. m) /\ d # {}
    <3>1. d # {} /\ d \ {m + 1} \in SUBSET (1 .. m)
      BY <2>1, <2>3
    <3>2. Max(d) \in d /\ \A k \in d : k <= Max(d)
      BY <2>1, <3>1, MaxIs
    <3>3. Max(d) \in 1 .. m + 1 /\ m + 1 <= Max(d)
      BY <2>3, <3>2
    <3> QED BY <2>1, <3>1, <3>3
  <2>4. ASSUME NEW d \in SUBSET (1 .. m + 1), m + 1 \notin d
        PROVE  d \in SUBSET (1 .. m)
    BY <2>1, <2>4
  <2>5. ASSUME NEW d \in SUBSET (1 .. m), d # {}
        PROVE  Max(d) \in d /\ d \ {Max(d)} \in SUBSET (1 .. m)
    BY <2>1, <2>5, MaxIs
  <2>6. \A d \in SUBSET (1 .. m) : d \in SUBSET (1 .. m + 1) /\ m + 1 \notin d
    BY <2>1
  <2>7. g \in [SUBSET (1 .. m + 1) -> U]
    <3> SUFFICES ASSUME NEW d \in SUBSET (1 .. m + 1)
                 PROVE  (IF m + 1 \in d THEN G[<<f[d \ {m + 1}], m + 1>>] ELSE f[d]) \in U
      OBVIOUS
    <3> QED BY <2>1, <2>3, <2>4
  <2>8. Is(m + 1, g)
    <3> SUFFICES ASSUME NEW d \in SUBSET (1 .. m + 1)
                 PROVE  g[d] = IF d = {} THEN base ELSE G[<<g[d \ {Max(d)}], Max(d)>>]
      OBVIOUS
    <3>1. CASE m + 1 \in d
      <4>1. g[d \ {m + 1}] = f[d \ {m + 1}]
        BY <2>3, <2>6, <3>1
      <4>2. g[d] = G[<<f[d \ {m + 1}], m + 1>>]
        BY <3>1
      <4> QED BY <2>3, <3>1, <4>1, <4>2
    <3>2. CASE m + 1 \notin d
      <4>1. g[d] = f[d] /\ d \in SUBSET (1 .. m)
        BY <2>4, <3>2
      <4>2. d # {} => g[d \ {Max(d)}] = f[d \ {Max(d)}]
        BY <2>5, <2>6, <4>1
      <4> HIDE DEF g
      <4> QED BY <2>2, <4>1, <4>2
    <3> QED BY <3>1, <3>2
  <2> HIDE DEF g, Is
  <2> QED BY <2>7, <2>8
<1>3. X = Nat
  <2>1. X \in SUBSET Nat
    OBVIOUS
  <2> HIDE DEF X
  <2> QED BY <1>1, <1>2, <2>1, AllNaturals
<1>4. Some(n)
  <2> HIDE DEF Some
  <2> QED BY <1>3
<1>5. PICK it \in [SUBSET (1 .. n) -> U] : Is(n, it)
  BY <1>4
<1> QED BY <1>5 DEF Folding
(* A total along its numbers.                                               *)
LEMMA TotalRuns ==
  ASSUME NEW q \in Seq(Nat)
  PROVE  \E run : /\ run[0] = 0
                  /\ \A k \in 1 .. Len(q) : run[k] = run[k - 1] + q[k]
                  /\ Total(q) = run[Len(q)]
<1> DEFINE n == Len(q)
           Body(it) == [d \in SUBSET (1 .. n) |->
                          IF d = {} THEN 0 ELSE it[d \ {Max(d)}] + q[Max(d)]]
           iter == CHOOSE it : it = Body(it)
           G == [p \in Nat \X (1 .. n) |-> p[1] + q[p[2]]]
<1>1. Total(q) = iter[1 .. n]
  <2>1. DOMAIN q = 1 .. n
    OBVIOUS
  <2> QED BY <2>1 DEF Total, FoldLeft, MapThenFoldSet
<1>2. n \in Nat /\ 0 \in Nat /\ G \in [Nat \X (1 .. n) -> Nat]
  OBVIOUS
<1> HIDE DEF n, G
<1>3. PICK it \in [SUBSET (1 .. n) -> Nat] : Folding(n, 0, G, it)
  BY <1>2, FoldExists
<1>4. it = Body(it)
  <2>1. ASSUME NEW d \in SUBSET (1 .. n), d # {}
        PROVE  G[<<it[d \ {Max(d)}], Max(d)>>] = it[d \ {Max(d)}] + q[Max(d)]
    <3>1. Max(d) \in 1 .. n /\ d \ {Max(d)} \in SUBSET (1 .. n)
      BY <1>2, <2>1, MaxIs
    <3> QED BY <3>1 DEF G
  <2>2. \A d \in SUBSET (1 .. n) : it[d] = Body(it)[d]
    BY <1>3, <2>1 DEF Folding
  <2> QED BY <1>3, <2>2
<1>5. iter = Body(iter)
  <2> HIDE DEF Body
  <2> QED BY <1>4
<1> HIDE DEF iter
<1> DEFINE run == [k \in 0 .. n |-> iter[1 .. k]]
<1>6. run[0] = 0
  <2>1. 1 .. 0 = {} /\ {} \in SUBSET (1 .. n) /\ 0 \in 0 .. n
    BY <1>2
  <2> QED BY <1>5, <2>1
<1>7. ASSUME NEW k \in 1 .. n
      PROVE  run[k] = run[k - 1] + q[k]
  <2>1. k \in 0 .. n /\ k - 1 \in 0 .. n
    BY <1>2
  <2>2. /\ Max(1 .. k) = k /\ (1 .. k) \ {k} = 1 .. (k - 1)
        /\ 1 .. k # {} /\ 1 .. k \in SUBSET (1 .. n)
    BY <1>2, MaxOfFirst
  <2>3. iter[1 .. k] = iter[1 .. (k - 1)] + q[k]
    BY <1>5, <2>2
  <2> QED BY <2>1, <2>3
<1>8. Total(q) = run[n]
  BY <1>1, <1>2
<1> HIDE DEF run
<1> QED BY <1>6, <1>7, <1>8 DEF n

(* A filter along its sequence.                                             *)
LEMMA AmongRuns ==
  ASSUME NEW E, NEW s \in Seq(E), NEW S
  PROVE  \E run : /\ run[0] = <<>>
                  /\ \A k \in 1 .. Len(s) : run[k] = (IF s[k] \in S THEN Append(run[k - 1], s[k]) ELSE run[k - 1])
                  /\ Among(s, S) = run[Len(s)]
<1> DEFINE n == Len(s)
           Body(it) == [d \in SUBSET (1 .. n) |->
                          IF d = {} THEN <<>> ELSE (IF s[Max(d)] \in S THEN Append(it[d \ {Max(d)}], s[Max(d)]) ELSE it[d \ {Max(d)}])]
           iter == CHOOSE it : it = Body(it)
           G == [p \in Seq(E) \X (1 .. n) |-> (IF s[p[2]] \in S THEN Append(p[1], s[p[2]]) ELSE p[1])]
<1>1. Among(s, S) = iter[1 .. n]
  <2>1. DOMAIN s = 1 .. n
    OBVIOUS
  <2> QED BY <2>1 DEF Among, FoldLeft, MapThenFoldSet
<1>2. n \in Nat /\ <<>> \in Seq(E) /\ G \in [Seq(E) \X (1 .. n) -> Seq(E)]
  OBVIOUS
<1> HIDE DEF n, G
<1>3. PICK it \in [SUBSET (1 .. n) -> Seq(E)] : Folding(n, <<>>, G, it)
  BY <1>2, FoldExists
<1>4. it = Body(it)
  <2>1. ASSUME NEW d \in SUBSET (1 .. n), d # {}
        PROVE  G[<<it[d \ {Max(d)}], Max(d)>>] = (IF s[Max(d)] \in S THEN Append(it[d \ {Max(d)}], s[Max(d)]) ELSE it[d \ {Max(d)}])
    <3>1. Max(d) \in 1 .. n /\ d \ {Max(d)} \in SUBSET (1 .. n)
      BY <1>2, <2>1, MaxIs
    <3> QED BY <3>1 DEF G
  <2>2. \A d \in SUBSET (1 .. n) : it[d] = Body(it)[d]
    BY <1>3, <2>1 DEF Folding
  <2> QED BY <1>3, <2>2
<1>5. iter = Body(iter)
  <2> HIDE DEF Body
  <2> QED BY <1>4
<1> HIDE DEF iter
<1> DEFINE run == [k \in 0 .. n |-> iter[1 .. k]]
<1>6. run[0] = <<>>
  <2>1. 1 .. 0 = {} /\ {} \in SUBSET (1 .. n) /\ 0 \in 0 .. n
    BY <1>2
  <2> QED BY <1>5, <2>1
<1>7. ASSUME NEW k \in 1 .. n
      PROVE  run[k] = (IF s[k] \in S THEN Append(run[k - 1], s[k]) ELSE run[k - 1])
  <2>1. k \in 0 .. n /\ k - 1 \in 0 .. n
    BY <1>2
  <2>2. /\ Max(1 .. k) = k /\ (1 .. k) \ {k} = 1 .. (k - 1)
        /\ 1 .. k # {} /\ 1 .. k \in SUBSET (1 .. n)
    BY <1>2, MaxOfFirst
  <2>3. iter[1 .. k] = (IF s[k] \in S THEN Append(iter[1 .. (k - 1)], s[k]) ELSE iter[1 .. (k - 1)])
    BY <1>5, <2>2
  <2> QED BY <2>1, <2>3
<1>8. Among(s, S) = run[n]
  BY <1>1, <1>2
<1> HIDE DEF run
<1> QED BY <1>6, <1>7, <1>8 DEF n

LEMMA TotalType ==
  ASSUME NEW q \in Seq(Nat)
  PROVE  Total(q) \in Nat
<1>1. PICK run : /\ run[0] = 0
                 /\ \A k \in 1 .. Len(q) : run[k] = run[k - 1] + q[k]
                 /\ Total(q) = run[Len(q)]
  BY TotalRuns
<1> DEFINE T == [k \in 0 .. Len(q) |-> Nat]
<1>2. \A k \in 1 .. Len(q) : run[k - 1] \in T[k - 1] => run[k] \in T[k]
  BY <1>1
<1>3. run[0] \in T[0] /\ Len(q) \in Nat
  BY <1>1
<1>4. run[Len(q)] \in T[Len(q)]
  <2> HIDE DEF T
  <2>1. Climbs(Len(q), T, run)
    BY <1>2, <1>3 DEF Climbs
  <2> QED BY <1>3, <2>1, Stages
<1> QED BY <1>1, <1>4

LEMMA TotalOfNone == Total(<<>>) = 0
<1>1. <<>> \in Seq(Nat) /\ Len(<<>>) = 0
  OBVIOUS
<1> QED BY <1>1, TotalRuns

LEMMA TotalOfMore ==
  ASSUME NEW q \in Seq(Nat), NEW m \in Nat
  PROVE  Total(Append(q, m)) = Total(q) + m
<1> DEFINE n == Len(q)
           p == Append(q, m)
<1>1. p \in Seq(Nat) /\ Len(p) = n + 1 /\ n \in Nat /\ p[n + 1] = m /\ \A k \in 1 .. n : p[k] = q[k]
  OBVIOUS
<1> HIDE DEF p
<1>2. PICK a : /\ a[0] = 0
               /\ \A k \in 1 .. Len(q) : a[k] = a[k - 1] + q[k]
               /\ Total(q) = a[Len(q)]
  BY TotalRuns
<1>3. PICK b : /\ b[0] = 0
               /\ \A k \in 1 .. Len(p) : b[k] = b[k - 1] + p[k]
               /\ Total(p) = b[Len(p)]
  BY <1>1, TotalRuns
<1> HIDE DEF n
<1> DEFINE T == [k \in 0 .. n |-> {a[k]}]
<1>4. b[0] \in T[0]
  BY <1>1, <1>2, <1>3
<1>5. ASSUME NEW k \in 1 .. n, b[k - 1] \in T[k - 1] PROVE b[k] \in T[k]
  <2>1. k \in 0 .. n /\ k - 1 \in 0 .. n /\ k \in 1 .. Len(p) /\ k \in 1 .. Len(q)
    BY <1>1 DEF n
  <2>2. b[k - 1] = a[k - 1]
    BY <1>5, <2>1
  <2>3. b[k] = b[k - 1] + p[k] /\ a[k] = a[k - 1] + q[k] /\ p[k] = q[k]
    BY <1>1, <1>2, <1>3, <2>1
  <2> QED BY <2>1, <2>2, <2>3
<1>6. b[n] \in T[n]
  <2> HIDE DEF T
  <2>1. Climbs(n, T, b)
    BY <1>4, <1>5 DEF Climbs
  <2> QED BY <1>1, <2>1, Stages
<1>7. b[n] = a[n]
  BY <1>1, <1>6
<1>8. b[n + 1] = b[n] + m
  <2>1. n + 1 \in 1 .. Len(p) /\ (n + 1) - 1 = n
    BY <1>1
  <2> QED BY <1>1, <1>3, <2>1
<1> QED BY <1>1, <1>2, <1>3, <1>7, <1>8 DEF n, p

LEMMA AmongType ==
  ASSUME NEW E, NEW s \in Seq(E), NEW S
  PROVE  Among(s, S) \in Seq(E \cap S)
<1>1. PICK run : /\ run[0] = <<>>
                 /\ \A k \in 1 .. Len(s) :
                      run[k] = (IF s[k] \in S THEN Append(run[k - 1], s[k]) ELSE run[k - 1])
                 /\ Among(s, S) = run[Len(s)]
  BY AmongRuns
<1> DEFINE T == [k \in 0 .. Len(s) |-> Seq(E \cap S)]
<1>2. ASSUME NEW k \in 1 .. Len(s), run[k - 1] \in T[k - 1] PROVE run[k] \in T[k]
  <2>1. k \in 0 .. Len(s) /\ k - 1 \in 0 .. Len(s)
    OBVIOUS
  <2>2. run[k - 1] \in Seq(E \cap S)
    BY <1>2, <2>1
  <2>3. s[k] \in S => Append(run[k - 1], s[k]) \in Seq(E \cap S)
    BY <2>2
  <2>4. run[k] = (IF s[k] \in S THEN Append(run[k - 1], s[k]) ELSE run[k - 1])
    BY <1>1
  <2> QED BY <2>1, <2>2, <2>3, <2>4
<1>3. run[0] \in T[0] /\ Len(s) \in Nat
  BY <1>1
<1>4. run[Len(s)] \in T[Len(s)]
  <2> HIDE DEF T
  <2>1. Climbs(Len(s), T, run)
    BY <1>2, <1>3 DEF Climbs
  <2> QED BY <1>3, <2>1, Stages
<1> QED BY <1>1, <1>4

LEMMA AmongSome ==
  ASSUME NEW E, NEW s \in Seq(E), NEW S, NEW j \in 1 .. Len(s), s[j] \in S
  PROVE  Among(s, S) # <<>>
<1>1. PICK run : /\ run[0] = <<>>
                 /\ \A k \in 1 .. Len(s) :
                      run[k] = (IF s[k] \in S THEN Append(run[k - 1], s[k]) ELSE run[k - 1])
                 /\ Among(s, S) = run[Len(s)]
  BY AmongRuns
<1> DEFINE T == [k \in 0 .. Len(s) |-> {t \in Seq(E) : k >= j => t # <<>>}]
<1>2. ASSUME NEW k \in 1 .. Len(s), run[k - 1] \in T[k - 1] PROVE run[k] \in T[k]
  <2>1. k \in 0 .. Len(s) /\ k - 1 \in 0 .. Len(s)
    OBVIOUS
  <2>2. run[k - 1] \in Seq(E) /\ (k - 1 >= j => run[k - 1] # <<>>)
    BY <1>2, <2>1
  <2>3. s[k] \in E
    OBVIOUS
  <2>3a. Append(run[k - 1], s[k]) \in Seq(E) /\ Append(run[k - 1], s[k]) # <<>>
    BY <2>2, <2>3, AppendProperties
  <2>4. run[k] = (IF s[k] \in S THEN Append(run[k - 1], s[k]) ELSE run[k - 1])
    BY <1>1
  <2>5. run[k] \in Seq(E)
    BY <2>2, <2>3a, <2>4
  <2>6. k >= j => run[k] # <<>>
    BY <2>2, <2>3a, <2>4
  <2> QED BY <2>1, <2>5, <2>6
<1>3. run[0] \in T[0] /\ Len(s) \in Nat
  BY <1>1
<1>4. run[Len(s)] \in T[Len(s)]
  <2> HIDE DEF T
  <2>1. Climbs(Len(s), T, run)
    BY <1>2, <1>3 DEF Climbs
  <2> QED BY <1>3, <2>1, Stages
<1> QED BY <1>1, <1>4

LEMMA AmongInjective ==
  ASSUME NEW E, NEW s \in Seq(E), NEW S, IsInjective(s)
  PROVE  IsInjective(Among(s, S))
<1>1. PICK run : /\ run[0] = <<>>
                 /\ \A k \in 1 .. Len(s) :
                      run[k] = (IF s[k] \in S THEN Append(run[k - 1], s[k]) ELSE run[k - 1])
                 /\ Among(s, S) = run[Len(s)]
  BY AmongRuns
<1> DEFINE Fine(k, t) == /\ \A x, y \in 1 .. Len(t) : t[x] = t[y] => x = y
                         /\ \A x \in 1 .. Len(t) : \E m \in 1 .. k : t[x] = s[m]
           T == [k \in 0 .. Len(s) |-> {t \in Seq(E) : Fine(k, t)}]
<1>2. ASSUME NEW k \in 1 .. Len(s), run[k - 1] \in T[k - 1] PROVE run[k] \in T[k]
  <2>1. k \in 0 .. Len(s) /\ k - 1 \in 0 .. Len(s)
    OBVIOUS
  <2>2. run[k - 1] \in Seq(E) /\ Fine(k - 1, run[k - 1])
    BY <1>2, <2>1
  <2>3. run[k] = (IF s[k] \in S THEN Append(run[k - 1], s[k]) ELSE run[k - 1])
    BY <1>1
  <2>4. ASSUME NEW t \in Seq(E), Fine(k - 1, t)
        PROVE  Fine(k, t) /\ Append(t, s[k]) \in Seq(E) /\ Fine(k, Append(t, s[k]))
    <3> DEFINE u == Append(t, s[k])
    <3>1. /\ u \in Seq(E) /\ Len(u) = Len(t) + 1 /\ Len(t) \in Nat
          /\ \A x \in 1 .. Len(t) : u[x] = t[x]
          /\ u[Len(t) + 1] = s[k]
      OBVIOUS
    <3> HIDE DEF u
    <3>2. \A x \in 1 .. Len(t) : t[x] # s[k]
      <4> SUFFICES ASSUME NEW x \in 1 .. Len(t) PROVE t[x] # s[k]
        OBVIOUS
      <4>1. PICK m \in 1 .. (k - 1) : t[x] = s[m]
        BY <2>4
      <4>2. m # k /\ m \in 1 .. Len(s) /\ DOMAIN s = 1 .. Len(s)
        OBVIOUS
      <4> QED BY <4>1, <4>2 DEF IsInjective
    <3>3. \A x \in 1 .. Len(t) : \E m \in 1 .. k : t[x] = s[m]
      BY <2>4
    <3>4. \A x \in 1 .. Len(u) : x = Len(t) + 1 \/ x \in 1 .. Len(t)
      BY <3>1
    <3>5. \A x, y \in 1 .. Len(u) : u[x] = u[y] => x = y
      BY <2>4, <3>1, <3>2, <3>4
    <3>6. \A x \in 1 .. Len(u) : \E m \in 1 .. k : u[x] = s[m]
      BY <3>1, <3>3, <3>4
    <3> QED BY <2>4, <3>1, <3>3, <3>5, <3>6 DEF u
  <2>5. run[k] \in Seq(E) /\ Fine(k, run[k])
    <3> HIDE DEF Fine
    <3> QED BY <2>2, <2>3, <2>4
  <2> HIDE DEF Fine
  <2> QED BY <2>1, <2>5
<1>3. run[0] \in T[0] /\ Len(s) \in Nat
  BY <1>1
<1>4. run[Len(s)] \in T[Len(s)]
  <2> HIDE DEF T
  <2>1. Climbs(Len(s), T, run)
    BY <1>2, <1>3 DEF Climbs
  <2> QED BY <1>3, <2>1, Stages
<1>5. Among(s, S) \in Seq(E) /\ \A x, y \in 1 .. Len(Among(s, S)) :
                                  Among(s, S)[x] = Among(s, S)[y] => x = y
  BY <1>1, <1>3, <1>4
<1>6. DOMAIN Among(s, S) = 1 .. Len(Among(s, S))
  BY <1>5
<1> QED BY <1>5, <1>6 DEF IsInjective

(* A total of numbers that are not all 0, and of numbers one of which is    *)
(* less by one at most.                                                     *)
LEMMA TotalPositive ==
  ASSUME NEW q \in Seq(Nat), Total(q) > 0
  PROVE  \E k \in 1 .. Len(q) : q[k] > 0
<1> SUFFICES ASSUME \A k \in 1 .. Len(q) : ~(q[k] > 0) PROVE FALSE
  OBVIOUS
<1>1. PICK run : /\ run[0] = 0
                 /\ \A k \in 1 .. Len(q) : run[k] = run[k - 1] + q[k]
                 /\ Total(q) = run[Len(q)]
  BY TotalRuns
<1> DEFINE T == [k \in 0 .. Len(q) |-> {0}]
<1>2. ASSUME NEW k \in 1 .. Len(q), run[k - 1] \in T[k - 1] PROVE run[k] \in T[k]
  <2>1. k \in 0 .. Len(q) /\ k - 1 \in 0 .. Len(q) /\ q[k] \in Nat
    OBVIOUS
  <2>2. q[k] = 0 /\ run[k - 1] = 0 /\ run[k] = run[k - 1] + q[k]
    BY <1>1, <1>2, <2>1
  <2> QED BY <2>1, <2>2
<1>3. run[0] \in T[0] /\ Len(q) \in Nat
  BY <1>1
<1>4. run[Len(q)] \in T[Len(q)]
  <2> HIDE DEF T
  <2>1. Climbs(Len(q), T, run)
    BY <1>2, <1>3 DEF Climbs
  <2> QED BY <1>3, <2>1, Stages
<1> QED BY <1>1, <1>3, <1>4

LEMMA TotalLessOne ==
  ASSUME NEW p \in Seq(Nat), NEW q \in Seq(Nat), NEW j \in Nat, Len(p) = Len(q),
         \A k \in 1 .. Len(q) : k # j => p[k] = q[k],
         \A k \in 1 .. Len(q) : k = j => p[k] + 1 >= q[k]
  PROVE  Total(p) + 1 >= Total(q)
<1>1. PICK a : /\ a[0] = 0
               /\ \A k \in 1 .. Len(q) : a[k] = a[k - 1] + q[k]
               /\ Total(q) = a[Len(q)]
  BY TotalRuns
<1>2. PICK b : /\ b[0] = 0
               /\ \A k \in 1 .. Len(p) : b[k] = b[k - 1] + p[k]
               /\ Total(p) = b[Len(p)]
  BY TotalRuns
<1> DEFINE pair == [k \in 0 .. Len(q) |-> <<a[k], b[k]>>]
           Near(k) == {x \in Nat \X Nat : /\ x[2] + 1 >= x[1]
                                          /\ j \notin 1 .. k => x[2] = x[1]}
           T == [k \in 0 .. Len(q) |-> Near(k)]
<1>3. ASSUME NEW k \in 1 .. Len(q), pair[k - 1] \in T[k - 1] PROVE pair[k] \in T[k]
  <2>1. k \in 0 .. Len(q) /\ k - 1 \in 0 .. Len(q) /\ q[k] \in Nat /\ p[k] \in Nat
    OBVIOUS
  <2>2a. a[k - 1] \in Nat /\ b[k - 1] \in Nat
    BY <1>3, <2>1
  <2>2b. b[k - 1] + 1 >= a[k - 1]
    BY <1>3, <2>1
  <2>2. j \notin 1 .. (k - 1) => b[k - 1] = a[k - 1]
    BY <1>3, <2>1
  <2>3. a[k] = a[k - 1] + q[k] /\ b[k] = b[k - 1] + p[k]
    BY <1>1, <1>2
  <2>4. a[k] \in Nat /\ b[k] \in Nat
    <3>1. \A x, y \in Nat : x + y \in Nat
      OBVIOUS
    <3> QED BY <2>1, <2>2a, <2>3, <3>1, Zenon
  <2>5. CASE j = k
    <3>1. b[k - 1] = a[k - 1] /\ p[k] + 1 >= q[k] /\ j \in 1 .. k
      BY <2>2, <2>5
    <3>2. b[k] + 1 >= a[k]
      BY <2>1, <2>2a, <2>3, <3>1
    <3> QED BY <2>1, <2>4, <3>1, <3>2
  <2>6. CASE j # k
    <3>1. p[k] = q[k] /\ (j \notin 1 .. k => j \notin 1 .. (k - 1))
      BY <2>6
    <3>2. b[k] + 1 >= a[k]
      BY <2>1, <2>2a, <2>2b, <2>3, <3>1
    <3>3. j \notin 1 .. k => b[k] = a[k]
      BY <2>2, <2>3, <3>1
    <3> QED BY <2>1, <2>4, <3>2, <3>3
  <2> QED BY <2>5, <2>6
<1>4. pair[0] \in T[0] /\ Len(q) \in Nat
  <2>1. Len(q) \in Nat /\ 0 \in 0 .. Len(q)
    OBVIOUS
  <2>2. pair[0] = <<0, 0>> /\ T[0] = Near(0)
    BY <1>1, <1>2, <2>1
  <2> QED BY <2>1, <2>2
<1>5. pair[Len(q)] \in T[Len(q)]
  <2> HIDE DEF T, pair
  <2>1. Climbs(Len(q), T, pair)
    BY <1>3, <1>4 DEF Climbs
  <2> QED BY <1>4, <2>1, Stages
<1>6. Len(q) \in 0 .. Len(q)
  BY <1>4
<1>7. pair[Len(q)] = <<a[Len(q)], b[Len(q)]>> /\ pair[Len(q)] \in Near(Len(q))
  BY <1>5, <1>6
<1>8. b[Len(q)] + 1 >= a[Len(q)]
  BY <1>7
<1> QED BY <1>1, <1>2, <1>8

-----------------------------------------------------------------------------
(* How many copies entries in P stand for.                                  *)
Weights(s, P) == [k \in DOMAIN s |-> IF s[k] \in P THEN s[k].quantity ELSE 0]

Amount(s, P) == Total(Weights(s, P))

Counted(O) == \A o \in O : o.quantity \in Nat

LEMMA AmountOfNone ==
  ASSUME NEW P PROVE Amount(<<>>, P) = 0
<1>1. Weights(<<>>, P) = <<>>
  BY DEF Weights
<1> QED BY <1>1, TotalOfNone DEF Amount

LEMMA WeightsType ==
  ASSUME NEW O, Counted(O), NEW s \in Seq(O), NEW P
  PROVE  Weights(s, P) \in Seq(Nat) /\ Len(Weights(s, P)) = Len(s)
<1>1. \A k \in 1 .. Len(s) : s[k].quantity \in Nat
  BY DEF Counted
<1>2. DOMAIN s = 1 .. Len(s) /\ Len(s) \in Nat
  OBVIOUS
<1>3. Weights(s, P) \in [1 .. Len(s) -> Nat]
  BY <1>1, <1>2 DEF Weights
<1> QED BY <1>2, <1>3

LEMMA AmountType ==
  ASSUME NEW O, Counted(O), NEW s \in Seq(O), NEW P
  PROVE  Amount(s, P) \in Nat
BY WeightsType, TotalType DEF Amount

LEMMA AmountOfMore ==
  ASSUME NEW O, Counted(O), NEW s \in Seq(O), NEW o \in O, NEW P
  PROVE  Amount(Append(s, o), P) = Amount(s, P) + (IF o \in P THEN o.quantity ELSE 0)
<1> DEFINE m == IF o \in P THEN o.quantity ELSE 0
           t == Append(s, o)
<1>1. /\ t \in Seq(O) /\ Len(t) = Len(s) + 1 /\ Len(s) \in Nat
      /\ \A k \in 1 .. Len(s) : t[k] = s[k]
      /\ t[Len(s) + 1] = o
  BY AppendProperties
<1> HIDE DEF t
<1>2. m \in Nat
  BY DEF Counted
<1>3. /\ Weights(s, P) \in Seq(Nat) /\ Len(Weights(s, P)) = Len(s)
      /\ Weights(t, P) \in Seq(Nat) /\ Len(Weights(t, P)) = Len(t)
  BY <1>1, WeightsType
<1>4. Weights(t, P) = Append(Weights(s, P), m)
  <2> DEFINE w == Append(Weights(s, P), m)
  <2>1. /\ w \in Seq(Nat) /\ Len(w) = Len(s) + 1
        /\ \A k \in 1 .. Len(s) : w[k] = Weights(s, P)[k]
        /\ w[Len(s) + 1] = m
    <3> HIDE DEF m
    <3> QED BY <1>2, <1>3, AppendProperties
  <2>2. DOMAIN s = 1 .. Len(s) /\ DOMAIN t = 1 .. Len(t)
    BY <1>1
  <2>3. ASSUME NEW k \in 1 .. Len(t) PROVE Weights(t, P)[k] = w[k]
    <3>1. CASE k \in 1 .. Len(s)
      <4>1. t[k] = s[k] /\ k \in DOMAIN s /\ k \in DOMAIN t
        BY <1>1, <2>2, <3>1
      <4>2. Weights(t, P)[k] = Weights(s, P)[k]
        BY <4>1 DEF Weights
      <4> HIDE DEF w
      <4> QED BY <2>1, <3>1, <4>2
    <3>2. CASE k = Len(s) + 1
      <4>1. k \in DOMAIN t /\ t[k] = o
        BY <1>1, <2>2, <3>2
      <4>2. Weights(t, P)[k] = m
        BY <4>1 DEF Weights
      <4> HIDE DEF w
      <4> QED BY <2>1, <3>2, <4>2
    <3>3. k \in 1 .. Len(s) \/ k = Len(s) + 1
      BY <1>1
    <3> HIDE DEF w
    <3> QED BY <3>1, <3>2, <3>3
  <2> HIDE DEF w, m
  <2> QED BY <1>1, <1>3, <2>1, <2>3, SeqEqual DEF w
<1> HIDE DEF m
<1>5. Total(Append(Weights(s, P), m)) = Total(Weights(s, P)) + m
  BY <1>2, <1>3, TotalOfMore
<1> QED BY <1>4, <1>5 DEF Amount, m, t

LEMMA AmountOfBoth ==
  ASSUME NEW O, Counted(O), NEW s \in Seq(O), NEW t \in Seq(O), NEW P
  PROVE  Amount(s \o t, P) = Amount(s, P) + Amount(t, P)
<1> DEFINE Right(u) == Amount(s \o u, P) = Amount(s, P) + Amount(u, P)
           X == {n \in Nat : \A u \in Seq(O) : Len(u) = n => Right(u)}
<1>1. 0 \in X
  <2> SUFFICES ASSUME NEW u \in Seq(O), Len(u) = 0 PROVE Right(u)
    OBVIOUS
  <2>1. u = <<>> /\ s \o <<>> = s
    BY ConcatEmptySeq
  <2>2. Amount(s, P) \in Nat
    BY AmountType
  <2> QED BY <2>1, <2>2, AmountOfNone
<1>2. ASSUME NEW n \in X PROVE n + 1 \in X
  <2> SUFFICES ASSUME NEW u \in Seq(O), Len(u) = n + 1 PROVE Right(u)
    OBVIOUS
  <2>0. n \in Nat
    OBVIOUS
  <2>1. u # <<>>
    BY <2>0
  <2>2. PICK r \in Seq(O), o \in O : u = Append(r, o)
    BY <2>1, SequenceEmptyOrAppend
  <2>3. Len(r) = n
    BY <2>0, <2>2, AppendProperties
  <2>4. Right(r)
    BY <2>0, <2>3
  <2>5. s \o u = Append(s \o r, o) /\ s \o r \in Seq(O)
    BY <2>2
  <2>6a. Amount(s \o u, P) = Amount(s \o r, P) + (IF o \in P THEN o.quantity ELSE 0)
    <3> DEFINE v == s \o r
    <3>1. v \in Seq(O) /\ s \o u = Append(v, o)
      BY <2>5
    <3> HIDE DEF v
    <3>2. Amount(Append(v, o), P) = Amount(v, P) + (IF o \in P THEN o.quantity ELSE 0)
      BY <3>1, AmountOfMore
    <3>3. Amount(s \o u, P) = Amount(v, P) + (IF o \in P THEN o.quantity ELSE 0)
      BY <3>1, <3>2, Zenon
    <3> QED BY <3>3 DEF v
  <2>6. Amount(u, P) = Amount(r, P) + (IF o \in P THEN o.quantity ELSE 0)
    BY <2>2, AmountOfMore
  <2>7. Amount(s, P) \in Nat /\ Amount(r, P) \in Nat /\ (IF o \in P THEN o.quantity ELSE 0) \in Nat
    BY AmountType DEF Counted
  <2> QED BY <2>4, <2>6, <2>6a, <2>7
<1>3. X = Nat
  <2>1. X \in SUBSET Nat
    OBVIOUS
  <2> HIDE DEF X
  <2> QED BY <1>1, <1>2, <2>1, AllNaturals
<1>4. Len(t) \in Nat
  OBVIOUS
<1> QED BY <1>3, <1>4

LEMMA AmountAmong ==
  ASSUME NEW O, Counted(O), NEW s \in Seq(O), NEW S, NEW P
  PROVE  Amount(Among(s, S), P) <= Amount(s, P)
<1>1. PICK run : /\ run[0] = <<>>
                 /\ \A k \in 1 .. Len(s) :
                      run[k] = (IF s[k] \in S THEN Append(run[k - 1], s[k]) ELSE run[k - 1])
                 /\ Among(s, S) = run[Len(s)]
  BY AmongRuns
<1>2. PICK a : /\ a[0] = 0
               /\ \A k \in 1 .. Len(Weights(s, P)) : a[k] = a[k - 1] + Weights(s, P)[k]
               /\ Total(Weights(s, P)) = a[Len(Weights(s, P))]
  BY WeightsType, TotalRuns
<1>3. Len(Weights(s, P)) = Len(s) /\ Len(s) \in Nat
  BY WeightsType
<1> DEFINE pair == [k \in 0 .. Len(s) |-> <<run[k], a[k]>>]
           W == {x \in Seq(O) \X Nat : Amount(x[1], P) <= x[2]}
           V == [k \in 0 .. Len(s) |-> W]
<1>4. ASSUME NEW k \in 1 .. Len(s), pair[k - 1] \in V[k - 1] PROVE pair[k] \in V[k]
  <2>1. k \in 0 .. Len(s) /\ k - 1 \in 0 .. Len(s) /\ s[k] \in O /\ k \in DOMAIN s
    OBVIOUS
  <2>2. run[k - 1] \in Seq(O) /\ a[k - 1] \in Nat /\ Amount(run[k - 1], P) <= a[k - 1]
    BY <1>4, <2>1
  <2> DEFINE m == IF s[k] \in P THEN s[k].quantity ELSE 0
  <2>3. m \in Nat
    BY <2>1 DEF Counted
  <2>4. a[k] = a[k - 1] + m
    BY <1>2, <1>3, <2>1 DEF Weights
  <2>5. /\ Append(run[k - 1], s[k]) \in Seq(O)
        /\ Amount(Append(run[k - 1], s[k]), P) = Amount(run[k - 1], P) + m
        /\ Amount(run[k - 1], P) \in Nat
    BY <2>1, <2>2, AppendProperties, AmountOfMore, AmountType
  <2> HIDE DEF m
  <2>6. run[k] = (IF s[k] \in S THEN Append(run[k - 1], s[k]) ELSE run[k - 1])
    BY <1>1
  <2>7. run[k] \in Seq(O) /\ a[k] \in Nat /\ Amount(run[k], P) <= a[k]
    BY <2>2, <2>3, <2>4, <2>5, <2>6
  <2> QED BY <2>1, <2>7
<1>5. pair[0] \in V[0]
  <2>1. pair[0] = <<<<>>, 0>> /\ V[0] = W
    BY <1>1, <1>2, <1>3
  <2>2. Amount(<<>>, P) = 0 /\ <<>> \in Seq(O)
    BY AmountOfNone
  <2>3. <<<<>>, 0>> \in W
    <3> DEFINE none == <<>>
    <3>1. none \in Seq(O) /\ Amount(none, P) <= 0
      BY <2>2
    <3> HIDE DEF none
    <3>2. <<none, 0>> \in W
      BY <3>1
    <3> QED BY <3>2 DEF none
  <2> HIDE DEF W, V, pair
  <2> QED BY <2>1, <2>3
<1>6. pair[Len(s)] \in V[Len(s)]
  <2> HIDE DEF V, pair
  <2>1. Climbs(Len(s), V, pair)
    BY <1>4, <1>5 DEF Climbs
  <2> QED BY <1>3, <2>1, Stages
<1>7. Amount(run[Len(s)], P) <= a[Len(s)]
  BY <1>3, <1>6
<1> QED BY <1>1, <1>2, <1>3, <1>7 DEF Amount

-----------------------------------------------------------------------------
(* Lists under construction, and what they offer.                           *)
PullOffers == [id : EntryIds \cup ChoiceIds, card : PullCard, item : PullItem \cup {NoItem},
           quantity : Nat]

PullEntries == {e \in [id : EntryIds, card : PullCard, item : PullItem, quantity : Nat] :
              e.quantity \in 1 .. MaxNeed[e.card]}

PullChoices == [id : ChoiceIds, card : PullCard, others : Seq(PullItem), item : PullItem \cup {NoItem}]

PullLists == [entries : Seq(PullEntries), choices : Seq(PullChoices), used : [PullItem -> Nat],
          needed : Nat, skipped : Nat, remaining : Nat]

CopiesOf(choices) == [k \in DOMAIN choices |-> CopyOf(choices[k])]

AmountOf(l, P) == Amount(l.entries, P) + Amount(CopiesOf(l.choices), P)

CardOffers(c) == {o \in PullOffers : o.card = c}
ItemOffers(i) == {o \in PullOffers : o.item = i}

ExactEntry(c, i, n) == [id |-> [card |-> c, item |-> i], card |-> c, item |-> i, quantity |-> n]

LEMMA OffersCounted == Counted(PullOffers) /\ PullEntries \subseteq PullOffers
<1>1. Counted(PullOffers)
  BY DEF Counted, PullOffers
<1>2. ASSUME NEW e \in PullEntries PROVE e \in PullOffers
  <2>1. e \in [id : EntryIds, card : PullCard, item : PullItem, quantity : Nat]
    BY DEF PullEntries
  <2> QED BY <2>1 DEF PullOffers
<1> QED BY <1>1, <1>2

LEMMA CopyOffered ==
  ASSUME NEW choice \in PullChoices
  PROVE  CopyOf(choice) \in PullOffers
BY DEF PullChoices, CopyOf, PullOffers

LEMMA CopiesType ==
  ASSUME NEW s \in Seq(PullChoices)
  PROVE  CopiesOf(s) \in Seq(PullOffers) /\ Len(CopiesOf(s)) = Len(s)
<1>1. DOMAIN s = 1 .. Len(s) /\ Len(s) \in Nat
  OBVIOUS
<1>2. CopiesOf(s) \in [1 .. Len(s) -> PullOffers]
  BY <1>1, CopyOffered DEF CopiesOf
<1> QED BY <1>1, <1>2

LEMMA CopiesOfMore ==
  ASSUME NEW s \in Seq(PullChoices), NEW choice \in PullChoices
  PROVE  CopiesOf(Append(s, choice)) = Append(CopiesOf(s), CopyOf(choice))
<1> DEFINE t == Append(s, choice)
           w == Append(CopiesOf(s), CopyOf(choice))
<1>1. /\ t \in Seq(PullChoices) /\ Len(t) = Len(s) + 1 /\ Len(s) \in Nat
      /\ \A k \in 1 .. Len(s) : t[k] = s[k]
      /\ t[Len(s) + 1] = choice
  BY AppendProperties
<1>2. /\ CopiesOf(s) \in Seq(PullOffers) /\ Len(CopiesOf(s)) = Len(s)
      /\ CopiesOf(t) \in Seq(PullOffers) /\ Len(CopiesOf(t)) = Len(t)
  <2> HIDE DEF t
  <2> QED BY <1>1, CopiesType
<1>3. /\ w \in Seq(PullOffers) /\ Len(w) = Len(s) + 1
      /\ \A k \in 1 .. Len(s) : w[k] = CopiesOf(s)[k]
      /\ w[Len(s) + 1] = CopyOf(choice)
  BY <1>2, AppendProperties, CopyOffered
<1>4. DOMAIN s = 1 .. Len(s) /\ DOMAIN t = 1 .. Len(t)
  BY <1>1
<1> HIDE DEF t, w
<1>5. ASSUME NEW k \in 1 .. Len(t) PROVE CopiesOf(t)[k] = w[k]
  <2>1. CopiesOf(t)[k] = CopyOf(t[k])
    BY <1>4 DEF CopiesOf
  <2>2. CASE k \in 1 .. Len(s)
    <3>1. CopiesOf(s)[k] = CopyOf(s[k]) /\ t[k] = s[k] /\ w[k] = CopiesOf(s)[k]
      BY <1>1, <1>3, <1>4, <2>2 DEF CopiesOf
    <3> QED BY <2>1, <3>1
  <2>3. CASE k = Len(s) + 1
    BY <1>1, <1>3, <2>1, <2>3
  <2>4. k \in 1 .. Len(s) \/ k = Len(s) + 1
    BY <1>1
  <2> QED BY <2>2, <2>3, <2>4
<1>6. CopiesOf(t) = w
  BY <1>1, <1>2, <1>3, <1>5, SeqEqual
<1> QED BY <1>6 DEF t, w

LEMMA AmountOfType ==
  ASSUME NEW l \in PullLists, NEW P
  PROVE  AmountOf(l, P) \in Nat /\ Amount(l.entries, P) \in Nat /\ Amount(CopiesOf(l.choices), P) \in Nat
<1>1. l.entries \in Seq(PullOffers) /\ l.choices \in Seq(PullChoices)
  BY OffersCounted DEF PullLists
<1>2. Amount(l.entries, P) \in Nat /\ Amount(CopiesOf(l.choices), P) \in Nat
  BY <1>1, CopiesType, OffersCounted, AmountType
<1> QED BY <1>2 DEF AmountOf

LEMMA OfferedIs ==
  ASSUME NEW l \in PullLists
  PROVE  /\ Offered(l) \in Seq(PullOffers)
         /\ Offered(l) = l.entries \o CopiesOf(l.choices)
         /\ \A P : Amount(Offered(l), P) = AmountOf(l, P)
<1>1. l.entries \in Seq(PullOffers) /\ l.choices \in Seq(PullChoices)
  BY OffersCounted DEF PullLists
<1>2. CopiesOf(l.choices) \in Seq(PullOffers)
  BY <1>1, CopiesType
<1>3. Offered(l) = l.entries \o CopiesOf(l.choices)
  BY DEF Offered, CopiesOf
<1>4. Offered(l) \in Seq(PullOffers)
  BY <1>1, <1>2, <1>3, ConcatProperties
<1>5. \A P : Amount(l.entries \o CopiesOf(l.choices), P) = Amount(l.entries, P) + Amount(CopiesOf(l.choices), P)
  BY <1>1, <1>2, OffersCounted, AmountOfBoth
<1> QED BY <1>3, <1>4, <1>5 DEF AmountOf

LEMMA RemainingType ==
  ASSUME NEW free \in [PullItem -> Nat], NEW used \in [PullItem -> Nat], NEW i \in PullItem
  PROVE  /\ Remaining(free, used)[i] \in Nat
         /\ Remaining(free, used) \in [PullItem -> Nat]
         /\ Remaining(free, used)[i] = IF used[i] < free[i] THEN free[i] - used[i] ELSE 0
BY DEF Remaining

(* One exact item gives n copies: what is missing or what is left of it.    *)
Took(free, c, l, i, n) ==
  LET r == TakeExact(free, c, l, i)
  IN  /\ n \in 0 .. l.remaining /\ n <= Remaining(free, l.used)[i]
      /\ r.needed = l.needed /\ r.skipped = l.skipped /\ r.choices = l.choices
      /\ r.remaining = l.remaining - n
      /\ r.used = [l.used EXCEPT ![i] = @ + n]
      /\ \A P : AmountOf(r, P) = AmountOf(l, P) + (IF ExactEntry(c, i, n) \in P THEN n ELSE 0)

LEMMA TakeExactDoes ==
  ASSUME NEW l \in PullLists, NEW c \in PullCard, NEW i \in PullItem, l.remaining <= MaxNeed[c],
         NEW free \in [PullItem -> Nat]
  PROVE  /\ TakeExact(free, c, l, i) \in PullLists
         /\ \E n \in Nat : ExactEntry(c, i, n) \in PullOffers /\ Took(free, c, l, i, n)
<1> DEFINE n == Least(l.remaining, Remaining(free, l.used)[i])
           r == TakeExact(free, c, l, i)
<1>1. /\ l.entries \in Seq(PullEntries) /\ l.choices \in Seq(PullChoices) /\ l.used \in [PullItem -> Nat]
      /\ l.needed \in Nat /\ l.skipped \in Nat /\ l.remaining \in Nat
  BY DEF PullLists
<1>2. n \in Nat /\ n <= l.remaining /\ n <= Remaining(free, l.used)[i]
  BY <1>1, RemainingType DEF Least
<1>3. MaxNeed[c] \in Nat
  BY PullAssumption DEF PullAssumption, PullCard
<1>4. ExactEntry(c, i, n) \in PullOffers
  <2> HIDE DEF n
  <2> QED BY <1>2 DEF ExactEntry, PullOffers, EntryIds
<1> SUFFICES /\ r \in PullLists /\ r.needed = l.needed /\ r.skipped = l.skipped /\ r.choices = l.choices
             /\ r.remaining = l.remaining - n /\ r.used = [l.used EXCEPT ![i] = @ + n]
             /\ \A P : AmountOf(r, P) = AmountOf(l, P) + (IF ExactEntry(c, i, n) \in P THEN n ELSE 0)
  <2> HIDE DEF n
  <2>1. n \in 0 .. l.remaining
    BY <1>1, <1>2
  <2>2. Took(free, c, l, i, n)
    BY <1>2, <2>1 DEF Took
  <2> QED BY <1>2, <1>4, <2>2
<1>5. CASE n = 0
  <2>1. r = l
    BY <1>5 DEF TakeExact
  <2>2. [l.used EXCEPT ![i] = @ + n] = l.used
    BY <1>1, <1>5
  <2>3. \A P : AmountOf(l, P) \in Nat
    BY AmountOfType
  <2> HIDE DEF r
  <2> QED BY <1>1, <1>5, <2>1, <2>2, <2>3
<1>6. CASE n # 0
  <2>1. r = [l EXCEPT !.entries = Append(@, ExactEntry(c, i, n)), !.used[i] = @ + n, !.remaining = @ - n]
    BY <1>6 DEF TakeExact, ExactEntry
  <2> HIDE DEF r, n
  <2>2. ExactEntry(c, i, n) \in PullEntries
    BY <1>1, <1>2, <1>3, <1>6 DEF ExactEntry, PullEntries, EntryIds
  <2>3. /\ r.entries = Append(l.entries, ExactEntry(c, i, n)) /\ r.choices = l.choices
        /\ r.used = [l.used EXCEPT ![i] = @ + n] /\ r.needed = l.needed /\ r.skipped = l.skipped
        /\ r.remaining = l.remaining - n
    BY <2>1 DEF PullLists
  <2>4. r \in PullLists
    <3>1. Append(l.entries, ExactEntry(c, i, n)) \in Seq(PullEntries)
      BY <1>1, <2>2, AppendProperties
    <3>2. [l.used EXCEPT ![i] = @ + n] \in [PullItem -> Nat] /\ l.remaining - n \in Nat
      BY <1>1, <1>2
    <3> QED BY <1>1, <2>1, <3>1, <3>2 DEF PullLists
  <2>5. ASSUME NEW P
        PROVE  AmountOf(r, P) = AmountOf(l, P) + (IF ExactEntry(c, i, n) \in P THEN n ELSE 0)
    <3>1. l.entries \in Seq(PullOffers) /\ ExactEntry(c, i, n).quantity = n
      BY <1>1, OffersCounted DEF ExactEntry
    <3>2. Amount(r.entries, P) = Amount(l.entries, P) + (IF ExactEntry(c, i, n) \in P THEN n ELSE 0)
      BY <1>4, <2>3, <3>1, OffersCounted, AmountOfMore
    <3>3. Amount(l.entries, P) \in Nat /\ Amount(CopiesOf(l.choices), P) \in Nat
      BY AmountOfType
    <3>4. (IF ExactEntry(c, i, n) \in P THEN n ELSE 0) \in Nat
      BY <1>2
    <3> QED BY <2>3, <3>2, <3>3, <3>4 DEF AmountOf
  <2> QED BY <2>3, <2>4, <2>5
<1> QED BY <1>5, <1>6

Room(c) == {x \in PullLists : x.remaining <= MaxNeed[c]}

LEMMA TakeExactKeeps ==
  ASSUME NEW free \in [PullItem -> Nat], NEW c \in PullCard, NEW i \in PullItem,
         NEW l \in Room(c)
  PROVE  TakeExact(free, c, l, i) \in Room(c)
<1>0. l \in PullLists /\ l.remaining <= MaxNeed[c]
  BY DEF Room
<1>1. PICK n \in Nat : Took(free, c, l, i, n)
  BY <1>0, TakeExactDoes
<1>2. TakeExact(free, c, l, i).remaining = l.remaining - n /\ n \in 0 .. l.remaining
  BY <1>1 DEF Took
<1>3. l.remaining \in Nat /\ MaxNeed[c] \in Nat /\ l.remaining <= MaxNeed[c]
  BY <1>0, PullAssumption DEF PullAssumption, PullCard, PullLists
<1>4. TakeExact(free, c, l, i).remaining <= MaxNeed[c]
  BY <1>2, <1>3
<1> QED BY <1>0, <1>4, TakeExactDoes DEF Room

(* The exact items of a card one after the other.                           *)
LEMMA TakeRuns ==
  ASSUME NEW free \in [PullItem -> Nat], NEW c \in PullCard,
         NEW l \in Room(c), NEW s \in Seq(PullItem)
  PROVE  \E run : /\ run[0] = l
                  /\ \A k \in 1 .. Len(s) : run[k] = TakeExact(free, c, run[k - 1], s[k])
                  /\ TakeAllExact(free, c, l, s) = run[Len(s)]
<1> DEFINE n == Len(s)
           Body(it) == [d \in SUBSET (1 .. n) |->
                          IF d = {} THEN l ELSE TakeExact(free, c, it[d \ {Max(d)}], s[Max(d)])]
           iter == CHOOSE it : it = Body(it)
           G == [p \in Room(c) \X (1 .. n) |-> TakeExact(free, c, p[1], s[p[2]])]
<1>1. TakeAllExact(free, c, l, s) = iter[1 .. n]
  <2>1. DOMAIN s = 1 .. n
    OBVIOUS
  <2> QED BY <2>1 DEF TakeAllExact, FoldLeft, MapThenFoldSet
<1>2. n \in Nat /\ l \in Room(c) /\ G \in [Room(c) \X (1 .. n) -> Room(c)]
  <2>1. \A p \in Room(c) \X (1 .. n) : TakeExact(free, c, p[1], s[p[2]]) \in Room(c)
    <3> SUFFICES ASSUME NEW a \in Room(c), NEW k \in 1 .. n
                 PROVE  TakeExact(free, c, a, s[k]) \in Room(c)
      OBVIOUS
    <3> QED BY TakeExactKeeps
  <2> QED BY <2>1
<1> HIDE DEF n, G
<1>3. PICK it \in [SUBSET (1 .. n) -> Room(c)] : Folding(n, l, G, it)
  BY <1>2, FoldExists
<1>4. it = Body(it)
  <2>1. ASSUME NEW d \in SUBSET (1 .. n), d # {}
        PROVE  G[<<it[d \ {Max(d)}], Max(d)>>] = TakeExact(free, c, it[d \ {Max(d)}], s[Max(d)])
    <3>1. Max(d) \in 1 .. n /\ d \ {Max(d)} \in SUBSET (1 .. n)
      BY <1>2, <2>1, MaxIs
    <3> QED BY <3>1 DEF G
  <2>2. \A d \in SUBSET (1 .. n) : it[d] = Body(it)[d]
    BY <1>3, <2>1 DEF Folding
  <2> QED BY <1>3, <2>2
<1>5. iter = Body(iter)
  <2> HIDE DEF Body
  <2> QED BY <1>4
<1> HIDE DEF iter
<1> DEFINE run == [k \in 0 .. n |-> iter[1 .. k]]
<1>6. run[0] = l
  <2>1. 1 .. 0 = {} /\ {} \in SUBSET (1 .. n) /\ 0 \in 0 .. n
    BY <1>2
  <2> QED BY <1>5, <2>1
<1>7. ASSUME NEW k \in 1 .. n
      PROVE  run[k] = TakeExact(free, c, run[k - 1], s[k])
  <2>1. k \in 0 .. n /\ k - 1 \in 0 .. n
    BY <1>2
  <2>2. /\ Max(1 .. k) = k /\ (1 .. k) \ {k} = 1 .. (k - 1)
        /\ 1 .. k # {} /\ 1 .. k \in SUBSET (1 .. n)
    BY <1>2, MaxOfFirst
  <2>3. iter[1 .. k] = TakeExact(free, c, iter[1 .. (k - 1)], s[k])
    BY <1>5, <2>2
  <2> QED BY <2>1, <2>3
<1>8. TakeAllExact(free, c, l, s) = run[n]
  <2>1. n \in 0 .. n
    BY <1>2
  <2>2. run[n] = iter[1 .. n]
    BY <2>1
  <2> HIDE DEF run
  <2> QED BY <1>1, <2>2, Zenon
<1> HIDE DEF run
<1> QED BY <1>6, <1>7, <1>8 DEF n

(* What a list has of a card, and whether it has it in stock.               *)
Grows(c, l, x, m) ==
  /\ x.needed = l.needed /\ x.skipped = l.skipped
  /\ AmountOf(x, CardOffers(c)) = AmountOf(l, CardOffers(c)) + m
  /\ AmountOf(x, PullOffers) = AmountOf(l, PullOffers) + m
  /\ \A d \in PullCard \ {c} : AmountOf(x, CardOffers(d)) = AmountOf(l, CardOffers(d))

InStock(free, l) ==
  \A i \in PullItem : l.used[i] = AmountOf(l, ItemOffers(i)) /\ l.used[i] <= free[i]

LEMMA TakeExactGrows ==
  ASSUME NEW l \in PullLists, NEW c \in PullCard, NEW i \in PullItem, l.remaining <= MaxNeed[c],
         NEW free \in [PullItem -> Nat]
  PROVE  LET r == TakeExact(free, c, l, i)
         IN  /\ r.remaining <= l.remaining /\ r.choices = l.choices
             /\ Grows(c, l, r, l.remaining - r.remaining)
             /\ InStock(free, l) => InStock(free, r)
<1> DEFINE r == TakeExact(free, c, l, i)
<1>1. PICK n \in Nat : ExactEntry(c, i, n) \in PullOffers /\ Took(free, c, l, i, n)
  BY TakeExactDoes
<1> DEFINE e == ExactEntry(c, i, n)
<1>2. /\ n <= l.remaining /\ l.remaining \in Nat /\ n <= Remaining(free, l.used)[i]
      /\ r.needed = l.needed /\ r.skipped = l.skipped /\ r.choices = l.choices
      /\ r.remaining = l.remaining - n /\ r.used = [l.used EXCEPT ![i] = @ + n]
  BY <1>1 DEF Took, PullLists
<1>3. \A P : AmountOf(r, P) = AmountOf(l, P) + (IF e \in P THEN n ELSE 0)
  BY <1>1 DEF Took
<1>4. /\ e \in PullOffers /\ e \in CardOffers(c)
      /\ \A d \in PullCard \ {c} : e \notin CardOffers(d)
      /\ \A j \in PullItem : e \in ItemOffers(j) <=> j = i
  BY <1>1 DEF CardOffers, ItemOffers, ExactEntry
<1>5. \A P : AmountOf(l, P) \in Nat
  BY AmountOfType
<1> HIDE DEF r, e
<1>6. l.remaining - r.remaining = n
  BY <1>2
<1>7. Grows(c, l, r, n)
  BY <1>2, <1>3, <1>4, <1>5 DEF Grows
<1>8. ASSUME InStock(free, l) PROVE InStock(free, r)
  <2> SUFFICES ASSUME NEW j \in PullItem
               PROVE  r.used[j] = AmountOf(r, ItemOffers(j)) /\ r.used[j] <= free[j]
    BY DEF InStock
  <2>1. l.used \in [PullItem -> Nat] /\ l.used[j] = AmountOf(l, ItemOffers(j)) /\ l.used[j] <= free[j]
    BY <1>8 DEF InStock, PullLists
  <2>2. AmountOf(r, ItemOffers(j)) = AmountOf(l, ItemOffers(j)) + (IF j = i THEN n ELSE 0)
    BY <1>3, <1>4
  <2>3. r.used[j] = l.used[j] + (IF j = i THEN n ELSE 0)
    BY <1>2, <2>1
  <2>4. j = i => l.used[j] + n <= free[j]
    BY <1>2, <2>1, RemainingType
  <2> QED BY <2>1, <2>2, <2>3, <2>4
<1> QED BY <1>2, <1>6, <1>7, <1>8 DEF r

LEMMA GrowsOn ==
  ASSUME NEW c, NEW l \in PullLists, NEW x \in PullLists, NEW y, NEW m \in Int, NEW n \in Int,
         Grows(c, l, x, m), Grows(c, x, y, n)
  PROVE  Grows(c, l, y, m + n)
<1>1. \A P : AmountOf(l, P) \in Nat
  BY AmountOfType
<1> QED BY <1>1 DEF Grows

LEMMA GrowsNone ==
  ASSUME NEW c, NEW l \in PullLists
  PROVE  Grows(c, l, l, 0)
<1>1. \A P : AmountOf(l, P) \in Nat
  BY AmountOfType
<1> QED BY <1>1 DEF Grows

(* Together they give copies of the card only, and no more than it lacks.   *)
LEMMA ExactGrows ==
  ASSUME NEW free \in [PullItem -> Nat], NEW c \in PullCard,
         NEW l \in Room(c), NEW s \in Seq(PullItem)
  PROVE  LET x == TakeAllExact(free, c, l, s)
         IN  /\ x \in PullLists /\ x.remaining <= l.remaining /\ x.choices = l.choices
             /\ Grows(c, l, x, l.remaining - x.remaining)
             /\ InStock(free, l) => InStock(free, x)
<1>1. PICK run : /\ run[0] = l
                 /\ \A k \in 1 .. Len(s) : run[k] = TakeExact(free, c, run[k - 1], s[k])
                 /\ TakeAllExact(free, c, l, s) = run[Len(s)]
  BY TakeRuns
<1> DEFINE Good == {x \in PullLists : /\ x.remaining <= l.remaining /\ x.choices = l.choices
                                      /\ Grows(c, l, x, l.remaining - x.remaining)
                                      /\ InStock(free, l) => InStock(free, x)}
           T == [k \in 0 .. Len(s) |-> Good]
<1>2. l.remaining \in Nat /\ MaxNeed[c] \in Nat /\ l.remaining <= MaxNeed[c] /\ l \in PullLists
  BY PullAssumption DEF PullAssumption, PullCard, PullLists, Room
<1>3. ASSUME NEW k \in 1 .. Len(s), run[k - 1] \in T[k - 1] PROVE run[k] \in T[k]
  <2>1. k \in 0 .. Len(s) /\ k - 1 \in 0 .. Len(s) /\ s[k] \in PullItem
    OBVIOUS
  <2> DEFINE x == run[k - 1]
             y == run[k]
  <2>2. x \in Good
    BY <1>3, <2>1
  <2>3. x \in PullLists /\ x.remaining \in Nat /\ x.remaining <= MaxNeed[c]
    <3>1. x \in PullLists /\ x.remaining <= l.remaining
      BY <2>2
    <3>2. x.remaining \in Nat
      BY <3>1 DEF PullLists
    <3> QED BY <1>2, <3>1, <3>2
  <2>4. y = TakeExact(free, c, x, s[k])
    BY <1>1
  <2>5. x.remaining <= l.remaining /\ x.choices = l.choices
    BY <2>2
  <2>6. Grows(c, l, x, l.remaining - x.remaining) /\ (InStock(free, l) => InStock(free, x))
    BY <2>2
  <2> HIDE DEF x, y, Good
  <2>7. y \in PullLists
    BY <2>1, <2>3, <2>4, TakeExactDoes
  <2>8. /\ y.remaining <= x.remaining /\ y.choices = x.choices
        /\ Grows(c, x, y, x.remaining - y.remaining) /\ (InStock(free, x) => InStock(free, y))
    BY <2>1, <2>3, <2>4, TakeExactGrows
  <2>9. y.remaining \in Nat
    BY <2>7 DEF PullLists
  <2>10. (l.remaining - x.remaining) + (x.remaining - y.remaining) = l.remaining - y.remaining
    BY <1>2, <2>3, <2>9
  <2>11. Grows(c, l, y, (l.remaining - x.remaining) + (x.remaining - y.remaining))
    <3>1. l.remaining - x.remaining \in Int /\ x.remaining - y.remaining \in Int
      BY <1>2, <2>3, <2>9
    <3> DEFINE m == l.remaining - x.remaining
               n == x.remaining - y.remaining
    <3>2. Grows(c, l, x, m) /\ Grows(c, x, y, n) /\ m \in Int /\ n \in Int
      BY <2>6, <2>8, <3>1
    <3> HIDE DEF m, n
    <3>3. Grows(c, l, y, m + n)
      BY <1>2, <2>3, <3>2, GrowsOn
    <3> QED BY <3>3 DEF m, n
  <2>12. y.remaining <= l.remaining
    BY <1>2, <2>3, <2>5, <2>8, <2>9
  <2>13. y \in Good
    BY <2>5, <2>6, <2>7, <2>8, <2>10, <2>11, <2>12 DEF Good
  <2> QED BY <2>1, <2>13 DEF y
<1>4. l \in Good
  <2>1. l.remaining - l.remaining = 0
    BY <1>2
  <2> QED BY <1>2, <2>1, GrowsNone
<1>5. Len(s) \in Nat
  OBVIOUS
<1>6. run[Len(s)] \in Good
  <2>0. 0 \in 0 .. Len(s) /\ Len(s) \in 0 .. Len(s)
    BY <1>5
  <2> HIDE DEF Good
  <2>1. run[0] \in T[0] /\ T[Len(s)] = Good
    BY <1>1, <1>4, <2>0
  <2> HIDE DEF T
  <2>2. Climbs(Len(s), T, run)
    BY <1>3, <2>1 DEF Climbs
  <2> QED BY <1>5, <2>1, <2>2, Stages
<1> QED BY <1>1, <1>6

-----------------------------------------------------------------------------
(* Choices.                                                                 *)
Selecting(selections) == \A id \in DOMAIN selections : selections[id] \in PullItem

LeftOf(free, used) == {i \in PullItem : Remaining(free, used)[i] > 0}

LEMMA SelectedType ==
  ASSUME NEW free, NEW used, NEW selections, Selecting(selections), NEW id, NEW others \in Seq(PullItem)
  PROVE  SelectedItem(free, used, selections, id, others) \in PullItem \cup {NoItem}
<1> DEFINE left == Among(others, LeftOf(free, used))
<1>1. left \in Seq(PullItem)
  <2>1. left \in Seq(PullItem \cap LeftOf(free, used))
    BY AmongType
  <2> QED BY <2>1
<1>2. left # <<>> => Head(left) \in PullItem
  <2> HIDE DEF left
  <2> QED BY <1>1
<1>3. id \in DOMAIN selections => selections[id] \in PullItem
  BY DEF Selecting
<1> HIDE DEF left
<1>4. SelectedItem(free, used, selections, id, others) =
        IF id \in DOMAIN selections /\ selections[id] \in ToSet(others) THEN selections[id]
        ELSE IF left = <<>> THEN NoItem ELSE Head(left)
  BY DEF SelectedItem, LeftOf, left
<1> QED BY <1>2, <1>3, <1>4

LEMMA SelectedLeft ==
  ASSUME NEW free, NEW used, NEW selections, DOMAIN selections = {}, NEW id, NEW others \in Seq(PullItem),
         NEW k \in 1 .. Len(others), Remaining(free, used)[others[k]] > 0
  PROVE  SelectedItem(free, used, selections, id, others) \in LeftOf(free, used)
<1> DEFINE left == Among(others, LeftOf(free, used))
<1>1. left \in Seq(PullItem \cap LeftOf(free, used))
  BY AmongType
<1>2. others[k] \in LeftOf(free, used)
  BY DEF LeftOf
<1>3. left # <<>>
  BY <1>2, AmongSome
<1> HIDE DEF left
<1>4. Head(left) \in LeftOf(free, used)
  BY <1>1, <1>3
<1>5. SelectedItem(free, used, selections, id, others) = Head(left)
  BY <1>3 DEF SelectedItem, LeftOf, left
<1> QED BY <1>4, <1>5

ChoiceId(c, others, index) == [card |-> c, first |-> Head(others), index |-> index]

ItemChosen(free, selections, c, others, l, index) ==
  SelectedItem(free, l.used, selections, ChoiceId(c, others, index), others)

(* A choice adds a copy of the item selected.                               *)
Chose(free, selections, c, others, l, index) ==
  LET r      == AddChoice(free, selections, c, others, l, index)
      item   == ItemChosen(free, selections, c, others, l, index)
      choice == [id |-> ChoiceId(c, others, index), card |-> c, others |-> others, item |-> item]
  IN  /\ r \in PullLists /\ choice \in PullChoices
      /\ r.needed = l.needed /\ r.skipped = l.skipped /\ r.remaining = l.remaining
      /\ r.choices = Append(l.choices, choice)
      /\ r.used = [j \in PullItem |-> IF j = item THEN l.used[j] + 1 ELSE l.used[j]]
      /\ \A P : AmountOf(r, P) = AmountOf(l, P) + (IF CopyOf(choice) \in P THEN 1 ELSE 0)

LEMMA AddChoiceDoes ==
  ASSUME NEW free, NEW selections, Selecting(selections), NEW c \in PullCard,
         NEW others \in Seq(PullItem), others # <<>>, NEW l \in PullLists, NEW index \in Nat,
         index < MaxNeed[c]
  PROVE  Chose(free, selections, c, others, l, index)
<1> DEFINE r      == AddChoice(free, selections, c, others, l, index)
           item   == ItemChosen(free, selections, c, others, l, index)
           choice == [id |-> ChoiceId(c, others, index), card |-> c, others |-> others, item |-> item]
<1>1. item \in PullItem \cup {NoItem}
  BY SelectedType DEF ItemChosen
<1>2. ChoiceId(c, others, index) \in ChoiceIds
  <2>1. Head(others) \in PullItem
    OBVIOUS
  <2> QED BY <2>1 DEF ChoiceId, ChoiceIds
<1>3. r = [l EXCEPT !.choices = Append(@, choice),
                    !.used = [j \in PullItem |-> IF j = item THEN @[j] + 1 ELSE @[j]]]
  BY DEF AddChoice, ItemChosen, ChoiceId
<1> HIDE DEF r, item
<1>4. choice \in PullChoices
  BY <1>1, <1>2 DEF PullChoices
<1> HIDE DEF choice
<1>5. /\ l.entries \in Seq(PullEntries) /\ l.choices \in Seq(PullChoices) /\ l.used \in [PullItem -> Nat]
      /\ l.needed \in Nat /\ l.skipped \in Nat /\ l.remaining \in Nat
  BY DEF PullLists
<1>6. /\ r.entries = l.entries /\ r.needed = l.needed /\ r.skipped = l.skipped
      /\ r.remaining = l.remaining /\ r.choices = Append(l.choices, choice)
      /\ r.used = [j \in PullItem |-> IF j = item THEN l.used[j] + 1 ELSE l.used[j]]
  BY <1>3 DEF PullLists
<1>7. r \in PullLists
  <2>1. Append(l.choices, choice) \in Seq(PullChoices)
    BY <1>4, <1>5, AppendProperties
  <2>2. [j \in PullItem |-> IF j = item THEN l.used[j] + 1 ELSE l.used[j]] \in [PullItem -> Nat]
    BY <1>5
  <2> QED BY <1>3, <1>5, <2>1, <2>2 DEF PullLists
<1>8. ASSUME NEW P
      PROVE  AmountOf(r, P) = AmountOf(l, P) + (IF CopyOf(choice) \in P THEN 1 ELSE 0)
  <2>1. CopiesOf(r.choices) = Append(CopiesOf(l.choices), CopyOf(choice))
    BY <1>4, <1>5, <1>6, CopiesOfMore
  <2>2. CopiesOf(l.choices) \in Seq(PullOffers) /\ CopyOf(choice) \in PullOffers
    BY <1>4, <1>5, CopiesType, CopyOffered
  <2>3. CopyOf(choice).quantity = 1
    BY DEF CopyOf
  <2>4. Amount(CopiesOf(r.choices), P) = Amount(CopiesOf(l.choices), P)
                                         + (IF CopyOf(choice) \in P THEN 1 ELSE 0)
    BY <2>1, <2>2, <2>3, OffersCounted, AmountOfMore
  <2>5. Amount(l.entries, P) \in Nat /\ Amount(CopiesOf(l.choices), P) \in Nat
    BY AmountOfType
  <2> QED BY <1>6, <2>4, <2>5 DEF AmountOf
<1> QED BY <1>4, <1>6, <1>7, <1>8 DEF Chose, r, item, choice

LEMMA ChoiceGrows ==
  ASSUME NEW free, NEW selections, NEW c \in PullCard, NEW others, NEW l \in PullLists, NEW index,
         Chose(free, selections, c, others, l, index)
  PROVE  Grows(c, l, AddChoice(free, selections, c, others, l, index), 1)
<1> DEFINE r      == AddChoice(free, selections, c, others, l, index)
           item   == ItemChosen(free, selections, c, others, l, index)
           choice == [id |-> ChoiceId(c, others, index), card |-> c, others |-> others, item |-> item]
<1>1. /\ choice \in PullChoices /\ r.needed = l.needed /\ r.skipped = l.skipped
      /\ \A P : AmountOf(r, P) = AmountOf(l, P) + (IF CopyOf(choice) \in P THEN 1 ELSE 0)
  BY DEF Chose
<1>2. choice.card = c
  OBVIOUS
<1> HIDE DEF r, choice
<1>3. CopyOf(choice) \in PullOffers /\ CopyOf(choice).card = c
  BY <1>1, <1>2, CopyOffered DEF CopyOf
<1>4. /\ CopyOf(choice) \in CardOffers(c)
      /\ \A d \in PullCard \ {c} : CopyOf(choice) \notin CardOffers(d)
  BY <1>3 DEF CardOffers
<1>5. \A P : AmountOf(l, P) \in Nat
  BY AmountOfType
<1>6. Grows(c, l, r, 1)
  BY <1>1, <1>3, <1>4, <1>5 DEF Grows
<1> QED BY <1>6 DEF r

Choosable(c, others, s) == \A k \in 1 .. Len(s) : others # <<>> /\ s[k] < MaxNeed[c]

Choosing(free, selections, c, others, l, s, run) ==
  /\ run[0] = l
  /\ \A k \in 1 .. Len(s) : run[k] = AddChoice(free, selections, c, others, run[k - 1], s[k])
  /\ AddChoices(free, selections, c, others, l, s) = run[Len(s)]

(* The choices of a card one after the other.                               *)
LEMMA ChoiceRuns ==
  ASSUME NEW free, NEW selections, Selecting(selections), NEW c \in PullCard,
         NEW others \in Seq(PullItem), NEW l \in PullLists, NEW s \in Seq(Nat),
         Choosable(c, others, s)
  PROVE  \E run : Choosing(free, selections, c, others, l, s, run)
<1> DEFINE n == Len(s)
           Body(it) == [d \in SUBSET (1 .. n) |->
                          IF d = {} THEN l ELSE AddChoice(free, selections, c, others, it[d \ {Max(d)}], s[Max(d)])]
           iter == CHOOSE it : it = Body(it)
           G == [p \in PullLists \X (1 .. n) |-> AddChoice(free, selections, c, others, p[1], s[p[2]])]
<1>1. AddChoices(free, selections, c, others, l, s) = iter[1 .. n]
  <2>1. DOMAIN s = 1 .. n
    OBVIOUS
  <2> QED BY <2>1 DEF AddChoices, FoldLeft, MapThenFoldSet
<1>2. n \in Nat /\ l \in PullLists /\ G \in [PullLists \X (1 .. n) -> PullLists]
  <2>1. \A p \in PullLists \X (1 .. n) : AddChoice(free, selections, c, others, p[1], s[p[2]]) \in PullLists
    <3> SUFFICES ASSUME NEW a \in PullLists, NEW k \in 1 .. n
                 PROVE  AddChoice(free, selections, c, others, a, s[k]) \in PullLists
      OBVIOUS
    <3>1. Chose(free, selections, c, others, a, s[k])
      BY AddChoiceDoes DEF Choosable
    <3> QED BY <3>1 DEF Chose
  <2> QED BY <2>1
<1> HIDE DEF n, G
<1>3. PICK it \in [SUBSET (1 .. n) -> PullLists] : Folding(n, l, G, it)
  BY <1>2, FoldExists
<1>4. it = Body(it)
  <2>1. ASSUME NEW d \in SUBSET (1 .. n), d # {}
        PROVE  G[<<it[d \ {Max(d)}], Max(d)>>] = AddChoice(free, selections, c, others, it[d \ {Max(d)}], s[Max(d)])
    <3>1. Max(d) \in 1 .. n /\ d \ {Max(d)} \in SUBSET (1 .. n)
      BY <1>2, <2>1, MaxIs
    <3> QED BY <3>1 DEF G
  <2>2. \A d \in SUBSET (1 .. n) : it[d] = Body(it)[d]
    BY <1>3, <2>1 DEF Folding
  <2> QED BY <1>3, <2>2
<1>5. iter = Body(iter)
  <2> HIDE DEF Body
  <2> QED BY <1>4
<1> HIDE DEF iter
<1> DEFINE run == [k \in 0 .. n |-> iter[1 .. k]]
<1>6. run[0] = l
  <2>1. 1 .. 0 = {} /\ {} \in SUBSET (1 .. n) /\ 0 \in 0 .. n
    BY <1>2
  <2> QED BY <1>5, <2>1
<1>7. ASSUME NEW k \in 1 .. n
      PROVE  run[k] = AddChoice(free, selections, c, others, run[k - 1], s[k])
  <2>1. k \in 0 .. n /\ k - 1 \in 0 .. n
    BY <1>2
  <2>2. /\ Max(1 .. k) = k /\ (1 .. k) \ {k} = 1 .. (k - 1)
        /\ 1 .. k # {} /\ 1 .. k \in SUBSET (1 .. n)
    BY <1>2, MaxOfFirst
  <2>3. iter[1 .. k] = AddChoice(free, selections, c, others, iter[1 .. (k - 1)], s[k])
    BY <1>5, <2>2
  <2> QED BY <2>1, <2>3
<1>8. AddChoices(free, selections, c, others, l, s) = run[n]
  <2>1. n \in 0 .. n
    BY <1>2
  <2>2. run[n] = iter[1 .. n]
    BY <2>1
  <2> HIDE DEF run
  <2> QED BY <1>1, <2>2, Zenon
<1> HIDE DEF run
<1> QED BY <1>6, <1>7, <1>8 DEF n, Choosing

LEMMA ChoicesGrow ==
  ASSUME NEW free, NEW selections, Selecting(selections), NEW c \in PullCard,
         NEW others \in Seq(PullItem), NEW l \in PullLists, NEW s \in Seq(Nat),
         Choosable(c, others, s)
  PROVE  LET x == AddChoices(free, selections, c, others, l, s)
         IN  x \in PullLists /\ x.remaining = l.remaining /\ Grows(c, l, x, Len(s))
<1>1. PICK run : Choosing(free, selections, c, others, l, s, run)
  BY ChoiceRuns
<1> DEFINE Good(k) == {x \in PullLists : x.remaining = l.remaining /\ Grows(c, l, x, k)}
           T == [k \in 0 .. Len(s) |-> Good(k)]
<1>2. ASSUME NEW k \in 1 .. Len(s), run[k - 1] \in T[k - 1] PROVE run[k] \in T[k]
  <2>1. k \in 0 .. Len(s) /\ k - 1 \in 0 .. Len(s) /\ k - 1 \in Int /\ (k - 1) + 1 = k
    OBVIOUS
  <2> DEFINE x == run[k - 1]
             y == run[k]
  <2>2. x \in Good(k - 1)
    BY <1>2, <2>1
  <2>3. x \in PullLists /\ x.remaining = l.remaining /\ Grows(c, l, x, k - 1)
    BY <2>2
  <2>4. y = AddChoice(free, selections, c, others, x, s[k])
    BY <1>1 DEF Choosing
  <2> HIDE DEF x, y
  <2>5. Chose(free, selections, c, others, x, s[k])
    BY <2>3, AddChoiceDoes DEF Choosable
  <2>6. y \in PullLists /\ y.remaining = x.remaining /\ Grows(c, x, y, 1)
    BY <2>3, <2>4, <2>5, ChoiceGrows DEF Chose
  <2>7. Grows(c, l, y, (k - 1) + 1)
    <3> DEFINE m == k - 1
    <3>1. m \in Int /\ Grows(c, l, x, m) /\ 1 \in Int
      BY <2>1, <2>3
    <3> HIDE DEF m
    <3>2. Grows(c, l, y, m + 1)
      BY <2>3, <2>6, <3>1, GrowsOn
    <3> QED BY <3>2 DEF m
  <2>8. y \in Good(k)
    BY <2>1, <2>3, <2>6, <2>7
  <2> QED BY <2>1, <2>8 DEF y
<1>3. Len(s) \in Nat /\ 0 \in 0 .. Len(s) /\ Len(s) \in 0 .. Len(s)
  OBVIOUS
<1>4. l \in Good(0)
  BY GrowsNone
<1>5. run[Len(s)] \in Good(Len(s))
  <2> HIDE DEF Good
  <2>1. run[0] \in T[0] /\ T[Len(s)] = Good(Len(s))
    BY <1>1, <1>3, <1>4 DEF Choosing
  <2> HIDE DEF T
  <2>2. Climbs(Len(s), T, run)
    BY <1>2, <2>1 DEF Climbs
  <2> QED BY <1>3, <2>1, <2>2, Stages
<1> QED BY <1>1, <1>5 DEF Choosing

NoneMissing(l) == \A k \in 1 .. Len(l.choices) : l.choices[k].item # NoItem

LEMMA NumbersType ==
  ASSUME NEW f \in [PullItem -> Nat], NEW s \in Seq(PullItem)
  PROVE  /\ [k \in DOMAIN s |-> f[s[k]]] \in Seq(Nat)
         /\ Len([k \in DOMAIN s |-> f[s[k]]]) = Len(s)
         /\ SumOf(f, s) \in Nat
<1> DEFINE q == [k \in DOMAIN s |-> f[s[k]]]
<1>1. DOMAIN s = 1 .. Len(s) /\ Len(s) \in Nat
  OBVIOUS
<1>2. q \in [1 .. Len(s) -> Nat]
  BY <1>1
<1>3. q \in Seq(Nat) /\ Len(q) = Len(s)
  <2> HIDE DEF q
  <2> QED BY <1>1, <1>2
<1>4. SumOf(f, s) = Total(q)
  BY DEF SumOf
<1> HIDE DEF q
<1>5. SumOf(f, s) \in Nat
  BY <1>3, <1>4, TotalType
<1> QED BY <1>3, <1>5 DEF q

(* While a copy is left among the others, an untouched choice takes one     *)
(* that is in stock.                                                        *)
LEMMA ChoiceInStock ==
  ASSUME NEW free \in [PullItem -> Nat], NEW selections, DOMAIN selections = {}, NEW c \in PullCard,
         NEW others \in Seq(PullItem), IsInjective(others), NEW l \in PullLists, NEW index,
         Chose(free, selections, c, others, l, index), InStock(free, l), NoneMissing(l),
         SumOf(Remaining(free, l.used), others) > 0
  PROVE  LET r == AddChoice(free, selections, c, others, l, index)
         IN  /\ InStock(free, r) /\ NoneMissing(r)
             /\ SumOf(Remaining(free, r.used), others) + 1 >= SumOf(Remaining(free, l.used), others)
<1> DEFINE r      == AddChoice(free, selections, c, others, l, index)
           item   == ItemChosen(free, selections, c, others, l, index)
           choice == [id |-> ChoiceId(c, others, index), card |-> c, others |-> others, item |-> item]
<1>1. /\ r \in PullLists /\ choice \in PullChoices /\ r.choices = Append(l.choices, choice)
      /\ r.used = [j \in PullItem |-> IF j = item THEN l.used[j] + 1 ELSE l.used[j]]
      /\ \A P : AmountOf(r, P) = AmountOf(l, P) + (IF CopyOf(choice) \in P THEN 1 ELSE 0)
  BY DEF Chose
<1>2. l.used \in [PullItem -> Nat] /\ r.used \in [PullItem -> Nat] /\ l.choices \in Seq(PullChoices)
  BY <1>1 DEF PullLists
<1>3. choice.item = item /\ CopyOf(choice).item = item
  BY DEF CopyOf
<1>4. CopyOf(choice) \in PullOffers
  BY <1>1, CopyOffered
<1> HIDE DEF r
<1>5. Remaining(free, l.used) \in [PullItem -> Nat] /\ Remaining(free, r.used) \in [PullItem -> Nat]
  BY <1>2 DEF Remaining
<1> DEFINE q == [k \in DOMAIN others |-> Remaining(free, l.used)[others[k]]]
           p == [k \in DOMAIN others |-> Remaining(free, r.used)[others[k]]]
<1>6. /\ q \in Seq(Nat) /\ Len(q) = Len(others) /\ p \in Seq(Nat) /\ Len(p) = Len(others)
      /\ Total(q) = SumOf(Remaining(free, l.used), others)
      /\ Total(p) = SumOf(Remaining(free, r.used), others)
  BY <1>5, NumbersType DEF SumOf
<1>7. DOMAIN others = 1 .. Len(others) /\ Len(others) \in Nat
  OBVIOUS
<1>8. \A k \in 1 .. Len(others) : /\ q[k] = Remaining(free, l.used)[others[k]]
                                  /\ p[k] = Remaining(free, r.used)[others[k]]
                                  /\ others[k] \in PullItem
  BY <1>7
<1> HIDE DEF q, p
<1>9. item \in LeftOf(free, l.used)
  <2>1. \E k \in 1 .. Len(q) : q[k] > 0
    BY <1>6, TotalPositive
  <2>2. PICK k \in 1 .. Len(others) : Remaining(free, l.used)[others[k]] > 0
    BY <1>6, <1>8, <2>1
  <2> QED BY <2>2, SelectedLeft DEF ItemChosen
<1> HIDE DEF item, choice
<1>10. item \in PullItem /\ l.used[item] + 1 <= free[item] /\ Remaining(free, l.used)[item] > 0
  <2>1. item \in PullItem /\ Remaining(free, l.used)[item] > 0
    BY <1>9 DEF LeftOf
  <2>2. Remaining(free, l.used)[item] = IF l.used[item] < free[item] THEN free[item] - l.used[item] ELSE 0
    BY <1>2, <2>1, RemainingType
  <2>3. l.used[item] \in Nat /\ free[item] \in Nat
    BY <1>2, <2>1
  <2>4. l.used[item] < free[item]
    BY <2>1, <2>2
  <2> QED BY <2>1, <2>3, <2>4
<1>11. InStock(free, r)
  <2> SUFFICES ASSUME NEW j \in PullItem
               PROVE  r.used[j] = AmountOf(r, ItemOffers(j)) /\ r.used[j] <= free[j]
    BY DEF InStock
  <2>1. l.used[j] = AmountOf(l, ItemOffers(j)) /\ l.used[j] <= free[j] /\ l.used[j] \in Nat
    BY <1>2 DEF InStock
  <2>2. CopyOf(choice) \in ItemOffers(j) <=> j = item
    BY <1>3, <1>4 DEF ItemOffers
  <2>3. AmountOf(r, ItemOffers(j)) = AmountOf(l, ItemOffers(j)) + (IF j = item THEN 1 ELSE 0)
    BY <1>1, <2>2
  <2>4. r.used[j] = IF j = item THEN l.used[j] + 1 ELSE l.used[j]
    BY <1>1
  <2> QED BY <1>10, <2>1, <2>3, <2>4
<1>12. NoneMissing(r)
  <2> SUFFICES ASSUME NEW k \in 1 .. Len(r.choices) PROVE r.choices[k].item # NoItem
    BY DEF NoneMissing
  <2>1. /\ Len(r.choices) = Len(l.choices) + 1 /\ Len(l.choices) \in Nat
        /\ \A m \in 1 .. Len(l.choices) : r.choices[m] = l.choices[m]
        /\ r.choices[Len(l.choices) + 1] = choice
    BY <1>1, <1>2, AppendProperties
  <2>2. CASE k \in 1 .. Len(l.choices)
    BY <2>1, <2>2 DEF NoneMissing
  <2>3. CASE k = Len(l.choices) + 1
    <3>1. NoItem \notin PullItem
      BY PullAssumption DEF PullAssumption
    <3> QED BY <1>3, <1>10, <2>1, <2>3, <3>1
  <2> QED BY <2>1, <2>2, <2>3
<1>13. \E j \in Nat : \A k \in 1 .. Len(others) : k # j => others[k] # item
  <2>1. CASE \E j \in 1 .. Len(others) : others[j] = item
    <3>1. PICK j \in 1 .. Len(others) : others[j] = item
      BY <2>1
    <3>2. \A k \in 1 .. Len(others) : k # j => others[k] # item
      BY <1>7, <3>1 DEF IsInjective
    <3>3. j \in Nat
      BY <3>1
    <3> QED BY <3>2, <3>3
  <2>2. CASE ~(\E j \in 1 .. Len(others) : others[j] = item)
    BY <2>2
  <2> QED BY <2>1, <2>2
<1>14. PICK j \in Nat : \A k \in 1 .. Len(others) : k # j => others[k] # item
  BY <1>13
<1>15. \A k \in 1 .. Len(others) : p[k] \in Nat /\ q[k] \in Nat
  BY <1>6
<1>16. ASSUME NEW k \in 1 .. Len(q)
       PROVE  (k # j => p[k] = q[k]) /\ p[k] + 1 >= q[k]
  <2> DEFINE i == others[k]
  <2>1. /\ i \in PullItem /\ k \in 1 .. Len(others) /\ (k # j => i # item)
        /\ q[k] = Remaining(free, l.used)[i] /\ p[k] = Remaining(free, r.used)[i]
    BY <1>6, <1>8, <1>14
  <2> HIDE DEF i
  <2>2. r.used[i] = (IF i = item THEN l.used[i] + 1 ELSE l.used[i]) /\ l.used[i] \in Nat /\ free[i] \in Nat
    BY <1>1, <1>2, <2>1
  <2>3. /\ q[k] = IF l.used[i] < free[i] THEN free[i] - l.used[i] ELSE 0
        /\ p[k] = IF r.used[i] < free[i] THEN free[i] - r.used[i] ELSE 0
    BY <1>2, <2>1, RemainingType
  <2> QED BY <2>1, <2>2, <2>3
<1>17. Total(p) + 1 >= Total(q)
  <2>1. /\ \A k \in 1 .. Len(q) : k # j => p[k] = q[k]
        /\ \A k \in 1 .. Len(q) : k = j => p[k] + 1 >= q[k]
    BY <1>16
  <2> QED BY <1>6, <2>1, TotalLessOne
<1> QED BY <1>6, <1>11, <1>12, <1>17 DEF r

LEMMA ChoicesInStock ==
  ASSUME NEW free \in [PullItem -> Nat], NEW selections, DOMAIN selections = {}, NEW c \in PullCard,
         NEW others \in Seq(PullItem), IsInjective(others), NEW l \in PullLists, NEW s \in Seq(Nat),
         Choosable(c, others, s), InStock(free, l), NoneMissing(l),
         Len(s) <= SumOf(Remaining(free, l.used), others)
  PROVE  LET x == AddChoices(free, selections, c, others, l, s)
         IN  InStock(free, x) /\ NoneMissing(x)
<1>0. Selecting(selections)
  BY DEF Selecting
<1>1. PICK run : Choosing(free, selections, c, others, l, s, run)
  BY <1>0, ChoiceRuns
<1> DEFINE left(x) == SumOf(Remaining(free, x.used), others)
           Good(k) == {x \in PullLists : InStock(free, x) /\ NoneMissing(x) /\ left(x) + k >= left(l)}
           T == [k \in 0 .. Len(s) |-> Good(k)]
<1>2. \A x \in PullLists : left(x) \in Nat
  <2> SUFFICES ASSUME NEW x \in PullLists PROVE left(x) \in Nat
    OBVIOUS
  <2>1. x.used \in [PullItem -> Nat]
    BY DEF PullLists
  <2>2. Remaining(free, x.used) \in [PullItem -> Nat]
    BY <2>1 DEF Remaining
  <2> QED BY <2>2, NumbersType
<1>3. ASSUME NEW k \in 1 .. Len(s), run[k - 1] \in T[k - 1] PROVE run[k] \in T[k]
  <2>1. k \in 0 .. Len(s) /\ k - 1 \in 0 .. Len(s) /\ s[k] \in Nat /\ k \in Nat /\ k <= Len(s) /\ Len(s) \in Nat
    OBVIOUS
  <2> DEFINE x == run[k - 1]
             y == run[k]
  <2>2. x \in Good(k - 1)
    BY <1>3, <2>1
  <2>3. x \in PullLists /\ InStock(free, x) /\ NoneMissing(x) /\ left(x) + (k - 1) >= left(l)
    BY <2>2
  <2>4. y = AddChoice(free, selections, c, others, x, s[k])
    BY <1>1 DEF Choosing
  <2> HIDE DEF x, y
  <2>5. Chose(free, selections, c, others, x, s[k])
    BY <1>0, <2>1, <2>3, AddChoiceDoes DEF Choosable
  <2>6. y \in PullLists
    BY <2>4, <2>5 DEF Chose
  <2>7. left(x) > 0
    <3>1. left(x) \in Nat /\ left(l) \in Nat /\ Len(s) <= left(l)
      BY <1>2, <2>3
    <3> HIDE DEF left
    <3> QED BY <2>1, <2>3, <3>1
  <2>8. InStock(free, y) /\ NoneMissing(y) /\ left(y) + 1 >= left(x)
    BY <2>3, <2>4, <2>5, <2>7, ChoiceInStock
  <2>9. left(y) + k >= left(l)
    <3>1. left(x) \in Nat /\ left(l) \in Nat /\ left(y) \in Nat
      BY <1>2, <2>3, <2>6
    <3> HIDE DEF left
    <3> QED BY <2>1, <2>3, <2>8, <3>1
  <2>10. y \in Good(k)
    <3> HIDE DEF left
    <3> QED BY <2>6, <2>8, <2>9
  <2> QED BY <2>1, <2>10 DEF y
<1>4. Len(s) \in Nat /\ 0 \in 0 .. Len(s) /\ Len(s) \in 0 .. Len(s)
  OBVIOUS
<1>5. l \in Good(0)
  <2>1. left(l) \in Nat
    BY <1>2
  <2> HIDE DEF left
  <2> QED BY <2>1
<1>6. run[Len(s)] \in Good(Len(s))
  <2> HIDE DEF Good
  <2>1. run[0] \in T[0] /\ T[Len(s)] = Good(Len(s))
    BY <1>1, <1>4, <1>5 DEF Choosing
  <2> HIDE DEF T
  <2>2. Climbs(Len(s), T, run)
    BY <1>3, <2>1 DEF Climbs
  <2> QED BY <1>4, <2>1, <2>2, Stages
<1> HIDE DEF left
<1> QED BY <1>1, <1>6 DEF Choosing

-----------------------------------------------------------------------------
(* A card.                                                                  *)
Started(deck, list, c) ==
  [list EXCEPT !.needed = @ + deck.need[c], !.remaining = deck.need[c]]

ExactGiven(deck, list, c) ==
  TakeAllExact(deck.free, c, Started(deck, list, c), Among(Candidates[c], Exact[c]))

LeftOver(deck, list, c) == Remaining(deck.free, ExactGiven(deck, list, c).used)

OthersLeft(deck, list, c) ==
  Among(Candidates[c], {i \in PullItem \ Exact[c] : LeftOver(deck, list, c)[i] > 0})

ChoiceCount(deck, mode, list, c) ==
  IF mode = "exact" THEN 0
  ELSE Least(ExactGiven(deck, list, c).remaining, SumOf(LeftOver(deck, list, c), OthersLeft(deck, list, c)))

Indexes(count) == [k \in 1 .. count |-> k - 1]

ChoicesAdded(deck, selections, mode, list, c) ==
  AddChoices(deck.free, selections, c, OthersLeft(deck, list, c), ExactGiven(deck, list, c),
             Indexes(ChoiceCount(deck, mode, list, c)))

LEMMA AddCardIs ==
  ASSUME NEW deck, NEW selections, NEW mode, NEW list, NEW c
  PROVE  AddCard(deck, selections, mode, list, c)
         = [ChoicesAdded(deck, selections, mode, list, c) EXCEPT
              !.skipped = @ + ExactGiven(deck, list, c).remaining - ChoiceCount(deck, mode, list, c),
              !.remaining = 0]
BY DEF AddCard, ChoicesAdded, ExactGiven, ChoiceCount, OthersLeft, LeftOver, Started, Indexes

(* What may be written down of a card: m of the copies it lacks, the rest   *)
(* as skipped.                                                              *)
Written(c, l, x, need, m) ==
  /\ m \in 0 .. need
  /\ x.needed = l.needed + need /\ x.skipped = l.skipped + (need - m)
  /\ AmountOf(x, CardOffers(c)) = AmountOf(l, CardOffers(c)) + m
  /\ AmountOf(x, PullOffers) = AmountOf(l, PullOffers) + m
  /\ \A d \in PullCard \ {c} : AmountOf(x, CardOffers(d)) = AmountOf(l, CardOffers(d))

Untouched(free, l) == InStock(free, l) /\ NoneMissing(l)

LEMMA DeckNeeds ==
  ASSUME NEW deck \in Decks, NEW c \in PullCard
  PROVE  /\ deck.need[c] \in Nat /\ deck.need[c] <= MaxNeed[c] /\ MaxNeed[c] \in Nat
         /\ deck.free \in [PullItem -> Nat]
<1>1. MaxNeed \in [PullCard -> Nat \ {0}] /\ MaxFree \in Nat
  BY PullAssumption DEF PullAssumption, PullCard
<1>2. deck.need \in Needs /\ deck.free \in [PullItem -> 0 .. MaxFree]
  BY DEF Decks
<1>3. /\ deck.need \in [PullCard -> UNION {0 .. MaxNeed[d] : d \in PullCard}]
      /\ deck.need[c] <= MaxNeed[c]
  BY <1>2 DEF Needs
<1>4. deck.need[c] \in UNION {0 .. MaxNeed[d] : d \in PullCard}
  BY <1>3
<1>5. PICK d \in PullCard : deck.need[c] \in 0 .. MaxNeed[d]
  BY <1>4
<1> QED BY <1>1, <1>2, <1>3, <1>5

LEMMA CandidatesType ==
  ASSUME NEW c \in PullCard, NEW S
  PROVE  Among(Candidates[c], S) \in Seq(PullItem) /\ IsInjective(Among(Candidates[c], S))
<1>1. Candidates[c] \in Seq(PullItem) /\ IsInjective(Candidates[c])
  BY PullAssumption DEF PullAssumption, PullCard
<1>2. Among(Candidates[c], S) \in Seq(PullItem \cap S)
  BY <1>1, AmongType
<1> QED BY <1>1, <1>2, AmongInjective

LEMMA ExactDoes ==
  ASSUME NEW deck \in Decks, NEW c \in PullCard, NEW list \in PullLists
  PROVE  LET x == ExactGiven(deck, list, c)
         IN  /\ x \in PullLists /\ x.remaining <= deck.need[c] /\ x.choices = list.choices
             /\ x.needed = list.needed + deck.need[c] /\ x.skipped = list.skipped
             /\ Grows(c, Started(deck, list, c), x, deck.need[c] - x.remaining)
             /\ \A P : AmountOf(Started(deck, list, c), P) = AmountOf(list, P)
             /\ InStock(deck.free, list) => InStock(deck.free, x)
<1> DEFINE l == Started(deck, list, c)
<1>1. /\ list.entries \in Seq(PullEntries) /\ list.choices \in Seq(PullChoices)
      /\ list.used \in [PullItem -> Nat] /\ list.needed \in Nat /\ list.skipped \in Nat
  BY DEF PullLists
<1>2. /\ l.entries = list.entries /\ l.choices = list.choices /\ l.used = list.used
      /\ l.needed = list.needed + deck.need[c] /\ l.skipped = list.skipped /\ l.remaining = deck.need[c]
  BY DEF PullLists, Started
<1>3. l \in Room(c)
  <2>1. list.needed + deck.need[c] \in Nat /\ deck.need[c] \in Nat /\ deck.need[c] <= MaxNeed[c]
    BY <1>1, DeckNeeds
  <2>2. l \in PullLists
    BY <1>1, <2>1 DEF PullLists, Started
  <2> HIDE DEF l
  <2> QED BY <1>2, <2>1, <2>2 DEF Room
<1>4. \A P : AmountOf(l, P) = AmountOf(list, P)
  BY <1>2 DEF AmountOf
<1>5. InStock(deck.free, list) => InStock(deck.free, l)
  BY <1>2, <1>4 DEF InStock
<1>6. Among(Candidates[c], Exact[c]) \in Seq(PullItem)
  BY CandidatesType
<1> HIDE DEF l
<1> DEFINE x == TakeAllExact(deck.free, c, l, Among(Candidates[c], Exact[c]))
<1>7. /\ x \in PullLists /\ x.remaining <= l.remaining /\ x.choices = l.choices
      /\ Grows(c, l, x, l.remaining - x.remaining)
      /\ InStock(deck.free, l) => InStock(deck.free, x)
  BY <1>3, <1>6, DeckNeeds, ExactGrows
<1>8. ExactGiven(deck, list, c) = x
  BY DEF ExactGiven, l
<1> HIDE DEF x
<1>9. x.needed = l.needed /\ x.skipped = l.skipped
  BY <1>7 DEF Grows
<1> QED BY <1>2, <1>4, <1>5, <1>7, <1>8, <1>9 DEF l

LEMMA CountIs ==
  ASSUME NEW deck \in Decks, NEW c \in PullCard, NEW list \in PullLists, NEW mode
  PROVE  LET x      == ExactGiven(deck, list, c)
             others == OthersLeft(deck, list, c)
             count  == ChoiceCount(deck, mode, list, c)
         IN  /\ others \in Seq(PullItem) /\ IsInjective(others)
             /\ count \in Nat /\ count <= x.remaining /\ count <= SumOf(Remaining(deck.free, x.used), others)
             /\ Indexes(count) \in Seq(Nat) /\ Len(Indexes(count)) = count
             /\ Choosable(c, others, Indexes(count))
<1> DEFINE x      == ExactGiven(deck, list, c)
           others == OthersLeft(deck, list, c)
           count  == ChoiceCount(deck, mode, list, c)
           left   == Remaining(deck.free, x.used)
<1>1. x \in PullLists /\ x.remaining <= deck.need[c]
  BY ExactDoes
<1>2. others \in Seq(PullItem) /\ IsInjective(others)
  BY CandidatesType DEF OthersLeft
<1>3. x.used \in [PullItem -> Nat] /\ x.remaining \in Nat
  BY <1>1 DEF PullLists
<1>4. count = IF mode = "exact" THEN 0 ELSE Least(x.remaining, SumOf(left, others))
  BY DEF ChoiceCount, LeftOver
<1> HIDE DEF x, others, count
<1>5. left \in [PullItem -> Nat]
  BY <1>3, DeckNeeds DEF Remaining
<1> HIDE DEF left
<1>6. SumOf(left, others) \in Nat
  BY <1>2, <1>5, NumbersType
<1>7. count \in Nat /\ count <= x.remaining /\ count <= SumOf(left, others)
  BY <1>3, <1>4, <1>6 DEF Least
<1>8. Indexes(count) \in Seq(Nat) /\ Len(Indexes(count)) = count
  <2>1. Indexes(count) \in [1 .. count -> Nat]
    BY <1>7 DEF Indexes
  <2> QED BY <1>7, <2>1 DEF Indexes
<1>9. ASSUME count > 0 PROVE others # <<>>
  <2> SUFFICES ASSUME others = <<>> PROVE FALSE
    OBVIOUS
  <2>1. [k \in DOMAIN others |-> left[others[k]]] = <<>>
    OBVIOUS
  <2>2. SumOf(left, others) = 0
    BY <2>1, TotalOfNone DEF SumOf
  <2> QED BY <1>7, <1>9, <2>2
<1>10. Choosable(c, others, Indexes(count))
  <2> SUFFICES ASSUME NEW k \in 1 .. count PROVE others # <<>> /\ Indexes(count)[k] < MaxNeed[c]
    BY <1>8 DEF Choosable
  <2>1. Indexes(count)[k] = k - 1
    BY DEF Indexes
  <2>2. count > 0 /\ k - 1 < count /\ k \in Nat
    BY <1>7
  <2>3. deck.need[c] \in Nat /\ MaxNeed[c] \in Nat /\ deck.need[c] <= MaxNeed[c]
    BY DeckNeeds
  <2> QED BY <1>1, <1>3, <1>7, <1>9, <2>1, <2>2, <2>3
<1> QED BY <1>2, <1>7, <1>8, <1>10 DEF x, others, count, left

LEMMA AddCardDoes ==
  ASSUME NEW deck \in Decks, NEW selections, Selecting(selections), NEW mode, NEW c \in PullCard,
         NEW list \in PullLists
  PROVE  LET r == AddCard(deck, selections, mode, list, c)
         IN  /\ r \in PullLists
             /\ \E m \in Nat : Written(c, list, r, deck.need[c], m)
             /\ DOMAIN selections = {} /\ Untouched(deck.free, list) => Untouched(deck.free, r)
<1> DEFINE l      == Started(deck, list, c)
           x      == ExactGiven(deck, list, c)
           others == OthersLeft(deck, list, c)
           count  == ChoiceCount(deck, mode, list, c)
           full   == ChoicesAdded(deck, selections, mode, list, c)
           need   == deck.need[c]
           r      == AddCard(deck, selections, mode, list, c)
           m      == (need - x.remaining) + count
<1>1. /\ x \in PullLists /\ x.remaining <= need /\ x.choices = list.choices
      /\ x.needed = list.needed + need /\ x.skipped = list.skipped
      /\ Grows(c, l, x, need - x.remaining)
      /\ \A P : AmountOf(l, P) = AmountOf(list, P)
      /\ InStock(deck.free, list) => InStock(deck.free, x)
  BY ExactDoes
<1>2. /\ others \in Seq(PullItem) /\ IsInjective(others)
      /\ count \in Nat /\ count <= x.remaining /\ count <= SumOf(Remaining(deck.free, x.used), others)
      /\ Indexes(count) \in Seq(Nat) /\ Len(Indexes(count)) = count
      /\ Choosable(c, others, Indexes(count))
  BY CountIs
<1>3. full = AddChoices(deck.free, selections, c, others, x, Indexes(count))
  BY DEF ChoicesAdded
<1>4. r = [full EXCEPT !.skipped = @ + x.remaining - count, !.remaining = 0]
  BY AddCardIs
<1> HIDE DEF l, x, others, count, full, r
<1>5. full \in PullLists /\ full.remaining = x.remaining /\ Grows(c, x, full, count)
  BY <1>1, <1>2, <1>3, ChoicesGrow
<1>6. need \in Nat /\ deck.free \in [PullItem -> Nat]
  BY DeckNeeds
<1> HIDE DEF need
<1>7. /\ x.remaining \in Nat /\ full.skipped \in Nat /\ full.needed \in Nat
      /\ list.needed \in Nat /\ list.skipped \in Nat
  BY <1>1, <1>5 DEF PullLists
<1>8. full.needed = list.needed + need /\ full.skipped = list.skipped
  BY <1>1, <1>5 DEF Grows
<1>9. /\ r.entries = full.entries /\ r.choices = full.choices /\ r.used = full.used
      /\ r.needed = full.needed /\ r.skipped = full.skipped + x.remaining - count
  BY <1>4, <1>5 DEF PullLists
<1>10. r \in PullLists
  <2>1. full.skipped + x.remaining - count \in Nat
    BY <1>2, <1>7
  <2>2. /\ full.entries \in Seq(PullEntries) /\ full.choices \in Seq(PullChoices)
        /\ full.used \in [PullItem -> Nat]
    BY <1>5 DEF PullLists
  <2> QED BY <1>4, <1>5, <1>7, <2>1, <2>2 DEF PullLists
<1>11. \A P : AmountOf(r, P) = AmountOf(full, P)
  BY <1>9 DEF AmountOf
<1>12. \A P : AmountOf(list, P) \in Nat
  BY AmountOfType
<1>13. Written(c, list, r, need, m) /\ m \in Nat
  <2>1. m \in 0 .. need /\ m \in Nat /\ full.skipped + x.remaining - count = list.skipped + (need - m)
    BY <1>1, <1>2, <1>6, <1>7, <1>8
  <2>2. ASSUME NEW P, NEW a \in Int, NEW b \in Int,
               AmountOf(x, P) = AmountOf(l, P) + a, AmountOf(full, P) = AmountOf(x, P) + b
        PROVE  AmountOf(r, P) = AmountOf(list, P) + (a + b)
    <3>1. AmountOf(list, P) \in Nat /\ AmountOf(l, P) = AmountOf(list, P) /\ AmountOf(r, P) = AmountOf(full, P)
      BY <1>1, <1>11, <1>12
    <3> QED BY <2>2, <3>1
  <2>3. need - x.remaining \in Int /\ count \in Int
    BY <1>2, <1>6, <1>7
  <2>4. /\ AmountOf(r, CardOffers(c)) = AmountOf(list, CardOffers(c)) + m
        /\ AmountOf(r, PullOffers) = AmountOf(list, PullOffers) + m
    <3>1. /\ AmountOf(x, CardOffers(c)) = AmountOf(l, CardOffers(c)) + (need - x.remaining)
          /\ AmountOf(x, PullOffers) = AmountOf(l, PullOffers) + (need - x.remaining)
          /\ AmountOf(full, CardOffers(c)) = AmountOf(x, CardOffers(c)) + count
          /\ AmountOf(full, PullOffers) = AmountOf(x, PullOffers) + count
      BY <1>1, <1>5 DEF Grows
    <3> QED BY <2>2, <2>3, <3>1
  <2>5. ASSUME NEW d \in PullCard \ {c} PROVE AmountOf(r, CardOffers(d)) = AmountOf(list, CardOffers(d))
    BY <1>1, <1>5, <1>11 DEF Grows
  <2> HIDE DEF m
  <2> QED BY <1>8, <1>9, <2>1, <2>4, <2>5 DEF Written
<1>14. ASSUME DOMAIN selections = {}, Untouched(deck.free, list)
       PROVE  Untouched(deck.free, r)
  <2>1. InStock(deck.free, x) /\ NoneMissing(x)
    BY <1>1, <1>14 DEF Untouched, NoneMissing
  <2>2. InStock(deck.free, full) /\ NoneMissing(full)
    BY <1>1, <1>2, <1>3, <1>6, <1>14, <2>1, ChoicesInStock
  <2> QED BY <1>9, <1>11, <2>2 DEF Untouched, InStock, NoneMissing
<1> HIDE DEF m
<1> QED BY <1>10, <1>13, <1>14 DEF r, need

-----------------------------------------------------------------------------
(* The list of a deck.                                                      *)
Listing(deck, selections, mode, run) ==
  /\ run[0] = EmptyPullList
  /\ \A k \in 1 .. Len(PullCards) : run[k] = AddCard(deck, selections, mode, run[k - 1], PullCards[k])
  /\ CreatePullList(deck, selections, mode) = run[Len(PullCards)]

LEMMA CardsOfDeck ==
  /\ PullCards \in Seq(PullCard) /\ Len(PullCards) \in Nat
  /\ \A j, k \in 1 .. Len(PullCards) : j # k => PullCards[j] # PullCards[k]
<1>1. PullCards \in Seq(PullCard) /\ IsInjective(PullCards)
  BY PullAssumption DEF PullAssumption, PullCard
<1>2. DOMAIN PullCards = 1 .. Len(PullCards)
  BY <1>1
<1> QED BY <1>1, <1>2 DEF IsInjective

LEMMA EmptyListIs ==
  /\ EmptyPullList \in PullLists
  /\ EmptyPullList.needed = 0 /\ EmptyPullList.skipped = 0
  /\ \A P : AmountOf(EmptyPullList, P) = 0
  /\ \A free \in [PullItem -> Nat] : Untouched(free, EmptyPullList)
<1>1. EmptyPullList \in PullLists
  BY DEF EmptyPullList, PullLists
<1>2. /\ EmptyPullList.entries = <<>> /\ EmptyPullList.choices = <<>> /\ EmptyPullList.needed = 0
      /\ EmptyPullList.skipped = 0 /\ \A i \in PullItem : EmptyPullList.used[i] = 0
  BY DEF EmptyPullList
<1>3. CopiesOf(<<>>) = <<>>
  BY DEF CopiesOf
<1>4. \A P : AmountOf(EmptyPullList, P) = 0
  BY <1>2, <1>3, AmountOfNone DEF AmountOf
<1>5. \A free \in [PullItem -> Nat] : Untouched(free, EmptyPullList)
  BY <1>2, <1>4 DEF Untouched, InStock, NoneMissing
<1> QED BY <1>1, <1>2, <1>4, <1>5

(* The cards of the deck one after the other.                               *)
LEMMA CardRuns ==
  ASSUME NEW deck \in Decks, NEW selections, Selecting(selections), NEW mode
  PROVE  \E run : Listing(deck, selections, mode, run)
<1> DEFINE n == Len(PullCards)
           Body(it) == [d \in SUBSET (1 .. n) |->
                          IF d = {} THEN EmptyPullList ELSE AddCard(deck, selections, mode, it[d \ {Max(d)}], PullCards[Max(d)])]
           iter == CHOOSE it : it = Body(it)
           G == [p \in PullLists \X (1 .. n) |-> AddCard(deck, selections, mode, p[1], PullCards[p[2]])]
<1>1. CreatePullList(deck, selections, mode) = iter[1 .. n]
  <2>1. DOMAIN PullCards = 1 .. n
    BY CardsOfDeck
  <2> QED BY <2>1 DEF CreatePullList, FoldLeft, MapThenFoldSet
<1>2. n \in Nat /\ EmptyPullList \in PullLists /\ G \in [PullLists \X (1 .. n) -> PullLists]
  <2>1. \A p \in PullLists \X (1 .. n) : AddCard(deck, selections, mode, p[1], PullCards[p[2]]) \in PullLists
    <3> SUFFICES ASSUME NEW a \in PullLists, NEW k \in 1 .. n
                 PROVE  AddCard(deck, selections, mode, a, PullCards[k]) \in PullLists
      OBVIOUS
    <3>1. PullCards[k] \in PullCard
      BY CardsOfDeck
    <3> QED BY <3>1, AddCardDoes
  <2> QED BY <2>1, CardsOfDeck, EmptyListIs
<1> HIDE DEF n, G
<1>3. PICK it \in [SUBSET (1 .. n) -> PullLists] : Folding(n, EmptyPullList, G, it)
  BY <1>2, FoldExists
<1>4. it = Body(it)
  <2>1. ASSUME NEW d \in SUBSET (1 .. n), d # {}
        PROVE  G[<<it[d \ {Max(d)}], Max(d)>>] = AddCard(deck, selections, mode, it[d \ {Max(d)}], PullCards[Max(d)])
    <3>1. Max(d) \in 1 .. n /\ d \ {Max(d)} \in SUBSET (1 .. n)
      BY <1>2, <2>1, MaxIs
    <3> QED BY <3>1 DEF G
  <2>2. \A d \in SUBSET (1 .. n) : it[d] = Body(it)[d]
    BY <1>3, <2>1 DEF Folding
  <2> QED BY <1>3, <2>2
<1>5. iter = Body(iter)
  <2> HIDE DEF Body
  <2> QED BY <1>4
<1> HIDE DEF iter
<1> DEFINE run == [k \in 0 .. n |-> iter[1 .. k]]
<1>6. run[0] = EmptyPullList
  <2>1. 1 .. 0 = {} /\ {} \in SUBSET (1 .. n) /\ 0 \in 0 .. n
    BY <1>2
  <2> QED BY <1>5, <2>1
<1>7. ASSUME NEW k \in 1 .. n
      PROVE  run[k] = AddCard(deck, selections, mode, run[k - 1], PullCards[k])
  <2>1. k \in 0 .. n /\ k - 1 \in 0 .. n
    BY <1>2
  <2>2. /\ Max(1 .. k) = k /\ (1 .. k) \ {k} = 1 .. (k - 1)
        /\ 1 .. k # {} /\ 1 .. k \in SUBSET (1 .. n)
    BY <1>2, MaxOfFirst
  <2>3. iter[1 .. k] = AddCard(deck, selections, mode, iter[1 .. (k - 1)], PullCards[k])
    BY <1>5, <2>2
  <2> QED BY <2>1, <2>3
<1>8. CreatePullList(deck, selections, mode) = run[n]
  <2>1. n \in 0 .. n
    BY <1>2
  <2>2. run[n] = iter[1 .. n]
    BY <2>1
  <2> HIDE DEF run
  <2> QED BY <1>1, <2>2, Zenon
<1> HIDE DEF run
<1> QED BY <1>6, <1>7, <1>8 DEF n, Listing

(* It never offers more copies of a card than the deck lacks, has every     *)
(* missing copy or counts it as skipped, and one the user has not touched   *)
(* keeps to the copies in stock with a choice for each.                     *)
Sound(deck, selections, l) ==
  /\ l \in PullLists
  /\ l.needed = AmountOf(l, PullOffers) + l.skipped
  /\ \A d \in PullCard : AmountOf(l, CardOffers(d)) <= deck.need[d]
  /\ DOMAIN selections = {} => Untouched(deck.free, l)

LEMMA ListSound ==
  ASSUME NEW deck \in Decks, NEW selections, Selecting(selections), NEW mode
  PROVE  Sound(deck, selections, CreatePullList(deck, selections, mode))
<1>1. PICK run : Listing(deck, selections, mode, run)
  BY CardRuns
<1> DEFINE n == Len(PullCards)
           Ahead(x, k) == \A j \in 1 .. n : j > k => AmountOf(x, CardOffers(PullCards[j])) = 0
           Good(k) == {x \in PullLists : Sound(deck, selections, x) /\ Ahead(x, k)}
           T == [k \in 0 .. n |-> Good(k)]
<1>2. n \in Nat /\ 0 \in 0 .. n /\ n \in 0 .. n
  BY CardsOfDeck
<1>3. ASSUME NEW k \in 1 .. n, run[k - 1] \in T[k - 1] PROVE run[k] \in T[k]
  <2> DEFINE x == run[k - 1]
             y == run[k]
             c == PullCards[k]
  <2>1. k \in 0 .. n /\ k - 1 \in 0 .. n /\ c \in PullCard /\ k > k - 1
    BY <1>2, CardsOfDeck
  <2>2. x \in Good(k - 1)
    BY <1>3, <2>1
  <2>3. x \in PullLists /\ Sound(deck, selections, x) /\ Ahead(x, k - 1)
    BY <2>2
  <2>4. y = AddCard(deck, selections, mode, x, c)
    BY <1>1 DEF Listing
  <2>5. AmountOf(x, CardOffers(c)) = 0
    BY <2>1, <2>3
  <2>6. \A j \in 1 .. n : j > k => /\ AmountOf(x, CardOffers(PullCards[j])) = 0
                                   /\ PullCards[j] \in PullCard \ {c}
    <3> SUFFICES ASSUME NEW j \in 1 .. n, j > k
                 PROVE  AmountOf(x, CardOffers(PullCards[j])) = 0 /\ PullCards[j] \in PullCard \ {c}
      OBVIOUS
    <3>1. j > k - 1 /\ j # k
      BY <1>2
    <3> QED BY <2>3, <3>1, CardsOfDeck
  <2> HIDE DEF x, y, c
  <2>7. y \in PullLists /\ (DOMAIN selections = {} /\ Untouched(deck.free, x) => Untouched(deck.free, y))
    BY <2>1, <2>3, <2>4, AddCardDoes
  <2>8. PICK m \in Nat : Written(c, x, y, deck.need[c], m)
    BY <2>1, <2>3, <2>4, AddCardDoes
  <2>9. /\ m <= deck.need[c] /\ deck.need[c] \in Nat
        /\ y.needed = x.needed + deck.need[c] /\ y.skipped = x.skipped + (deck.need[c] - m)
        /\ AmountOf(y, CardOffers(c)) = m /\ AmountOf(y, PullOffers) = AmountOf(x, PullOffers) + m
        /\ \A d \in PullCard \ {c} : AmountOf(y, CardOffers(d)) = AmountOf(x, CardOffers(d))
    BY <2>1, <2>5, <2>8, DeckNeeds DEF Written
  <2>10. x.needed \in Nat /\ x.skipped \in Nat /\ AmountOf(x, PullOffers) \in Nat
    BY <2>3, AmountOfType DEF PullLists
  <2>11. y.needed = AmountOf(y, PullOffers) + y.skipped
    <3>1. x.needed = AmountOf(x, PullOffers) + x.skipped
      BY <2>3 DEF Sound
    <3> QED BY <2>9, <2>10, <3>1
  <2>12. \A d \in PullCard : AmountOf(y, CardOffers(d)) <= deck.need[d]
    BY <2>3, <2>9 DEF Sound
  <2>13. Sound(deck, selections, y)
    BY <2>3, <2>7, <2>11, <2>12 DEF Sound
  <2>14. Ahead(y, k)
    BY <2>6, <2>9
  <2>15. y \in Good(k)
    BY <2>7, <2>13, <2>14
  <2> QED BY <2>1, <2>15 DEF y
<1>4. EmptyPullList \in Good(0)
  <2>1. \A d \in PullCard : 0 <= deck.need[d]
    BY DeckNeeds
  <2>2. DOMAIN selections = {} => Untouched(deck.free, EmptyPullList)
    <3>1. deck.free \in [PullItem -> Nat]
      BY PullAssumption DEF PullAssumption, Decks
    <3> QED BY <3>1, EmptyListIs
  <2>3. Sound(deck, selections, EmptyPullList)
    BY <2>1, <2>2, EmptyListIs DEF Sound
  <2> QED BY <2>3, EmptyListIs
<1>5. run[n] \in Good(n)
  <2> HIDE DEF Good
  <2>1. run[0] \in T[0] /\ T[n] = Good(n)
    BY <1>1, <1>2, <1>4 DEF Listing
  <2> HIDE DEF T
  <2>2. Climbs(n, T, run)
    BY <1>3, <2>1 DEF Climbs
  <2> QED BY <1>2, <2>1, <2>2, Stages
<1> QED BY <1>1, <1>5 DEF Listing

-----------------------------------------------------------------------------
(* What is sent of a list.                                                  *)
PullGiven == {o \in PullOffers : o.quantity \in 1 .. MaxNeed[o.card]}
PullSent == {o \in PullGiven : o.item \in PullItem}

LEMMA SentCounted == Counted(PullSent) /\ PullSent \subseteq PullOffers
BY OffersCounted DEF PullSent, PullGiven, Counted

LEMMA AllocatableType ==
  ASSUME NEW l \in PullLists, NEW excluded
  PROVE  Allocatable(l, excluded) \in Seq(PullSent)
<1>1. l.entries \in Seq(PullEntries) /\ l.choices \in Seq(PullChoices)
  BY DEF PullLists
<1>2. PullEntries \subseteq PullGiven
  BY OffersCounted DEF PullGiven, PullEntries
<1>3. ASSUME NEW choice \in PullChoices PROVE CopyOf(choice) \in PullGiven
  <2>1. CopyOf(choice) \in PullOffers /\ CopyOf(choice).quantity = 1 /\ CopyOf(choice).card \in PullCard
    BY CopyOffered DEF CopyOf, PullChoices
  <2>2. 1 \in 1 .. MaxNeed[CopyOf(choice).card]
    BY <2>1, PullAssumption DEF PullAssumption, PullCard
  <2> QED BY <2>1, <2>2 DEF PullGiven
<1>4. DOMAIN l.choices = 1 .. Len(l.choices) /\ Len(l.choices) \in Nat
  BY <1>1
<1>5. CopiesOf(l.choices) \in [1 .. Len(l.choices) -> PullGiven]
  BY <1>1, <1>3, <1>4 DEF CopiesOf
<1>6. CopiesOf(l.choices) \in Seq(PullGiven)
  BY <1>4, <1>5
<1>7. Offered(l) \in Seq(PullGiven)
  <2>1. l.entries \in Seq(PullGiven)
    BY <1>1, <1>2
  <2> QED BY <1>6, <2>1, OfferedIs, ConcatProperties
<1> DEFINE S == {e \in ToSet(Offered(l)) : e.item # NoItem /\ e.id \notin excluded}
<1>8. Allocatable(l, excluded) \in Seq(PullGiven \cap S)
  BY <1>7, AmongType DEF Allocatable
<1>9. PullGiven \cap S \subseteq PullSent
  BY DEF PullSent, PullGiven, PullOffers
<1> HIDE DEF S
<1> QED BY <1>8, <1>9

LEMMA OfItemIs ==
  ASSUME NEW b \in Seq(PullOffers), NEW i \in PullItem
  PROVE  OfItem(b, i) = Amount(b, ItemOffers(i))
<1>1. DOMAIN b = 1 .. Len(b) /\ \A k \in 1 .. Len(b) : b[k] \in PullOffers
  OBVIOUS
<1>2. \A k \in DOMAIN b : (IF b[k].item = i THEN b[k].quantity ELSE 0)
                          = (IF b[k] \in ItemOffers(i) THEN b[k].quantity ELSE 0)
  BY <1>1 DEF ItemOffers
<1>3. [k \in DOMAIN b |-> IF b[k].item = i THEN b[k].quantity ELSE 0] = Weights(b, ItemOffers(i))
  BY <1>2 DEF Weights
<1> QED BY <1>3 DEF OfItem, Amount

(* Entries fit a deck when they ask for no more copies of an item than are  *)
(* free, and of a card than it lacks.                                       *)
Fits(b, deck) ==
  /\ \A i \in PullItem : Amount(b, ItemOffers(i)) <= deck.free[i]
  /\ \A c \in PullCard : Amount(b, CardOffers(c)) <= deck.need[c]

LEMMA AllocatableAmount ==
  ASSUME NEW l \in PullLists, NEW excluded, NEW P
  PROVE  Amount(Allocatable(l, excluded), P) <= AmountOf(l, P)
<1>1. Offered(l) \in Seq(PullOffers) /\ Amount(Offered(l), P) = AmountOf(l, P)
  BY OfferedIs
<1> QED BY <1>1, OffersCounted, AmountAmong DEF Allocatable

(* What the dialog lets through fits the deck the dialog shows.             *)
LEMMA ConfirmedFits ==
  ASSUME NEW deck \in Decks, NEW selections, Selecting(selections), NEW mode, NEW excluded,
         SelectionFits(deck, CreatePullList(deck, selections, mode), excluded)
  PROVE  LET b == Allocatable(CreatePullList(deck, selections, mode), excluded)
         IN  b \in Seq(PullSent) /\ Fits(b, deck)
<1> DEFINE l == CreatePullList(deck, selections, mode)
           b == Allocatable(l, excluded)
<1>1. Sound(deck, selections, l)
  BY ListSound
<1>2. SelectionFits(deck, l, excluded)
  OBVIOUS
<1> HIDE DEF l
<1>3. l \in PullLists /\ \A c \in PullCard : AmountOf(l, CardOffers(c)) <= deck.need[c]
  BY <1>1 DEF Sound
<1>4. b \in Seq(PullSent) /\ b \in Seq(PullOffers)
  <2>1. b \in Seq(PullSent)
    BY <1>3, AllocatableType
  <2> HIDE DEF b
  <2> QED BY <2>1, SentCounted
<1>5. ASSUME NEW i \in PullItem PROVE Amount(b, ItemOffers(i)) <= deck.free[i]
  <2>1. OfItem(b, i) <= deck.free[i]
    BY <1>2 DEF SelectionFits
  <2> HIDE DEF b
  <2> QED BY <1>4, <2>1, OfItemIs
<1>6. ASSUME NEW c \in PullCard PROVE Amount(b, CardOffers(c)) <= deck.need[c]
  <2>1. Amount(b, CardOffers(c)) <= AmountOf(l, CardOffers(c)) /\ AmountOf(l, CardOffers(c)) <= deck.need[c]
    BY <1>3, AllocatableAmount
  <2>2. Amount(b, CardOffers(c)) \in Nat /\ AmountOf(l, CardOffers(c)) \in Nat /\ deck.need[c] \in Nat
    <3> HIDE DEF b
    <3> QED BY <1>3, <1>4, AmountOfType, AmountType, OffersCounted, DeckNeeds
  <2> HIDE DEF b
  <2> QED BY <2>1, <2>2
<1>7. Fits(b, deck)
  <2> HIDE DEF b
  <2> QED BY <1>5, <1>6 DEF Fits
<1> QED BY <1>4, <1>7 DEF l

(* A list the user has not touched can be sent as it is.                    *)
LEMMA UntouchedFits ==
  ASSUME NEW deck \in Decks, NEW mode
  PROVE  LET l == CreatePullList(deck, <<>>, mode)
             offered == Offered(l)
         IN  /\ l.needed = Total([k \in DOMAIN offered |-> offered[k].quantity]) + l.skipped
             /\ SelectionFits(deck, l, {})
<1> DEFINE l == CreatePullList(deck, <<>>, mode)
           offered == Offered(l)
           b == Allocatable(l, {})
<1>1. Selecting(<<>>) /\ DOMAIN <<>> = {}
  BY DEF Selecting
<1>2. Sound(deck, <<>>, l)
  BY <1>1, ListSound
<1> HIDE DEF l
<1>3. /\ l \in PullLists /\ l.needed = AmountOf(l, PullOffers) + l.skipped
      /\ InStock(deck.free, l) /\ NoneMissing(l)
  BY <1>1, <1>2 DEF Sound, Untouched
<1>4. offered \in Seq(PullOffers) /\ Amount(offered, PullOffers) = AmountOf(l, PullOffers)
  BY <1>3, OfferedIs
<1>5. Amount(offered, PullOffers) = Total([k \in DOMAIN offered |-> offered[k].quantity])
  <2> HIDE DEF offered
  <2>1. DOMAIN offered = 1 .. Len(offered) /\ \A k \in 1 .. Len(offered) : offered[k] \in PullOffers
    BY <1>4
  <2>2. Weights(offered, PullOffers) = [k \in DOMAIN offered |-> offered[k].quantity]
    BY <2>1 DEF Weights
  <2> QED BY <2>2 DEF Amount
<1>6. \A k \in DOMAIN l.choices : l.choices[k].item # NoItem
  <2>1. l.choices \in Seq(PullChoices)
    BY <1>3 DEF PullLists
  <2>2. DOMAIN l.choices = 1 .. Len(l.choices)
    BY <2>1
  <2> QED BY <1>3, <2>2 DEF NoneMissing
<1>7. ASSUME NEW i \in PullItem PROVE OfItem(b, i) <= deck.free[i]
  <2>1. b \in Seq(PullOffers)
    <3>1. b \in Seq(PullSent)
      BY <1>3, AllocatableType
    <3> HIDE DEF b
    <3> QED BY <3>1, SentCounted
  <2>2. Amount(b, ItemOffers(i)) <= AmountOf(l, ItemOffers(i))
    BY <1>3, AllocatableAmount
  <2> HIDE DEF b
  <2>3. AmountOf(l, ItemOffers(i)) <= deck.free[i]
    BY <1>3 DEF InStock
  <2>4. OfItem(b, i) = Amount(b, ItemOffers(i)) /\ OfItem(b, i) \in Nat
    BY <2>1, OfItemIs, AmountType, OffersCounted
  <2>5. AmountOf(l, ItemOffers(i)) \in Nat /\ deck.free[i] \in Nat
    BY <1>3, AmountOfType, PullAssumption DEF PullAssumption, Decks
  <2> QED BY <2>2, <2>3, <2>4, <2>5
<1>8. SelectionFits(deck, l, {})
  <2> HIDE DEF offered
  <2> QED BY <1>6, <1>7 DEF SelectionFits
<1> QED BY <1>3, <1>4, <1>5, <1>8 DEF l

-----------------------------------------------------------------------------
(* The server gives the entries one after the other.                        *)
Results == [deck : Decks, skipped : BOOLEAN]

LEMMA SentIs ==
  ASSUME NEW e \in PullSent
  PROVE  e.item \in PullItem /\ e.card \in PullCard /\ e.quantity \in Nat
BY DEF PullSent, PullGiven, PullOffers

LEMMA FewerNeeded ==
  ASSUME NEW deck \in Decks, NEW c \in PullCard, NEW m \in Nat, m <= deck.need[c]
  PROVE  [deck.need EXCEPT ![c] = @ - m] \in Needs
<1>1. deck.need \in [PullCard -> UNION {0 .. MaxNeed[d] : d \in PullCard}]
  BY DEF Decks, Needs
<1>2. \A d \in PullCard : deck.need[d] \in Nat /\ deck.need[d] <= MaxNeed[d] /\ MaxNeed[d] \in Nat
  BY DeckNeeds
<1>3. deck.need[c] - m \in 0 .. MaxNeed[c] /\ deck.need[c] - m <= MaxNeed[c]
  BY <1>2
<1>4. deck.need[c] - m \in UNION {0 .. MaxNeed[d] : d \in PullCard}
  BY <1>3
<1>5. [deck.need EXCEPT ![c] = @ - m] \in [PullCard -> UNION {0 .. MaxNeed[d] : d \in PullCard}]
  BY <1>1, <1>4
<1>6. \A d \in PullCard : [deck.need EXCEPT ![c] = @ - m][d] <= MaxNeed[d]
  BY <1>1, <1>2, <1>3
<1> QED BY <1>5, <1>6 DEF Needs

LEMMA FewerLeft ==
  ASSUME NEW deck \in Decks, NEW i \in PullItem, NEW c \in PullCard, NEW n \in Nat,
         n <= deck.free[i], NEW m \in Nat, m <= deck.need[c]
  PROVE  [deck EXCEPT !.free[i] = @ - n, !.need[c] = @ - m] \in Decks
<1>1. deck.free \in [PullItem -> 0 .. MaxFree] /\ MaxFree \in Nat
  BY PullAssumption DEF PullAssumption, Decks
<1> DEFINE f == [deck.free EXCEPT ![i] = @ - n]
           g == [deck.need EXCEPT ![c] = @ - m]
<1>2. f \in [PullItem -> 0 .. MaxFree] /\ g \in Needs
  BY <1>1, FewerNeeded
<1>3. [deck EXCEPT !.free[i] = @ - n, !.need[c] = @ - m] = [deck EXCEPT !.free = f, !.need = g]
  <2>1. [deck EXCEPT !.free = f].need = deck.need
    <3> HIDE DEF f
    <3> QED BY DEF Decks
  <2> HIDE DEF f
  <2> QED BY <2>1 DEF f
<1> HIDE DEF f, g
<1>4. [deck EXCEPT !.free = f, !.need = g] \in Decks
  BY <1>2 DEF Decks
<1> QED BY <1>3, <1>4, Zenon

Gives(result, e) == e.quantity <= result.deck.free[e.item] /\ e.quantity <= result.deck.need[e.card]

LEMMA GiveDoes ==
  ASSUME NEW result \in Results, NEW e \in PullSent
  PROVE  LET r == GiveEntry(result, e)
         IN  /\ r \in Results
             /\ Gives(result, e) =>
                  /\ r.skipped = result.skipped
                  /\ r.deck.free = [result.deck.free EXCEPT ![e.item] = @ - e.quantity]
                  /\ r.deck.need = [result.deck.need EXCEPT ![e.card] = @ - e.quantity]
<1>1. e.item \in PullItem /\ e.card \in PullCard /\ e.quantity \in Nat
  BY SentIs
<1>2. result.deck \in Decks /\ result.skipped \in BOOLEAN
  BY DEF Results
<1> DEFINE d == [result.deck EXCEPT !.free[e.item] = @ - e.quantity, !.need[e.card] = @ - e.quantity]
<1>3. CASE Gives(result, e)
  <2>1. d \in Decks
    BY <1>1, <1>2, <1>3, FewerLeft DEF Gives
  <2>2. GiveEntry(result, e) = [deck |-> d, skipped |-> result.skipped]
    BY <1>3 DEF Gives, GiveEntry, Results
  <2>3. /\ d.free = [result.deck.free EXCEPT ![e.item] = @ - e.quantity]
        /\ d.need = [result.deck.need EXCEPT ![e.card] = @ - e.quantity]
    BY <1>2 DEF Decks
  <2> HIDE DEF d
  <2> QED BY <1>2, <2>1, <2>2, <2>3 DEF Results
<1>4. CASE ~Gives(result, e)
  <2>1. GiveEntry(result, e) = [deck |-> result.deck, skipped |-> TRUE]
    BY <1>4 DEF Gives, GiveEntry, Results
  <2>2. GiveEntry(result, e) \in Results
    BY <1>2, <2>1 DEF Results
  <2> QED BY <1>4, <2>2
<1> QED BY <1>3, <1>4

Giving(deck, b, run) ==
  /\ run[0] = [deck |-> deck, skipped |-> FALSE]
  /\ \A k \in 1 .. Len(b) : run[k] = GiveEntry(run[k - 1], b[k])
  /\ FoldLeft(GiveEntry, [deck |-> deck, skipped |-> FALSE], b) = run[Len(b)]

(* The entries one after the other.                                         *)
LEMMA GiveRuns ==
  ASSUME NEW deck \in Decks, NEW b \in Seq(PullSent)
  PROVE  \E run : Giving(deck, b, run)
<1> DEFINE n == Len(b)
           Body(it) == [d \in SUBSET (1 .. n) |->
                          IF d = {} THEN [deck |-> deck, skipped |-> FALSE] ELSE GiveEntry(it[d \ {Max(d)}], b[Max(d)])]
           iter == CHOOSE it : it = Body(it)
           G == [p \in Results \X (1 .. n) |-> GiveEntry(p[1], b[p[2]])]
<1>1. FoldLeft(GiveEntry, [deck |-> deck, skipped |-> FALSE], b) = iter[1 .. n]
  <2>1. DOMAIN b = 1 .. n
    OBVIOUS
  <2> QED BY <2>1 DEF FoldLeft, MapThenFoldSet
<1>2. n \in Nat /\ [deck |-> deck, skipped |-> FALSE] \in Results /\ G \in [Results \X (1 .. n) -> Results]
  <2>1. \A p \in Results \X (1 .. n) : GiveEntry(p[1], b[p[2]]) \in Results
    <3> SUFFICES ASSUME NEW a \in Results, NEW k \in 1 .. n
                 PROVE  GiveEntry(a, b[k]) \in Results
      OBVIOUS
    <3>1. b[k] \in PullSent
      OBVIOUS
    <3>2. /\ GiveEntry(a, b[k]) \in Results
          /\ TRUE
      BY <3>1, GiveDoes, Zenon
    <3> QED BY <3>2
  <2>2. [deck |-> deck, skipped |-> FALSE] \in Results
    BY DEF Results
  <2> QED BY <2>1, <2>2
<1> HIDE DEF n, G
<1>3. PICK it \in [SUBSET (1 .. n) -> Results] : Folding(n, [deck |-> deck, skipped |-> FALSE], G, it)
  BY <1>2, FoldExists
<1>4. it = Body(it)
  <2>1. ASSUME NEW d \in SUBSET (1 .. n), d # {}
        PROVE  G[<<it[d \ {Max(d)}], Max(d)>>] = GiveEntry(it[d \ {Max(d)}], b[Max(d)])
    <3>1. Max(d) \in 1 .. n /\ d \ {Max(d)} \in SUBSET (1 .. n)
      BY <1>2, <2>1, MaxIs
    <3> QED BY <3>1 DEF G
  <2>2. \A d \in SUBSET (1 .. n) : it[d] = Body(it)[d]
    BY <1>3, <2>1 DEF Folding
  <2> QED BY <1>3, <2>2
<1>5. iter = Body(iter)
  <2> HIDE DEF Body
  <2> QED BY <1>4
<1> HIDE DEF iter
<1> DEFINE run == [k \in 0 .. n |-> iter[1 .. k]]
<1>6. run[0] = [deck |-> deck, skipped |-> FALSE]
  <2>1. 1 .. 0 = {} /\ {} \in SUBSET (1 .. n) /\ 0 \in 0 .. n
    BY <1>2
  <2> QED BY <1>5, <2>1
<1>7. ASSUME NEW k \in 1 .. n
      PROVE  run[k] = GiveEntry(run[k - 1], b[k])
  <2>1. k \in 0 .. n /\ k - 1 \in 0 .. n
    BY <1>2
  <2>2. /\ Max(1 .. k) = k /\ (1 .. k) \ {k} = 1 .. (k - 1)
        /\ 1 .. k # {} /\ 1 .. k \in SUBSET (1 .. n)
    BY <1>2, MaxOfFirst
  <2>3. iter[1 .. k] = GiveEntry(iter[1 .. (k - 1)], b[k])
    BY <1>5, <2>2
  <2> QED BY <2>1, <2>3
<1>8. FoldLeft(GiveEntry, [deck |-> deck, skipped |-> FALSE], b) = run[n]
  <2>1. n \in 0 .. n
    BY <1>2
  <2>2. run[n] = iter[1 .. n]
    BY <2>1
  <2> HIDE DEF run
  <2> QED BY <1>1, <2>2, Zenon
<1> HIDE DEF run
<1> QED BY <1>6, <1>7, <1>8 DEF n, Giving

LEMMA PrefixMore ==
  ASSUME NEW O, Counted(O), NEW b \in Seq(O), NEW k \in 1 .. Len(b), NEW P
  PROVE  /\ Amount(SubSeq(b, 1, k - 1), P) \in Nat
         /\ Amount(SubSeq(b, 1, k), P) = Amount(SubSeq(b, 1, k - 1), P) + (IF b[k] \in P THEN b[k].quantity ELSE 0)
         /\ Amount(SubSeq(b, 1, k), P) <= Amount(b, P)
<1>1. /\ k \in Nat /\ Len(b) \in Nat /\ b[k] \in O
      /\ SubSeq(b, 1, k - 1) \in Seq(O) /\ SubSeq(b, 1, k) \in Seq(O) /\ SubSeq(b, k + 1, Len(b)) \in Seq(O)
  <2>1. \A j \in 1 .. Len(b) : b[j] \in O
    OBVIOUS
  <2> QED BY <2>1, SubSeqProperties
<1>2. SubSeq(b, 1, k) = Append(SubSeq(b, 1, k - 1), b[k])
  <2>1. 1 \in 1 .. Len(b) /\ k \in 1 .. Len(b)
    BY <1>1
  <2>2. SubSeq(b, 1, k) = SubSeq(b, 1, k - 1) \o <<b[k]>>
    BY <2>1, SubSeqRecursiveSecond
  <2> HIDE DEF SubSeq
  <2>3. SubSeq(b, 1, k - 1) \o <<b[k]>> = Append(SubSeq(b, 1, k - 1), b[k])
    BY <1>1, AppendIsConcat
  <2> QED BY <2>2, <2>3
<1>3. b = SubSeq(b, 1, k) \o SubSeq(b, k + 1, Len(b))
  <2>1. 1 \in 1 .. Len(b) + 1 /\ k \in 1 - 1 .. Len(b) /\ Len(b) \in k .. Len(b)
    BY <1>1
  <2> QED BY <2>1, ConcatAdjacentSubSeq, SubSeqFull
<1> DEFINE u == SubSeq(b, 1, k - 1)
           v == SubSeq(b, 1, k)
           w == SubSeq(b, k + 1, Len(b))
<1>4. u \in Seq(O) /\ v \in Seq(O) /\ w \in Seq(O) /\ v = Append(u, b[k]) /\ b = v \o w
  BY <1>1, <1>2, <1>3
<1> HIDE DEF u, v, w
<1>5. Amount(v, P) = Amount(u, P) + (IF b[k] \in P THEN b[k].quantity ELSE 0)
  BY <1>1, <1>4, AmountOfMore
<1>6. Amount(b, P) = Amount(v, P) + Amount(w, P)
  <2>1. Amount(v \o w, P) = Amount(v, P) + Amount(w, P)
    <3>1. v \in Seq(O) /\ w \in Seq(O)
      BY <1>4
    <3> QED BY <3>1, AmountOfBoth
  <2> QED BY <1>4, <2>1, Zenon
<1>7. Amount(u, P) \in Nat /\ Amount(v, P) \in Nat /\ Amount(w, P) \in Nat
  BY <1>4, AmountType
<1> QED BY <1>5, <1>6, <1>7 DEF u, v

LEMMA GivenAll ==
  ASSUME NEW deck \in Decks, NEW b \in Seq(PullSent)
  PROVE  LET result == FoldLeft(GiveEntry, [deck |-> deck, skipped |-> FALSE], b)
         IN  result \in Results /\ (Fits(b, deck) => ~result.skipped)
<1>1. PICK run : Giving(deck, b, run)
  BY GiveRuns
<1> DEFINE Given(r, k) ==
             /\ ~r.skipped
             /\ \A i \in PullItem : r.deck.free[i] = deck.free[i] - Amount(SubSeq(b, 1, k), ItemOffers(i))
             /\ \A c \in PullCard : r.deck.need[c] = deck.need[c] - Amount(SubSeq(b, 1, k), CardOffers(c))
           Good(k) == {r \in Results : Fits(b, deck) => Given(r, k)}
           T == [k \in 0 .. Len(b) |-> Good(k)]
<1>2. Len(b) \in Nat /\ 0 \in 0 .. Len(b) /\ Len(b) \in 0 .. Len(b)
  OBVIOUS
<1>3. /\ \A i \in PullItem : deck.free[i] \in Nat
      /\ \A c \in PullCard : deck.need[c] \in Nat
  BY DeckNeeds, PullAssumption DEF PullAssumption, Decks
<1>4. ASSUME NEW k \in 1 .. Len(b), run[k - 1] \in T[k - 1] PROVE run[k] \in T[k]
  <2> DEFINE x == run[k - 1]
             y == run[k]
             e == b[k]
  <2>1. k \in 0 .. Len(b) /\ k - 1 \in 0 .. Len(b) /\ e \in PullSent
    BY <1>2
  <2>2. x \in Good(k - 1)
    BY <1>4, <2>1
  <2>3. x \in Results /\ (Fits(b, deck) => Given(x, k - 1))
    BY <2>2
  <2>4. y = GiveEntry(x, e)
    BY <1>1 DEF Giving
  <2>5. \A P : /\ Amount(SubSeq(b, 1, k - 1), P) \in Nat
              /\ Amount(SubSeq(b, 1, k), P) = Amount(SubSeq(b, 1, k - 1), P) + (IF e \in P THEN e.quantity ELSE 0)
              /\ Amount(SubSeq(b, 1, k), P) <= Amount(b, P)
    BY SentCounted, PrefixMore
  <2> HIDE DEF x, y, e
  <2>6. e.item \in PullItem /\ e.card \in PullCard /\ e.quantity \in Nat /\ e \in PullOffers
    BY <2>1, SentIs, SentCounted
  <2>7. /\ \A i \in PullItem : e \in ItemOffers(i) <=> i = e.item
        /\ \A c \in PullCard : e \in CardOffers(c) <=> c = e.card
    BY <2>6 DEF ItemOffers, CardOffers
  <2>8. \A P : Amount(b, P) \in Nat
    BY SentCounted, AmountType
  <2>9. ASSUME Fits(b, deck) PROVE Given(y, k)
    <3>1. Given(x, k - 1)
      BY <2>3, <2>9
    <3>2. Gives(x, e)
      <4>1. /\ x.deck.free[e.item] = deck.free[e.item] - Amount(SubSeq(b, 1, k - 1), ItemOffers(e.item))
            /\ x.deck.need[e.card] = deck.need[e.card] - Amount(SubSeq(b, 1, k - 1), CardOffers(e.card))
        BY <2>6, <3>1
      <4>2. /\ Amount(SubSeq(b, 1, k - 1), ItemOffers(e.item)) + e.quantity <= Amount(b, ItemOffers(e.item))
            /\ Amount(SubSeq(b, 1, k - 1), CardOffers(e.card)) + e.quantity <= Amount(b, CardOffers(e.card))
        BY <2>5, <2>6, <2>7
      <4>3. /\ Amount(b, ItemOffers(e.item)) <= deck.free[e.item]
            /\ Amount(b, CardOffers(e.card)) <= deck.need[e.card]
        BY <2>6, <2>9 DEF Fits
      <4>4. /\ Amount(SubSeq(b, 1, k - 1), ItemOffers(e.item)) \in Nat
            /\ Amount(SubSeq(b, 1, k - 1), CardOffers(e.card)) \in Nat
        BY <2>5
      <4> QED BY <1>3, <2>6, <2>8, <4>1, <4>2, <4>3, <4>4 DEF Gives
    <3>3. /\ y.skipped = x.skipped
          /\ y.deck.free = [x.deck.free EXCEPT ![e.item] = @ - e.quantity]
          /\ y.deck.need = [x.deck.need EXCEPT ![e.card] = @ - e.quantity]
      BY <2>1, <2>3, <2>4, <3>2, GiveDoes
    <3>4. DOMAIN x.deck.free = PullItem /\ DOMAIN x.deck.need = PullCard
      <4>1. x.deck \in Decks
        BY <2>3 DEF Results
      <4>2. x.deck.free \in [PullItem -> 0 .. MaxFree] /\ x.deck.need \in Needs
        BY <4>1 DEF Decks
      <4> QED BY <4>2 DEF Needs
    <3>5. ASSUME NEW i \in PullItem
          PROVE  y.deck.free[i] = deck.free[i] - Amount(SubSeq(b, 1, k), ItemOffers(i))
      <4>1. x.deck.free[i] = deck.free[i] - Amount(SubSeq(b, 1, k - 1), ItemOffers(i))
        BY <3>1
      <4>2. y.deck.free[i] = x.deck.free[i] - (IF i = e.item THEN e.quantity ELSE 0)
        <5>1. x.deck.free[i] \in Int
          BY <1>3, <2>5, <4>1
        <5> QED BY <3>3, <3>4, <5>1
      <4>3. /\ Amount(SubSeq(b, 1, k), ItemOffers(i))
              = Amount(SubSeq(b, 1, k - 1), ItemOffers(i)) + (IF i = e.item THEN e.quantity ELSE 0)
            /\ Amount(SubSeq(b, 1, k - 1), ItemOffers(i)) \in Nat
        BY <2>5, <2>7
      <4> QED BY <1>3, <2>6, <4>1, <4>2, <4>3
    <3>6. ASSUME NEW c \in PullCard
          PROVE  y.deck.need[c] = deck.need[c] - Amount(SubSeq(b, 1, k), CardOffers(c))
      <4>1. x.deck.need[c] = deck.need[c] - Amount(SubSeq(b, 1, k - 1), CardOffers(c))
        BY <3>1
      <4>2. y.deck.need[c] = x.deck.need[c] - (IF c = e.card THEN e.quantity ELSE 0)
        <5>1. x.deck.need[c] \in Int
          BY <1>3, <2>5, <4>1
        <5> QED BY <3>3, <3>4, <5>1
      <4>3. /\ Amount(SubSeq(b, 1, k), CardOffers(c))
              = Amount(SubSeq(b, 1, k - 1), CardOffers(c)) + (IF c = e.card THEN e.quantity ELSE 0)
            /\ Amount(SubSeq(b, 1, k - 1), CardOffers(c)) \in Nat
        BY <2>5, <2>7
      <4> QED BY <1>3, <2>6, <4>1, <4>2, <4>3
    <3> QED BY <3>1, <3>3, <3>5, <3>6
  <2>10. y \in Results
    BY <2>1, <2>3, <2>4, GiveDoes
  <2>11. y \in Good(k)
    BY <2>9, <2>10
  <2> QED BY <2>1, <2>11 DEF y
<1>5. run[0] \in Good(0)
  <2>1. run[0] = [deck |-> deck, skipped |-> FALSE]
    BY <1>1 DEF Giving
  <2>2. SubSeq(b, 1, 0) = <<>>
    BY SubSeqEmpty
  <2>3. \A P : Amount(SubSeq(b, 1, 0), P) = 0
    BY <2>2, AmountOfNone
  <2>4. run[0] \in Results
    BY <2>1 DEF Results
  <2>5. Given(run[0], 0)
    BY <1>3, <2>1, <2>3
  <2> QED BY <2>4, <2>5
<1>6. run[Len(b)] \in Good(Len(b))
  <2> HIDE DEF Good
  <2>1. run[0] \in T[0] /\ T[Len(b)] = Good(Len(b))
    BY <1>2, <1>5
  <2> HIDE DEF T
  <2>2. Climbs(Len(b), T, run)
    BY <1>4, <2>1 DEF Climbs
  <2> QED BY <1>2, <2>1, <2>2, Stages
<1>7. run[Len(b)] \in Results /\ (Fits(b, deck) => ~run[Len(b)].skipped)
  BY <1>6
<1> QED BY <1>1, <1>7 DEF Giving

-----------------------------------------------------------------------------
(* The pull list: what is on its way as the list of the deck as it is can   *)
(* be given in full, whatever the page learns meanwhile.                    *)
SelectionTyped == DOMAIN selectedItemIds \subseteq ChoiceIds /\ Selecting(selectedItemIds)

PullTyped ==
  /\ pullOpen \in BOOLEAN /\ pullMode \in {"any", "exact"}
  /\ SelectionTyped
  /\ excludedEntryIds \subseteq EntryIds \cup ChoiceIds
  /\ deckView \in Decks /\ storedDeck \in Decks
  /\ bulkAllocating \in Seq(PullSent)

SentSound == sentList = "fresh" /\ Pending => Fits(bulkAllocating, storedDeck)

PullInv == PullTyped /\ sentList \in {"fresh", "outdated"} /\ SentSound

LEMMA SelectionsTyped ==
  /\ selectedItemIds = <<>> => SelectionTyped
  /\ selectedItemIds' = <<>> => SelectionTyped'
  /\ UNCHANGED selectedItemIds => (SelectionTyped' <=> SelectionTyped)
<1>1. DOMAIN <<>> = {} /\ Selecting(<<>>)
  BY DEF Selecting
<1>2. selectedItemIds = <<>> => SelectionTyped
  <2> SUFFICES ASSUME selectedItemIds = <<>> PROVE SelectionTyped
    OBVIOUS
  <2> QED BY <1>1 DEF SelectionTyped
<1>3. selectedItemIds' = <<>> => SelectionTyped'
  <2> SUFFICES ASSUME selectedItemIds' = <<>> PROVE SelectionTyped'
    OBVIOUS
  <2> QED BY <1>1 DEF SelectionTyped
<1>4. UNCHANGED selectedItemIds => (SelectionTyped' <=> SelectionTyped)
  BY DEF SelectionTyped, Selecting
<1> QED BY <1>2, <1>3, <1>4

LEMMA SentKept ==
  /\ sentList' = "outdated" => SentSound'
  /\ SentSound /\ UNCHANGED <<sentList, bulkAllocating, storedDeck>> => SentSound'
BY DEF SentSound, Pending

LEMMA NoneSent == <<>> \in Seq(PullSent)
OBVIOUS

LEMMA ShownTypes ==
  ASSUME PullTyped
  PROVE  /\ ShownList \in PullLists
         /\ \A choice \in ToSet(ShownList.choices) :
              choice.id \in ChoiceIds /\ \A i \in ToSet(choice.others) : i \in PullItem
         /\ \A e \in ToSet(ShownList.entries) : e.id \in EntryIds
<1>1. Selecting(selectedItemIds) /\ deckView \in Decks
  BY DEF PullTyped, SelectionTyped
<1>2. ShownList \in PullLists
  BY <1>1, ListSound DEF ShownList, Sound
<1>3. ShownList.choices \in Seq(PullChoices) /\ ShownList.entries \in Seq(PullEntries)
  BY <1>2 DEF PullLists
<1>4. ToSet(ShownList.choices) \subseteq PullChoices /\ ToSet(ShownList.entries) \subseteq PullEntries
  BY <1>3 DEF ToSet
<1>5. ASSUME NEW choice \in PullChoices
      PROVE  choice.id \in ChoiceIds /\ \A i \in ToSet(choice.others) : i \in PullItem
  BY DEF PullChoices, ToSet
<1>6. \A e \in PullEntries : e.id \in EntryIds
  BY DEF PullEntries
<1> QED BY <1>2, <1>4, <1>5, <1>6

LEMMA SentQuantities ==
  ASSUME NEW b \in Seq(PullSent)
  PROVE  \A k \in DOMAIN b : b[k].quantity \in 1 .. MaxNeed[b[k].card]
<1>1. \A e \in PullSent : e.quantity \in 1 .. MaxNeed[e.card]
  BY DEF PullSent, PullGiven
<1>2. \A k \in DOMAIN b : b[k] \in PullSent
  OBVIOUS
<1> QED BY <1>1, <1>2

LEMMA PullTypes == PullInv => PullType
<1> SUFFICES ASSUME PullInv PROVE PullType
  OBVIOUS
<1>1. bulkAllocating \in Seq(PullSent)
  BY DEF PullInv, PullTyped
<1>2. \A k \in DOMAIN bulkAllocating : bulkAllocating[k].quantity \in 1 .. MaxNeed[bulkAllocating[k].card]
  BY <1>1, SentQuantities
<1> QED BY <1>2 DEF PullInv, PullTyped, PullType, SelectionTyped, Selecting

LEMMA PullStart == PullInit => PullInv
<1> SUFFICES ASSUME PullInit PROVE PullInv
  OBVIOUS
<1>1. /\ storedDeck \in Decks /\ deckView = storedDeck /\ pullOpen = FALSE /\ pullMode = "any"
      /\ selectedItemIds = <<>> /\ excludedEntryIds = {} /\ bulkAllocating = <<>> /\ sentList = "outdated"
  BY DEF PullInit
<1>2. SelectionTyped
  BY <1>1, SelectionsTyped
<1> QED BY <1>1, <1>2, NoneSent DEF PullInv, PullTyped, SentSound

LEMMA PullStep == PullInv /\ [PullNext]_pullVars => PullInv'
<1> SUFFICES ASSUME PullInv, [PullNext]_pullVars PROVE PullInv'
  OBVIOUS
<1> USE DEF PullInv, PullTyped
<1>1. CASE OpenPullList \/ ClosePullList \/ ChangeMode
  <2>1. /\ selectedItemIds' = <<>> /\ excludedEntryIds' = {} /\ pullOpen' \in BOOLEAN
        /\ pullMode' \in {"any", "exact"} /\ UNCHANGED <<bulkAllocating, deckView, storedDeck, sentList>>
    BY <1>1 DEF OpenPullList, ClosePullList, ChangeMode, FreshOverlay
  <2> QED BY <2>1, SelectionsTyped, SentKept
<1>2. CASE SelectChoice
  <2>1. PICK choice \in ToSet(ShownList.choices) : \E i \in ToSet(choice.others) :
          selectedItemIds' = [id \in DOMAIN selectedItemIds \cup {choice.id} |->
                                IF id = choice.id THEN i ELSE selectedItemIds[id]]
    BY <1>2 DEF SelectChoice
  <2>2. PICK i \in ToSet(choice.others) :
          selectedItemIds' = [id \in DOMAIN selectedItemIds \cup {choice.id} |->
                                IF id = choice.id THEN i ELSE selectedItemIds[id]]
    BY <2>1
  <2>3. choice.id \in ChoiceIds /\ i \in PullItem
    BY ShownTypes
  <2>4. SelectionTyped'
    BY <2>2, <2>3 DEF SelectionTyped, Selecting
  <2>5. UNCHANGED <<pullOpen, pullMode, excludedEntryIds, bulkAllocating, deckView, storedDeck, sentList>>
    BY <1>2 DEF SelectChoice
  <2> QED BY <2>4, <2>5, SentKept
<1>3. CASE ToggleEntry
  <2>1. PICK id \in {e.id : e \in ToSet(ShownList.entries) \cup ToSet(ShownList.choices)} :
          excludedEntryIds' = IF id \in excludedEntryIds THEN excludedEntryIds \ {id}
                              ELSE excludedEntryIds \cup {id}
    BY <1>3 DEF ToggleEntry
  <2>2. id \in EntryIds \cup ChoiceIds
    BY ShownTypes
  <2>3. excludedEntryIds' \subseteq EntryIds \cup ChoiceIds
    BY <2>1, <2>2
  <2>4. UNCHANGED <<pullOpen, pullMode, selectedItemIds, bulkAllocating, deckView, storedDeck, sentList>>
    BY <1>3 DEF ToggleEntry
  <2> QED BY <2>3, <2>4, SelectionsTyped, SentKept
<1>4. CASE Confirm
  <2>1. /\ SelectionFits(deckView, ShownList, excludedEntryIds)
        /\ bulkAllocating' = Allocatable(ShownList, excludedEntryIds)
        /\ sentList' = IF deckView = storedDeck THEN "fresh" ELSE "outdated"
        /\ UNCHANGED <<pullOpen, pullMode, selectedItemIds, excludedEntryIds, deckView, storedDeck>>
    BY <1>4 DEF Confirm
  <2>2. Selecting(selectedItemIds)
    BY DEF SelectionTyped
  <2>3. bulkAllocating' \in Seq(PullSent) /\ Fits(bulkAllocating', deckView)
    BY <2>1, <2>2, ConfirmedFits DEF ShownList
  <2>4. SentSound'
    <3>1. sentList' = "fresh" => Fits(bulkAllocating', storedDeck')
      BY <2>1, <2>3
    <3> QED BY <3>1 DEF SentSound
  <2> QED BY <2>1, <2>3, <2>4, SelectionsTyped
<1>5. CASE AnswerAllocation
  <2> DEFINE result == FoldLeft(GiveEntry, [deck |-> storedDeck, skipped |-> FALSE], bulkAllocating)
  <2>1. result \in Results /\ (Fits(bulkAllocating, storedDeck) => ~result.skipped)
    BY GivenAll
  <2>2. /\ Pending /\ bulkAllocating' = <<>> /\ storedDeck' = result.deck
        /\ sentList' = IF result.skipped /\ sentList = "fresh" THEN "skipped fresh" ELSE "outdated"
        /\ IF result.skipped
           THEN UNCHANGED <<pullOpen, pullMode, selectedItemIds, excludedEntryIds>>
           ELSE pullOpen' = FALSE /\ FreshOverlay
        /\ UNCHANGED deckView
    BY <1>5 DEF AnswerAllocation
  <2> HIDE DEF result
  <2>3. sentList' = "outdated" /\ storedDeck' \in Decks
    BY <2>1, <2>2 DEF Results, SentSound
  <2>4. /\ pullOpen' \in BOOLEAN /\ pullMode' \in {"any", "exact"}
        /\ excludedEntryIds' \subseteq EntryIds \cup ChoiceIds
        /\ selectedItemIds' = <<>> \/ UNCHANGED selectedItemIds
    BY <2>2 DEF FreshOverlay
  <2>5. SelectionTyped'
    BY <2>4, SelectionsTyped
  <2> QED BY <2>2, <2>3, <2>4, <2>5, SentKept, NoneSent
<1>6. CASE FailAllocation
  <2>1. /\ bulkAllocating' = <<>> /\ sentList' = "outdated"
        /\ UNCHANGED <<pullOpen, pullMode, selectedItemIds, excludedEntryIds, deckView, storedDeck>>
    BY <1>6 DEF FailAllocation
  <2> QED BY <2>1, SelectionsTyped, SentKept, NoneSent
<1>7. CASE ChangeElsewhere
  <2>1. /\ sentList' = "outdated"
        /\ UNCHANGED <<pullOpen, pullMode, selectedItemIds, excludedEntryIds, bulkAllocating, deckView>>
    BY <1>7 DEF ChangeElsewhere
  <2>2. storedDeck' \in Decks
    <3>1. CASE \E i \in PullItem : storedDeck.free[i] > 0 /\ storedDeck' = [storedDeck EXCEPT !.free[i] = @ - 1]
      <4>1. PICK i \in PullItem : storedDeck.free[i] > 0 /\ storedDeck' = [storedDeck EXCEPT !.free[i] = @ - 1]
        BY <3>1
      <4>2. storedDeck.free \in [PullItem -> 0 .. MaxFree] /\ MaxFree \in Nat
        BY PullAssumption DEF PullAssumption, Decks
      <4>3. [storedDeck.free EXCEPT ![i] = @ - 1] \in [PullItem -> 0 .. MaxFree]
        BY <4>1, <4>2
      <4> QED BY <4>1, <4>3 DEF Decks
    <3>2. CASE \E c \in PullCard : storedDeck.need[c] > 0 /\ storedDeck' = [storedDeck EXCEPT !.need[c] = @ - 1]
      <4>1. PICK c \in PullCard : storedDeck.need[c] > 0 /\ storedDeck' = [storedDeck EXCEPT !.need[c] = @ - 1]
        BY <3>2
      <4>2. storedDeck.need[c] \in Nat /\ 1 \in Nat
        BY DeckNeeds
      <4>3. [storedDeck.need EXCEPT ![c] = @ - 1] \in Needs
        <5>1. 1 <= storedDeck.need[c]
          BY <4>1, <4>2
        <5> QED BY <4>2, <5>1, FewerNeeded
      <4>4. storedDeck \in [free : [PullItem -> 0 .. MaxFree], need : Needs]
        BY DEF Decks
      <4> HIDE DEF PullInv, PullTyped
      <4>5. [storedDeck EXCEPT !.need = [storedDeck.need EXCEPT ![c] = @ - 1]] \in Decks
        BY <4>3, <4>4 DEF Decks
      <4> QED BY <4>1, <4>5
    <3> QED BY <1>7, <3>1, <3>2 DEF ChangeElsewhere
  <2> QED BY <2>1, <2>2, SelectionsTyped, SentKept
<1>8. CASE RefetchDeck
  BY <1>8, SelectionsTyped, SentKept DEF RefetchDeck
<1>9. CASE UNCHANGED pullVars
  BY <1>9, SelectionsTyped, SentKept DEF pullVars
<1> QED
  BY <1>1, <1>2, <1>3, <1>4, <1>5, <1>6, <1>7, <1>8, <1>9 DEF PullNext

LEMMA PullSound == PullInv => PullListSound
<1> SUFFICES ASSUME PullInv PROVE PullListSound
  OBVIOUS
<1>1. deckView \in Decks /\ FreshListFits
  BY DEF PullInv, PullTyped, FreshListFits
<1>2. ListAccounted
  BY <1>1, UntouchedFits DEF ListAccounted
<1> QED BY <1>1, <1>2 DEF PullListSound

LEMMA PullInvariant == WebSpec => []PullInv
<1>1. WebInit => PullInit
  BY DEF WebInit
<1> QED
  BY <1>1, PullStart, PullStep, PageSteps, PTL DEF WebSpec

(* The pull list: what the dialog lets through of a deck that did not       *)
(* change the server gives in full, and every missing copy is on the open   *)
(* list once or counted as skipped, for any cards, items and numbers of     *)
(* copies and however the user chooses and skips.                           *)
THEOREM PullListsFit == WebSpec => []PullListSound
  BY PullSound, PullInvariant, PTL
-----------------------------------------------------------------------------
(* What the parts keep has the types their modules give.  The scanner's     *)
(* tracker follows cards of the gallery: a frame that is identified has a   *)
(* candidate the lock allows.                                               *)
LEMMA IdentifiedKey ==
  ASSUME NEW frame \in Frame, NEW allowed \in Locks, Identified(frame, allowed)
  PROVE  KeyIn(frame, allowed) \in CardKey
<1>1. frame.candidates \in Seq(Candidate)
  <2>1. frame.candidates \in Ranked
    BY DEF Frame, Ranked
  <2>2. ASSUME NEW c \in Candidate PROVE <<c>> \in Seq(Candidate)
    OBVIOUS
  <2>3. ASSUME NEW s \in Candidate \X Candidate PROVE s \in Seq(Candidate)
    <3>1. PICK a \in Candidate, b \in Candidate : s = <<a, b>>
      OBVIOUS
    <3>2. <<a, b>> \in Seq(Candidate)
      OBVIOUS
    <3> QED
      BY <3>1, <3>2
  <2>4. <<>> \in Seq(Candidate)
    OBVIOUS
  <2>5. CASE frame.candidates = <<>>
    BY <2>4, <2>5
  <2>6. CASE \E c \in Candidate : frame.candidates = <<c>>
    BY <2>2, <2>6
  <2>7. CASE frame.candidates \in Candidate \X Candidate
    BY <2>3, <2>7
  <2> QED
    BY <2>1, <2>5, <2>6, <2>7 DEF Ranked
<1> DEFINE within == Within(frame, allowed)
<1>2. within \in Seq(Candidate \cap [art : allowed, score : Score])
  BY <1>1, AmongType DEF Within
<1>3. ScoreAt(within, 1) >= MinScore
  BY DEF Identified
<1> HIDE DEF within
<1>4. 1 <= Len(within)
  BY <1>3 DEF ScoreAt, MinScore
<1>5. within[1] \in Candidate
  BY <1>2, <1>4
<1>6. KeyIn(frame, allowed) = KeyOf[within[1].art]
  BY DEF KeyIn, within
<1> QED
  BY <1>5, <1>6 DEF Candidate, CardKey

LEMMA FramesStep == FramesType /\ [FramesNext]_framesVars => FramesType'
<1> SUFFICES ASSUME FramesType, [FramesNext]_framesVars PROVE FramesType'
  OBVIOUS
<1>1. tracker = [key |-> tracker.key, streak |-> tracker.streak,
                 place |-> tracker.place, last |-> tracker.last]
      /\ tracker.key \in CardKey \cup {NoKey} /\ tracker.streak \in 0 .. AgreeingFrames
      /\ tracker.place \in Place \cup {NoPlace} /\ tracker.last \in CardKey \cup {NoKey}
  BY DEF FramesType, Tracker
<1>2. CASE TrackFrame
  <2> PICK frame \in Frame, allowed \in Locks :
             /\ tracker' = Evaluate(tracker, frame, allowed).tracker
             /\ outcome' = Evaluate(tracker, frame, allowed).outcome
             /\ recent' = Latest(Noted(frame, allowed), recent)
    BY <1>2 DEF TrackFrame
  <2> DEFINE key == KeyIn(frame, allowed)
             noted == Noted(frame, allowed)
  <2>1. frame.place \in Place \cup {NoPlace}
    BY DEF Frame
  <2>2. Identified(frame, allowed) => key \in CardKey
    BY IdentifiedKey
  <2>3. noted \in Seen
    BY <2>1, <2>2 DEF Noted, Seen, Clear
  <2> HIDE DEF noted
  <2>4. recent' \in Seq(Seen) /\ Len(recent') <= AgreeingFrames
    BY <2>3, LatestSeq DEF FramesType, noted
  <2>5. CASE ~Identified(frame, allowed)
    <3>1. /\ tracker' = [tracker EXCEPT !.key = NoKey, !.streak = 0, !.place = NoPlace]
          /\ outcome' = Unidentified(frame, allowed)
      BY <2>5 DEF Evaluate, Forgotten
    <3>2. tracker' = [key |-> NoKey, streak |-> 0, place |-> NoPlace, last |-> tracker.last]
      BY <1>1, <3>1
    <3>3. tracker' \in Tracker
      BY <1>1, <3>2 DEF Tracker, AgreeingFrames
    <3>4. outcome' \in {"empty", "outside-lock", "tracking"}
      BY <3>1 DEF Unidentified
    <3> QED
      BY <2>4, <3>3, <3>4 DEF FramesType
  <2>6. CASE Identified(frame, allowed)
    <3> DEFINE streak == IF Continues(tracker, key, frame.place) THEN OneMore(tracker.streak) ELSE 1
               needed == IF Clear(frame, allowed) THEN ClearFrames ELSE AgreeingFrames
    <3>1. streak \in 0 .. AgreeingFrames
      BY <1>1 DEF OneMore, AgreeingFrames
    <3> DEFINE next == [tracker EXCEPT !.key = key, !.streak = streak, !.place = frame.place]
    <3> HIDE DEF streak, needed
    <3>2. key \in CardKey
      BY <2>2, <2>6
    <3> HIDE DEF key
    <3>3. tracker \in Tracker
      BY DEF FramesType
    <3>4. Evaluate(tracker, frame, allowed) =
            IF streak < needed THEN [tracker |-> next, outcome |-> "tracking"]
            ELSE IF key = tracker.last THEN [tracker |-> next, outcome |-> "duplicate"]
            ELSE [tracker |-> [next EXCEPT !.last = key], outcome |-> "accept"]
      BY <2>6 DEF Evaluate, streak, needed, key
    <3>5. tracker' \in {next, [next EXCEPT !.last = key]}
          /\ outcome' \in {"tracking", "duplicate", "accept"}
      BY <3>4
    <3>6. next \in Tracker
      BY <2>1, <3>1, <3>2, <3>3 DEF Tracker
    <3> HIDE DEF next
    <3>7. [next EXCEPT !.last = key] \in Tracker
      BY <3>2, <3>6 DEF Tracker
    <3> QED
      BY <2>4, <3>5, <3>6, <3>7 DEF FramesType
  <2> QED
    BY <2>5, <2>6
<1>3. CASE Told
  <2>1. PICK k \in CardKey \cup {NoKey} : tracker' = [tracker EXCEPT !.last = k] \/ tracker' = tracker
    BY <1>3 DEF Told, ForgetLast, Marked
  <2>2. tracker' \in Tracker
    BY <1>1, <2>1 DEF Tracker
  <2> QED
    BY <1>3, <2>2 DEF Told, FramesType
<1>4. CASE UNCHANGED framesVars
  BY <1>4 DEF framesVars, FramesType
<1> QED
  BY <1>2, <1>3, <1>4 DEF FramesNext

LEMMA FramesTyped == WebSpec => []FramesType
<1>1. WebInit => FramesType
  <2> SUFFICES ASSUME FramesInit PROVE FramesType
    BY DEF WebInit
  <2>1. tracker \in Tracker
    BY DEF FramesInit, InitialTracker, Tracker, AgreeingFrames
  <2>2. recent \in Seq(Seen) /\ Len(recent) = 0
    BY DEF FramesInit
  <2> QED
    BY <2>1, <2>2 DEF FramesInit, FramesType, AgreeingFrames
<1>2. [WebNext]_webVars => [FramesNext]_framesVars
  BY DEF WebNext, webVars, scanVars, FollowDevice, FollowFrames, FollowLock, FollowList,
         FollowImport, FollowShared, FollowPull, FollowSwap, FollowTags
<1> QED
  BY <1>1, <1>2, FramesStep, PTL DEF WebSpec
(* The import dialog.                                                       *)
DialogRest ==
  /\ {importOpen, closeRequested, commitPendingAutoSort} \subseteq BOOLEAN
  /\ newestCall \in PreviewCall \cup {NoCall}

LEMMA DialogStep == DialogRest /\ [ImportNext]_importVars => DialogRest'
<1> SUFFICES ASSUME DialogRest, [ImportNext]_importVars PROVE DialogRest'
  OBVIOUS
<1> USE DEF DialogRest
<1>1. CASE OpenImport \/ EditText \/ EditPricing
  BY <1>1 DEF OpenImport, EditText, EditPricing, Update
<1>2. CASE SubmitPreview
  BY <1>2 DEF SubmitPreview, AskPreview
<1>3. CASE SelectCandidate \/ PreviewAutoSort \/ AutoSortAnswered \/ DismissSummary
  BY <1>3 DEF SelectCandidate, PreviewAutoSort, AutoSortAnswered, DismissSummary
<1>4. CASE Commit(FALSE) \/ Commit(TRUE)
  BY <1>4 DEF Commit
<1>5. CASE Committed \/ CommitFailed \/ CloseImport
  BY <1>5 DEF Committed, CommitFailed, CloseImport, Reset
<1>6. CASE RequestClose
  BY <1>6 DEF RequestClose, Reset
<1>7. ASSUME NEW c \in PreviewCall, Previewed(c) \/ PreviewFailed(c) PROVE DialogRest'
  BY <1>7 DEF Previewed, PreviewFailed, CallEnds
<1>8. ASSUME NEW list \in ImportList, ShareList(list) PROVE DialogRest'
  BY <1>8 DEF ShareList, AskPreview
<1>9. ASSUME NEW list \in ImportList, ChooseFile(list) \/ FileRead(list) PROVE DialogRest'
  BY <1>9 DEF ChooseFile, FileRead
<1>10. CASE UNCHANGED importVars
  BY <1>10 DEF importVars
<1> QED
  BY <1>1, <1>2, <1>3, <1>4, <1>5, <1>6, <1>7, <1>8, <1>9, <1>10 DEF ImportNext

LEMMA ImportTyped == WebSpec => []ImportType
<1>1. WebInit => DialogRest
  BY DEF WebInit, ImportInit, DialogRest
<1>2. CommitInv => commits \in 0 .. 2
  BY DEF CommitInv
<1>3. RowsInv /\ CommitInv /\ DialogRest => ImportType
  BY <1>2, Zenon DEF RowsInv, RowsTyped, DialogRest, ImportType
<1> QED
  BY <1>1, <1>3, DialogStep, ImportInvariant, PageSteps, PTL DEF WebSpec

(* Shared lists on their way.                                               *)
Fates == {"none", "handed", "shown", "again", "replaced", "dropped"}

LEMMA FatesTyped ==
  ASSUME SharedType
  PROVE  /\ \A s \in Shared : ShowList(s) \in [Shared -> Fates]
         /\ \A s, by : Replacing(s, by) \in [Shared -> Fates]
<1>1. shareFate \in [Shared -> Fates]
  BY DEF SharedType, Fates
<1>2. \A f : After(f) \in Fates
  BY DEF After, Fates
<1>3. "replaced" \in Fates
  BY DEF Fates
<1> QED
  BY <1>1, <1>2, <1>3 DEF ShowList, Replacing

LEMMA SharedTypeStep == SharedInv /\ SharedType /\ [SharedNext]_sharedVars => SharedType'
<1> SUFFICES ASSUME SharedInv, SharedType, [SharedNext]_sharedVars PROVE SharedType'
  OBVIOUS
<1>1. /\ shareFate \in [Shared -> Fates]
      /\ {"none", "handed", "shown", "again", "replaced", "dropped"} = Fates
  BY DEF SharedType, Fates
<1>2. /\ Scanned \subseteq Shared /\ Received \subseteq Shared
      /\ \A f : After(f) \in Fates
  BY DEF Shared, After, Fates
<1>3. /\ plugin # NoPlugin => plugin.list \in Received
      /\ ReadPlugin => plugin' \in [list : Received \cup {NoShared}, reads : 0 .. 2]
  <2>1. plugin # NoPlugin => plugin.list \in Received
    BY PluginTyped DEF SharedInv
  <2>2. plugin \in [list : Received \cup {NoShared}, reads : 0 .. 2]
    BY DEF SharedType
  <2>3. NoPlugin \in [list : Received \cup {NoShared}, reads : 0 .. 2]
    BY DEF NoPlugin
  <2>4. ~(plugin.reads <= 1) =>
          [plugin EXCEPT !.reads = @ - 1] \in [list : Received \cup {NoShared}, reads : 0 .. 2]
    BY <2>2
  <2> QED
    BY <2>1, <2>3, <2>4 DEF ReadPlugin
<1>4. ASSUME NEW s \in Shared, Receive(s)
      PROVE  /\ route' = "collection" /\ importFile' = TRUE
             /\ pendingImport' \in Shared \cup {NoShared}
             /\ taking' \in {"no", "asking", "ignored"}
             /\ shareFate' \in [Shared -> Fates]
  BY <1>4, FatesTyped DEF Receive, SharedType
<1>5. ASSUME NEW s \in Scanned, HandOver(s) PROVE SharedType'
  <2>1. /\ \A f \in [Shared -> Fates] : [f EXCEPT ![s] = "handed"] \in [Shared -> Fates]
        /\ [shareFate EXCEPT ![s] = "dropped"] \in [Shared -> Fates]
    BY <1>1
  <2>2. shareFate' \in [Shared -> Fates]
    BY <1>5, <2>1, FatesTyped DEF HandOver
  <2>3. queuedImport' \in Shared \cup {NoShared}
    BY <1>2, <1>5 DEF HandOver, SharedType
  <2> QED
    BY <1>1, <1>5, <2>2, <2>3 DEF HandOver, LoadPage, SharedType
<1>6. ASSUME NEW s \in Received, ShareFromApp(s) PROVE SharedType'
  <2>1. /\ \A f \in [Shared -> Fates] : [f EXCEPT ![s] = "handed"] \in [Shared -> Fates]
        /\ [shareFate EXCEPT ![s] = "shown"] \in [Shared -> Fates]
    BY <1>1
  <2>2. shareFate' \in [Shared -> Fates]
    BY <1>6, <2>1, FatesTyped DEF ShareFromApp
  <2>3. plugin' \in [list : Received \cup {NoShared}, reads : 0 .. 2]
    BY <1>6 DEF ShareFromApp
  <2>4. /\ {pendingImport', retained'} \subseteq Shared \cup {NoShared}
        /\ route' \in {"collection", "scanner", "elsewhere"} /\ importFile' \in BOOLEAN
        /\ taking' \in {"no", "asking", "ignored"}
        /\ UNCHANGED <<mounted, queuedImport, startup>>
    BY <1>2, <1>6 DEF ShareFromApp, SharedType
  <2> QED
    BY <1>1, <2>2, <2>3, <2>4 DEF SharedType
<1>7. CASE PluginRead
  <2>1. CASE plugin = NoPlugin
    BY <1>7, <2>1 DEF PluginRead, SharedType
  <2>2. CASE plugin # NoPlugin
    <3>1. plugin.list \in Shared /\ Receive(plugin.list) /\ ReadPlugin
      BY <1>2, <1>3, <1>7, <2>2 DEF PluginRead
    <3> QED
      BY <1>1, <1>3, <1>4, <1>7, <3>1 DEF PluginRead, SharedType
  <2> QED
    BY <2>1, <2>2
<1>8. CASE ListenerAdded
  <2>1. CASE retained = NoShared
    BY <1>8, <2>1 DEF ListenerAdded, SharedType
  <2>2. CASE retained # NoShared
    <3>1. retained \in Shared /\ Receive(retained)
      BY <1>8, <2>2 DEF ListenerAdded, SharedType
    <3> QED
      BY <1>1, <1>4, <1>8, <3>1 DEF ListenerAdded, SharedType
  <2> QED
    BY <2>1, <2>2
<1>9. CASE MountCollection
  <2>1. shareFate' \in [Shared -> Fates]
    BY <1>1, <1>2, <1>9, FatesTyped DEF MountCollection
  <2> QED
    BY <1>1, <1>9, <2>1 DEF MountCollection, Unqueued, SharedType
<1>10. CASE TakeAnswered
  <2>1. shareFate' \in [Shared -> Fates]
    BY <1>1, <1>2, <1>3, <1>10, FatesTyped DEF TakeAnswered
  <2> QED
    BY <1>1, <1>3, <1>10, <2>1 DEF TakeAnswered, SharedType
<1>11. CASE LeaveCollection \/ OpenScanner
  BY <1>11 DEF LeaveCollection, OpenScanner, LoadPage, SharedType
<1>12. CASE Expire
  <2>1. NoPlugin \in [list : Received \cup {NoShared}, reads : 0 .. 2]
    BY DEF NoPlugin
  <2> QED
    BY <1>12, <2>1 DEF Expire, SharedType
<1>13. CASE UNCHANGED sharedVars
  BY <1>13 DEF sharedVars, SharedType
<1> QED
  BY <1>5, <1>6, <1>7, <1>8, <1>9, <1>10, <1>11, <1>12, <1>13 DEF SharedNext

LEMMA SharedTypes == WebSpec => []SharedType
<1>1. WebInit => SharedType
  <2>1. NoPlugin \in [list : Received \cup {NoShared}, reads : 0 .. 2]
    BY DEF NoPlugin
  <2>2. SharedInit => SharedType
    BY <2>1 DEF SharedInit, SharedType
  <2> QED
    BY <2>2 DEF WebInit
<1> QED
  BY <1>1, SharedTypeStep, SharedInvariant, PageSteps, PTL DEF WebSpec
(* The staged swap: no edit goes beyond the copies a counter offers.        *)
LEMMA SwapTools ==
  ASSUME NEW s \in DeckSwaps
  PROVE  /\ \A c \in CutCard, n \in Copies, b \in BOOLEAN :
              /\ [s EXCEPT !.cuts[c] = n] \in DeckSwaps
              /\ [s EXCEPT !.toBoard[c] = b] \in DeckSwaps
              /\ [s EXCEPT !.cuts[c] = n, !.toBoard[c] = b] \in DeckSwaps
         /\ \A c \in ConsideringCard, n \in Copies : [s EXCEPT !.considering[c] = n] \in DeckSwaps
         /\ \A c \in SwapName, n \in Copies : [s EXCEPT !.search[c] = n] \in DeckSwaps
  BY DEF DeckSwaps

LEMMA EditsTyped ==
  ASSUME NEW s \in DeckSwaps
  PROVE  Edits(s) \subseteq DeckSwaps
<1>0. /\ \A c \in CutCard, n \in Copies, b \in BOOLEAN :
           /\ [s EXCEPT !.cuts[c] = n] \in DeckSwaps
           /\ [s EXCEPT !.toBoard[c] = b] \in DeckSwaps
           /\ [s EXCEPT !.cuts[c] = n, !.toBoard[c] = b] \in DeckSwaps
      /\ \A c \in ConsideringCard, n \in Copies : [s EXCEPT !.considering[c] = n] \in DeckSwaps
      /\ \A c \in SwapName, n \in Copies : [s EXCEPT !.search[c] = n] \in DeckSwaps
  BY SwapTools
<1>1. 0 \in Copies /\ 1 \in Copies /\ FALSE \in BOOLEAN
  BY SwapAssumption DEF Copies
<1>2. \A c \in CutCard : ToggleCut(s, c) \in DeckSwaps
  BY <1>0, <1>1 DEF ToggleCut
<1>3. \A c \in CutCard, n \in Copies : SetCutQuantity(s, c, n) \in DeckSwaps
  BY <1>1, <1>0 DEF SetCutQuantity
<1>4. \A c \in ConsideringCard : ToggleConsidering(s, c) \in DeckSwaps
  <2> TAKE c \in ConsideringCard
  <2>1. CASE s.considering[c] > 0
    <3>1. ToggleConsidering(s, c) = [s EXCEPT !.considering[c] = 0]
      BY <2>1 DEF ToggleConsidering
    <3> QED
      BY <1>0, <1>1, <3>1
  <2>2. CASE ~(s.considering[c] > 0)
    <3>1. ToggleConsidering(s, c) = [s EXCEPT !.considering[c] = 1]
      BY <2>2 DEF ToggleConsidering
    <3> QED
      BY <1>0, <1>1, <3>1
  <2> QED
    BY <2>1, <2>2
<1>5. \A n \in SwapName : s.search[n] < MaxSwapCopies => AddByName(s, n) \in DeckSwaps
  <2> SUFFICES ASSUME NEW n \in SwapName, s.search[n] < MaxSwapCopies
               PROVE  AddByName(s, n) \in DeckSwaps
    OBVIOUS
  <2>1. s.search[n] + 1 \in Copies
    BY SwapAssumption DEF DeckSwaps, Copies
  <2>2. AddByName(s, n) = [s EXCEPT !.search[n] = s.search[n] + 1]
    BY DEF AddByName, DeckSwaps
  <2> QED
    BY <2>1, <2>2, <1>0
<1>6. \A n \in SwapName : ConsideringOf[n] # NoConsidering => ConsideringOf[n] \in ConsideringCard
  BY SwapAssumption
<1>7. \A n \in SwapName : s.search[n] < MaxSwapCopies => StageSearched(s, n) \in DeckSwaps
  BY <1>4, <1>5, <1>6 DEF StageSearched
<1>8. \A n \in SwapName : AddChip(s, n) \in DeckSwaps
  <2>1. \A n \in SwapName : ~(s.search[n] > 0) => s.search[n] < MaxSwapCopies
    BY SwapAssumption DEF DeckSwaps, Copies
  <2> QED
    BY <1>1, <1>4, <1>5, <1>6, <2>1, <1>0 DEF AddChip
<1>9. \A c \in CutCard : [s EXCEPT !.toBoard[c] = ~@] \in DeckSwaps
  <2> TAKE c \in CutCard
  <2> DEFINE flipped == ~s.toBoard[c]
  <2>1. [s EXCEPT !.toBoard[c] = ~@] = [s EXCEPT !.toBoard[c] = flipped]
    OBVIOUS
  <2>2. flipped \in BOOLEAN
    OBVIOUS
  <2> HIDE DEF flipped
  <2>3. [s EXCEPT !.toBoard[c] = flipped] \in DeckSwaps
    BY <2>2, <1>0, <1>1, Zenon
  <2> QED
    BY <2>1, <2>3
<1>10. /\ {ToggleCut(s, c) : c \in CutCard} \subseteq DeckSwaps
       /\ {[s EXCEPT !.toBoard[c] = ~@] : c \in {d \in CutCard : s.cuts[d] > 0}} \subseteq DeckSwaps
       /\ {ToggleConsidering(s, c) : c \in ConsideringCard} \subseteq DeckSwaps
  BY <1>2, <1>4, <1>9, Zenon
<1>11. {SetCutQuantity(s, x[1], x[2]) :
          x \in {y \in CutCard \X Copies : s.cuts[y[1]] > 0
                                           /\ y[2] \in {s.cuts[y[1]] + 1, s.cuts[y[1]] - 1}}}
       \subseteq DeckSwaps
  BY <1>3
<1>12. {[s EXCEPT !.considering[x[1]] = x[2]] :
          x \in {y \in ConsideringCard \X Copies :
                   s.considering[y[1]] > 0
                   /\ y[2] \in {s.considering[y[1]] + 1, s.considering[y[1]] - 1}}}
       \subseteq DeckSwaps
  <2>1. ASSUME NEW x \in ConsideringCard \X Copies
        PROVE  [s EXCEPT !.considering[x[1]] = x[2]] \in DeckSwaps
    <3>1. x[1] \in ConsideringCard /\ x[2] \in Copies
      OBVIOUS
    <3> QED
      BY <1>0, <3>1, Zenon
  <2> QED
    BY <2>1, Zenon
<1>13. {[s EXCEPT !.search[x[1]] = x[2]] :
          x \in {y \in SwapName \X Copies :
                   s.search[y[1]] > 0 /\ y[2] \in {s.search[y[1]] + 1, s.search[y[1]] - 1}}}
       \subseteq DeckSwaps
  <2>1. ASSUME NEW x \in SwapName \X Copies
        PROVE  [s EXCEPT !.search[x[1]] = x[2]] \in DeckSwaps
    <3>1. x[1] \in SwapName /\ x[2] \in Copies
      OBVIOUS
    <3> QED
      BY <1>0, <3>1, Zenon
  <2> QED
    BY <2>1, Zenon
<1>14. /\ {StageSearched(s, n) : n \in {m \in SwapName : s.search[m] < MaxSwapCopies}}
            \subseteq DeckSwaps
       /\ {AddChip(s, n) : n \in {m \in SwapName : AddStaged(s, m) \/ m \notin InMainboard}}
            \subseteq DeckSwaps
  BY <1>7, <1>8, Zenon
<1> QED
  BY <1>10, <1>11, <1>12, <1>13, <1>14 DEF Edits

LEMMA SwapTypeStep == SwapType /\ [SwapNext]_swapVars => SwapType'
<1> SUFFICES ASSUME SwapType, [SwapNext]_swapVars PROVE SwapType'
  OBVIOUS
<1>0. /\ swapOpen \in BOOLEAN /\ settled \in BOOLEAN /\ previewing \in BOOLEAN
      /\ previewError \in BOOLEAN /\ applying \in BOOLEAN /\ applyError \in BOOLEAN
      /\ swapCloseLatch \in BOOLEAN
      /\ swap \in DeckSwaps /\ debouncedSwap \in DeckSwaps
      /\ previewData \in DeckSwaps \cup {NoSwap} /\ previousData \in DeckSwaps \cup {NoSwap}
      /\ pendingConfirm \in {"no", "clear", "close"}
  BY DEF SwapType
<1>1. EmptySwap \in DeckSwaps
  BY SwapAssumption DEF EmptySwap, DeckSwaps, Copies
<1> SUFFICES /\ swapOpen' \in BOOLEAN /\ settled' \in BOOLEAN /\ previewing' \in BOOLEAN
             /\ previewError' \in BOOLEAN /\ applying' \in BOOLEAN /\ applyError' \in BOOLEAN
             /\ swapCloseLatch' \in BOOLEAN
             /\ swap' \in DeckSwaps /\ debouncedSwap' \in DeckSwaps
             /\ previewData' \in DeckSwaps \cup {NoSwap} /\ previousData' \in DeckSwaps \cup {NoSwap}
             /\ pendingConfirm' \in {"no", "clear", "close"}
  BY DEF SwapType
<1>2. CASE SwapClosed
  BY <1>1, <1>2 DEF SwapClosed
<1>3. CASE Edit
  <2>1. swap' \in DeckSwaps
    BY <1>0, <1>3, EditsTyped, Zenon DEF Edit
  <2> QED
    BY <1>0, <1>3, <2>1, Zenon DEF Edit, applyVars
<1>4. CASE Debounce
  <2>1. (swap # EmptySwap) \in BOOLEAN
    OBVIOUS
  <2> QED
    BY <1>0, <1>4, <2>1 DEF Debounce, applyVars
<1>5. CASE AnswerPreview
  BY <1>0, <1>5, Zenon DEF AnswerPreview, applyVars
<1>6. CASE ConfirmDiscard
  BY <1>0, <1>1, <1>2, <1>6, Zenon DEF ConfirmDiscard
<1>7. CASE OpenSwap \/ ApplySwap \/ SwapFails \/ Discard \/ KeepEditing \/ UNCHANGED swapVars
  BY <1>0, <1>7, Zenon
  DEF OpenSwap, ApplySwap, SwapFails, Discard, KeepEditing, swapVars, previewVars, applyVars
<1>8. ASSUME NEW latch \in BOOLEAN, RequestSwapClose(latch)
      PROVE  SwapType'
  <2>1. CASE Refuse /\ swapCloseLatch' = latch
    BY <1>0, <1>8, <2>1, Zenon DEF Refuse, previewVars, applyVars, SwapType
  <2>2. CASE /\ pendingConfirm' = "close" /\ swapCloseLatch' = latch
             /\ UNCHANGED <<swapOpen, swap, previewVars, applyVars>>
    BY <1>0, <1>8, <2>2, Zenon DEF previewVars, applyVars, SwapType
  <2> QED
    BY <1>2, <1>8, <2>1, <2>2, Zenon DEF RequestSwapClose, SwapType
<1>9. CASE SwapApplied \/ CloseButton \/ Escape
  <2>1. TRUE \in BOOLEAN
    OBVIOUS
  <2> QED
    BY <1>0, <1>2, <1>8, <1>9, <2>1, Zenon DEF SwapApplied, CloseButton, Escape, SwapType
<1> QED
  BY <1>3, <1>4, <1>5, <1>6, <1>7, <1>9, Zenon DEF SwapNext

LEMMA SwapTyped == WebSpec => []SwapType
<1>1. WebInit => SwapType
  <2>1. EmptySwap \in DeckSwaps
    BY SwapAssumption DEF EmptySwap, DeckSwaps, Copies
  <2>2. SwapInit => SwapType
    BY <2>1 DEF SwapInit, SwapType
  <2> QED
    BY <2>2 DEF WebInit
<1> QED
  BY <1>1, SwapTypeStep, PageSteps, PTL DEF WebSpec
(* The tags.  The server carries out no more taps than were made.           *)
Handled == {n \in DOMAIN tagOps : tagOps[n].state # "sent"}

TagsRest ==
  /\ cachedCount \in [CustomTag -> Nat]
  /\ cachedList \subseteq CustomTag /\ storedList \subseteq CustomTag
  /\ \A n \in DOMAIN tagOps :
       /\ tagOps[n].previousCount \in Nat /\ tagOps[n].counts \in [CustomTag -> Nat]
       /\ tagOps[n].at <= appliedOps
  /\ newestAnswer <= appliedOps
  /\ DOMAIN tagOps \subseteq TagOps
  /\ appliedOps <= Cardinality(Handled)

LEMMA CountsTyped ==
  ASSUME NEW tags
  PROVE  CountIn(tags) \in [CustomTag -> Nat]
<1>1. ASSUME NEW t \in CustomTag PROVE Cardinality({c \in TagCard : t \in tags[c]}) \in Nat
  BY DeckTagsAssumption, FS_Subset, FS_CardinalityType
<1> QED
  BY <1>1 DEF CountIn

LEMMA TapsFinite ==
  ASSUME TagsInv
  PROVE  /\ IsFiniteSet(DOMAIN tagOps) /\ IsFiniteSet(Handled)
         /\ Cardinality(Handled) \in Nat
<1>1. IsFiniteSet(DOMAIN tagOps)
  BY FS_Interval DEF TagsInv, TagsShape
<1> QED
  BY <1>1, FS_Subset, FS_CardinalityType DEF Handled

(* What is answered, fails or is refused was tapped before.                 *)
LEMMA TapMoves ==
  ASSUME TagsInv, TagsRest, NEW n \in DOMAIN tagOps,
         DOMAIN tagOps' = DOMAIN tagOps,
         \A m \in DOMAIN tagOps \ {n} : tagOps'[m] = tagOps[m],
         tagOps'[n].state # "sent",
         tagOps'[n].previousCount = tagOps[n].previousCount,
         tagOps'[n].counts \in [CustomTag -> Nat], tagOps'[n].at <= appliedOps',
         cachedCount' \in [CustomTag -> Nat], cachedList' \subseteq CustomTag,
         storedList' \subseteq CustomTag,
         appliedOps' \in Nat, newestAnswer' <= appliedOps',
         \/ appliedOps' = appliedOps
         \/ appliedOps' = appliedOps + 1 /\ tagOps[n].state = "sent"
  PROVE  TagsRest'
<1>1. Handled' = Handled \cup {n}
  BY DEF Handled
<1>2. /\ IsFiniteSet(Handled) /\ Cardinality(Handled) \in Nat
      /\ appliedOps \in Nat /\ appliedOps <= Cardinality(Handled)
  BY TapsFinite DEF TagsInv, TagsShape, TagsRest
<1>3. Cardinality(Handled') =
        IF n \in Handled THEN Cardinality(Handled) ELSE Cardinality(Handled) + 1
  BY <1>1, <1>2, FS_AddElement
<1>4. tagOps[n].state = "sent" => n \notin Handled
  BY DEF Handled
<1>5. appliedOps' <= Cardinality(Handled')
  BY <1>2, <1>3, <1>4
<1>6. ASSUME NEW m \in DOMAIN tagOps \ {n} PROVE tagOps[m].at <= appliedOps'
  <2>1. tagOps[m].at \in Nat /\ tagOps[m].at <= appliedOps
    BY DEF TagsInv, TagsShape, IsOp, TagsRest
  <2> QED
    BY <1>2, <2>1
<1>7. \A m \in DOMAIN tagOps' :
        /\ tagOps'[m].previousCount \in Nat /\ tagOps'[m].counts \in [CustomTag -> Nat]
        /\ tagOps'[m].at <= appliedOps'
  BY <1>6 DEF TagsRest
<1> QED
  BY <1>5, <1>7 DEF TagsRest

LEMMA TapAdds ==
  ASSUME TagsInv, TagsRest, CanTap, NEW kind \in Kinds, NEW c \in TagCard, NEW t \in CustomTag,
         Sent(NewOp(kind, c, t)), cachedCount' \in [CustomTag -> Nat],
         UNCHANGED <<cachedList, storedList, appliedOps, newestAnswer>>
  PROVE  TagsRest'
<1>1. PICK k \in Nat : DOMAIN tagOps = 1 .. k
  BY DEF TagsInv, TagsShape
<1> DEFINE op == NewOp(kind, c, t)
<1>2. IsOp(op) /\ op.state = "sent"
  BY DEF NewOp, IsOp, OpFields, TagsInv, TagsShape, Tagged
<1>3. op.previousCount \in Nat /\ op.counts \in [CustomTag -> Nat] /\ op.at = 0
  BY DEF NewOp, TagsRest
<1> HIDE DEF op
<1>4. /\ Cardinality(DOMAIN tagOps) = k
      /\ DOMAIN tagOps' = 1 .. (k + 1)
      /\ \A n \in 1 .. k :
           tagOps'[n] = IF Flying(n) THEN [tagOps[n] EXCEPT !.shared = TRUE] ELSE tagOps[n]
      /\ tagOps'[k + 1] = [op EXCEPT !.shared = ~Quiet]
  <2>1. TagsShape /\ Sent(op)
    BY DEF TagsInv, op
  <2> QED
    BY <1>1, <1>2, <2>1, TapSent
<1>5. DOMAIN tagOps' \subseteq TagOps
  BY <1>1, <1>4, DeckTagsAssumption DEF CanTap, TagOps
<1>6. \A n \in 1 .. k : /\ tagOps'[n].state = tagOps[n].state
                        /\ tagOps'[n].previousCount = tagOps[n].previousCount
                        /\ tagOps'[n].counts = tagOps[n].counts /\ tagOps'[n].at = tagOps[n].at
  <2> TAKE n \in 1 .. k
  <2>1. DOMAIN tagOps[n] = OpFields
    BY <1>1 DEF TagsInv, TagsShape, IsOp
  <2>2. CASE Flying(n)
    <3>1. tagOps'[n] = [tagOps[n] EXCEPT !.shared = TRUE]
      BY <1>4, <2>2
    <3> QED
      BY <2>1, <3>1 DEF OpFields
  <2>3. CASE ~Flying(n)
    BY <1>4, <2>3
  <2> QED
    BY <2>2, <2>3
<1>7. /\ tagOps'[k + 1].state = "sent" /\ tagOps'[k + 1].previousCount \in Nat
      /\ tagOps'[k + 1].counts \in [CustomTag -> Nat] /\ tagOps'[k + 1].at = 0
  <2>1. DOMAIN op = OpFields
    BY <1>2 DEF IsOp
  <2> QED
    BY <1>2, <1>3, <1>4, <2>1 DEF OpFields
<1>8. Handled' = Handled
  <2>1. ASSUME NEW n PROVE n \in Handled' <=> n \in Handled
    <3>1. n \in Handled' <=> n \in 1 .. (k + 1) /\ tagOps'[n].state # "sent"
      BY <1>4 DEF Handled
    <3>2. n \in Handled <=> n \in 1 .. k /\ tagOps[n].state # "sent"
      BY <1>1 DEF Handled
    <3>3. n \in 1 .. (k + 1) <=> n \in 1 .. k \/ n = k + 1
      OBVIOUS
    <3> QED
      BY <1>6, <1>7, <3>1, <3>2, <3>3
  <2> QED
    BY <2>1
<1>9. 0 <= appliedOps
  BY DEF TagsInv, TagsShape
<1>10. ASSUME NEW n \in DOMAIN tagOps'
       PROVE  /\ tagOps'[n].previousCount \in Nat /\ tagOps'[n].counts \in [CustomTag -> Nat]
              /\ tagOps'[n].at <= appliedOps
  <2>1. CASE n \in 1 .. k
    BY <1>1, <1>6, <2>1 DEF TagsRest
  <2>2. CASE n = k + 1
    BY <1>7, <1>9, <2>2
  <2> QED
    BY <1>4, <2>1, <2>2
<1> QED
  BY <1>5, <1>8, <1>10 DEF TagsRest

LEMMA TagsRestStep == TagsInv /\ TagsInv' /\ TagsRest /\ [TagsNext]_tagVars => TagsRest'
<1> SUFFICES ASSUME TagsInv, TagsInv', TagsRest, [TagsNext]_tagVars PROVE TagsRest'
  OBVIOUS
<1>1. ASSUME NEW c \in TagCard, NEW t \in CustomTag,
             AssignDeckCardTag(c, t) \/ UnassignDeckCardTag(c, t)
      PROVE  TagsRest'
  <2>1. cachedCount' \in [CustomTag -> Nat]
    <3>1. /\ cachedCount \in [CustomTag -> Nat]
          /\ cachedCount[t] + 1 \in Nat
          /\ (IF cachedCount[t] > 0 THEN cachedCount[t] - 1 ELSE 0) \in Nat
      BY DEF TagsRest
    <3> QED
      BY <1>1, <3>1 DEF AssignDeckCardTag, UnassignDeckCardTag, Optimistic
  <2>2. "assign" \in Kinds /\ "unassign" \in Kinds
    BY DEF Kinds
  <2> QED
    BY <1>1, <2>1, <2>2, TapAdds DEF AssignDeckCardTag, UnassignDeckCardTag
<1>2. ASSUME NEW t \in CustomTag, DeleteTag(CHOOSE c \in TagCard : TRUE, t) PROVE TagsRest'
  <2>1. (CHOOSE c \in TagCard : TRUE) \in TagCard /\ "delete" \in Kinds
    BY DeckTagsAssumption DEF Kinds
  <2>2. cachedCount \in [CustomTag -> Nat]
    BY DEF TagsRest
  <2> QED
    BY <1>2, <2>1, <2>2, TapAdds DEF DeleteTag
<1>3. ASSUME NEW n \in DOMAIN tagOps PROVE IsOp(tagOps[n]) /\ DOMAIN tagOps[n] = OpFields
  BY DEF TagsInv, TagsShape, IsOp
<1>4. /\ appliedOps \in Nat /\ newestAnswer \in Nat /\ newestAnswer <= appliedOps
      /\ cachedCount \in [CustomTag -> Nat]
      /\ cachedList \subseteq CustomTag /\ storedList \subseteq CustomTag
      /\ \A n \in DOMAIN tagOps :
           /\ tagOps[n].at \in Nat /\ tagOps[n].at <= appliedOps
           /\ tagOps[n].previousCount \in Nat /\ tagOps[n].counts \in [CustomTag -> Nat]
  BY <1>3 DEF TagsInv, TagsShape, TagsRest, IsOp
<1>5. ASSUME NEW n \in DOMAIN tagOps, ServerApplies(n) PROVE TagsRest'
  <2> DEFINE after == ServerTags(tagOps[n])
             op == [tagOps[n] EXCEPT !.state = "applied", !.at = appliedOps + 1,
                                     !.tags = after[tagOps[n].card], !.counts = CountIn(after)]
  <2>1. tagOps' = [tagOps EXCEPT ![n] = op] /\ tagOps[n].state = "sent"
    BY <1>5 DEF ServerApplies
  <2>2. /\ op.state = "applied" /\ op.at = appliedOps + 1 /\ op.counts = CountIn(after)
        /\ op.previousCount = tagOps[n].previousCount
    BY <1>3 DEF OpFields
  <2>3. op.counts \in [CustomTag -> Nat]
    BY <2>2, CountsTyped
  <2> HIDE DEF op
  <2>4. /\ appliedOps' = appliedOps + 1 /\ storedList' \subseteq CustomTag
        /\ UNCHANGED <<cachedCount, cachedList, newestAnswer>>
    BY <1>4, <1>5 DEF ServerApplies
  <2>5. /\ DOMAIN tagOps' = DOMAIN tagOps /\ tagOps'[n] = op
        /\ \A m \in DOMAIN tagOps \ {n} : tagOps'[m] = tagOps[m]
    BY <2>1
  <2>6. appliedOps' \in Nat /\ newestAnswer' <= appliedOps' /\ op.at <= appliedOps'
    BY <1>4, <2>2, <2>4
  <2> QED
    BY <1>4, <2>1, <2>2, <2>3, <2>4, <2>5, <2>6, TapMoves
<1>6. ASSUME NEW n \in DOMAIN tagOps, NEW s \in {"refused", "done"},
             tagOps' = [tagOps EXCEPT ![n].state = s],
             cachedCount' \in [CustomTag -> Nat], cachedList' \subseteq CustomTag,
             newestAnswer' <= appliedOps, UNCHANGED <<storedList, appliedOps>>
      PROVE  TagsRest'
  <2>1. /\ DOMAIN tagOps' = DOMAIN tagOps /\ tagOps'[n] = [tagOps[n] EXCEPT !.state = s]
        /\ \A m \in DOMAIN tagOps \ {n} : tagOps'[m] = tagOps[m]
    BY <1>6
  <2>2. /\ tagOps'[n].state # "sent" /\ tagOps'[n].at = tagOps[n].at
        /\ tagOps'[n].counts = tagOps[n].counts
        /\ tagOps'[n].previousCount = tagOps[n].previousCount
    BY <1>3, <2>1 DEF OpFields
  <2> QED
    BY <1>4, <1>6, <2>1, <2>2, TapMoves
<1>7. ASSUME NEW n \in DOMAIN tagOps, ServerRefuses(n) PROVE TagsRest'
  BY <1>4, <1>6, <1>7 DEF ServerRefuses
<1>8. ASSUME NEW n \in DOMAIN tagOps, Answered(n) PROVE TagsRest'
  <2>1. cachedCount' \in [CustomTag -> Nat] /\ cachedList' \subseteq CustomTag
    BY <1>4, <1>8 DEF Answered
  <2>2. newestAnswer' <= appliedOps
    BY <1>4, <1>8 DEF Answered
  <2> QED
    BY <1>6, <1>8, <2>1, <2>2 DEF Answered
<1>9. ASSUME NEW n \in DOMAIN tagOps, TapFailed(n) PROVE TagsRest'
  <2>1. cachedCount' \in [CustomTag -> Nat]
    BY <1>4, <1>9 DEF TapFailed
  <2> QED
    BY <1>4, <1>6, <1>9, <2>1 DEF TapFailed
<1>10. CASE UNCHANGED tagVars
  BY <1>10 DEF tagVars, TagsRest, Handled
<1> QED
  BY <1>1, <1>2, <1>5, <1>7, <1>8, <1>9, <1>10 DEF TagsNext

LEMMA TagsTyped == WebSpec => []TagsType
<1>1. WebInit => TagsRest
  <2> SUFFICES ASSUME TagsInit PROVE TagsRest
    BY DEF WebInit
  <2>1. DOMAIN tagOps = {} /\ appliedOps = 0 /\ newestAnswer = 0
        /\ cachedList = CustomTag /\ storedList = CustomTag
    BY DEF TagsInit
  <2>2. cachedCount \in [CustomTag -> Nat]
    BY CountsTyped DEF TagsInit
  <2>3. Handled = {} /\ Cardinality(Handled) = 0
    BY <2>1, FS_EmptySet DEF Handled
  <2> QED
    BY <2>1, <2>2, <2>3 DEF TagsRest
<1>2. ASSUME TagsInv, TagsRest PROVE TagsType
  <2>1. PICK k \in Nat : DOMAIN tagOps = 1 .. k
    BY <1>2 DEF TagsInv, TagsShape
  <2>2. k <= MaxTagOps /\ MaxTagOps \in Nat
    <3>1. k \in 1 .. k => k \in 1 .. MaxTagOps
      BY <1>2, <2>1 DEF TagsRest, TagOps
    <3> QED
      BY <2>1, <3>1, DeckTagsAssumption
  <2>3. Cardinality(Handled) <= k
    <3>0. 1 \in Int /\ k \in Int
      BY <2>1
    <3>1. IsFiniteSet(1 .. k) /\ Cardinality(1 .. k) = IF 1 > k THEN 0 ELSE k - 1 + 1
      BY <3>0, FS_Interval
    <3>2. Cardinality(1 .. k) = k
      BY <2>1, <3>1
    <3> QED
      BY <2>1, <3>1, <3>2, FS_Subset DEF Handled
  <2>4. appliedOps \in 0 .. MaxTagOps /\ newestAnswer \in 0 .. MaxTagOps
    <3>1. /\ appliedOps \in Nat /\ newestAnswer \in Nat
          /\ newestAnswer <= appliedOps /\ appliedOps <= Cardinality(Handled)
          /\ Cardinality(Handled) \in Nat
      BY TapsFinite, <1>2 DEF TagsInv, TagsShape, TagsRest
    <3> QED
      BY <2>2, <2>3, <3>1
  <2>5. opSeq \in [TagCard -> 0 .. MaxTagOps]
    <3>1. opSeq \in [TagCard -> Nat]
      BY <1>2 DEF TagsInv, TagsShape
    <3>2. ASSUME NEW c \in TagCard PROVE opSeq[c] \in 0 .. MaxTagOps
      <4>1. opSeq[c] # 0 => opSeq[c] \in 1 .. k
        BY <1>2, <2>1 DEF TagsInv, TagsWait
      <4> QED
        BY <2>2, <4>1
    <3> QED
      BY <3>1, <3>2
  <2>6. \A n \in DOMAIN tagOps :
          /\ tagOps[n].state \in {"sent", "applied", "refused", "done"}
          /\ tagOps[n].kind \in Kinds /\ tagOps[n].tag \in CustomTag
    BY <1>2 DEF TagsInv, TagsShape, IsOp
  <2> QED
    BY <1>2, <2>4, <2>5, <2>6 DEF TagsType, TagsInv, TagsShape, TagsRest
<1>3. TagsInv /\ TagsRest => TagsType
  BY <1>2
<1> QED
  BY <1>1, <1>3, TagsRestStep, TagsInvariant, PageSteps, PTL DEF WebSpec
(* The files of a restore.                                                  *)
RestoresRest ==
  /\ pendingZip \in Data \cup {Half, NoFile} /\ incoming \in Data \cup {NoFile}
  /\ asideFile \in Data \cup {Half, NoFile} /\ asideLog \in Log
  /\ saved \subseteq Data /\ copies \subseteq Data
  /\ ownerData \in Data \cup {Mixed}

LEMMA RestoresRestStep ==
  RestoresInv /\ RestoresRest /\ [RestoresNext]_restoreVars => RestoresRest'
<1> SUFFICES ASSUME RestoresInv, RestoresRest, [RestoresNext]_restoreVars PROVE RestoresRest'
  OBVIOUS
<1>0. /\ database \in Data \cup {Half} /\ walLog \in Log
      /\ changes \in Data /\ backups \subseteq Data
  BY DEF RestoresInv, RestoresTyped
<1>1. CASE Change
  BY <1>0, <1>1, FileValues DEF Change, RestoresRest, copyVars
<1>2. CASE Checkpoint \/ BackUp \/ RemoveLog \/ PutInPlace
  BY <1>2 DEF Checkpoint, BackUp, RemoveLog, PutInPlace, RestoresRest, copyVars
<1>3. CASE EndStaging
  BY <1>3 DEF EndStaging, RestoresRest, copyVars
<1>4. ASSUME NEW b \in backups, BeginStaging(b) \/ RestoreByHand(b) PROVE RestoresRest'
  <2>1. b \in Data
    BY <1>0
  <2> QED
    BY <1>4, <2>1 DEF BeginStaging, RestoreByHand, RestoresRest, copyVars
<1>5. CASE ApplyPending
  BY <1>5 DEF ApplyPending, RestoresRest, copyVars
<1>6. CASE BeginCopy \/ CopyFile \/ CopyLog
  BY <1>0, <1>6 DEF BeginCopy, CopyFile, CopyLog, aroundCopy, Foreign, Log, RestoresRest, copyVars
<1>7. CASE BeginPlacing
  BY <1>7 DEF BeginPlacing, RestoresRest, copyVars
<1>8. CASE FinishRestore
  BY <1>8 DEF FinishRestore, RestoresRest, copyVars
<1>9. CASE Open
  <2>1. Has \in Data \cup {Half, Mixed}
    BY <1>0, FileValues DEF Has, ReadBack, Log
  <2> QED
    BY <1>9, <2>1 DEF Open, RestoresRest, copyVars
<1>10. CASE StopServer
  BY <1>10 DEF StopServer, RestoresRest, copyVars
<1>11. CASE UNCHANGED restoreVars
  BY <1>11 DEF restoreVars, copyVars, RestoresRest
<1> QED
  BY <1>1, <1>2, <1>3, <1>4, <1>5, <1>6, <1>7, <1>8, <1>9, <1>10, <1>11 DEF RestoresNext

LEMMA RestoresTypes == AppSpec => []RestoresType
<1>1. AppInit => RestoresRest
  <2> SUFFICES ASSUME RestoresInit PROVE RestoresRest
    BY DEF AppInit
  <2>1. 0 \in Data
    BY RestoreAssumption DEF Data
  <2> QED
    BY <2>1 DEF RestoresInit, RestoresRest, Log
<1>2. RestoresInv /\ RestoresRest => RestoresType
  <2> SUFFICES ASSUME RestoresInv, RestoresRest PROVE RestoresType
    OBVIOUS
  <2>1. RestoresTyped
    BY DEF RestoresInv
  <2> QED
    BY <2>1 DEF RestoresRest, RestoresTyped, RestoreSteps, RestoresType
<1> QED
  BY <1>1, <1>2, RestoresRestStep, RestoresInvariant, FileSteps, PTL DEF AppSpec

(* The backups' tick.  It is never queued again with its starts used up.    *)
TickTyped == BackupType /\ (tick.state = "queued" => tick.attempt < MaxStarts)

LEMMA TickStep == TickTyped /\ [BackupNext]_backupVars => TickTyped'
<1> SUFFICES ASSUME TickTyped, [BackupNext]_backupVars PROVE TickTyped'
  OBVIOUS
<1> DEFINE Ticks == [state : {"none", "queued", "running"}, minute : 0 .. MaxMinute,
                     runAt : 0 .. MaxMinute + 1, attempt : 0 .. MaxStarts]
           Startable(t) == t.state = "queued" => t.attempt < MaxStarts
<1>0. /\ MaxMinute \in Nat /\ MaxAttempts \in Nat \ {0} /\ MaxStarts \in Nat
      /\ MaxAttempts <= MaxStarts
  BY BackupAssumption DEF MaxStarts
<1>1. /\ minute \in 0 .. MaxMinute /\ tick \in Ticks /\ backedUp \subseteq 0 .. MaxMinute
      /\ Startable(tick)
  BY DEF TickTyped, BackupType
<1> SUFFICES /\ minute' \in 0 .. MaxMinute /\ tick' \in Ticks /\ backedUp' \subseteq 0 .. MaxMinute
             /\ Startable(tick')
  BY DEF TickTyped, BackupType
<1>2. NoTick \in Ticks /\ Startable(NoTick)
  BY <1>0 DEF NoTick
<1>3. ASSUME NEW r \in 0 .. MaxMinute + 1, tick.attempt < MaxStarts,
             NEW t, t = [tick EXCEPT !.state = "queued", !.runAt = r]
      PROVE  t \in Ticks /\ Startable(t)
  <2>1. t.state = "queued" /\ t.attempt = tick.attempt
    BY <1>1, <1>3
  <2>2. t \in Ticks
    BY <1>1, <1>3
  <2> QED
    BY <1>3, <2>1, <2>2
<1>4. ASSUME NEW t \in Postponed PROVE t \in Ticks /\ Startable(t)
  <2>1. CASE tick.attempt >= MaxAttempts
    BY <1>2, <2>1 DEF Postponed
  <2>2. CASE ~(tick.attempt >= MaxAttempts)
    <3>1. PICK r \in {minute, minute + 1} : t = [tick EXCEPT !.state = "queued", !.runAt = r]
      BY <2>2 DEF Postponed
    <3>2. r \in 0 .. MaxMinute + 1
      BY <1>0, <1>1
    <3>3. tick.attempt \in 0 .. MaxStarts
      BY <1>1
    <3>4. tick.attempt < MaxStarts
      BY <1>0, <2>2, <3>3
    <3> QED
      BY <1>3, <3>1, <3>2, <3>4
  <2> QED
    BY <2>1, <2>2
<1>5. CASE NextMinute
  <2>1. minute' = minute + 1 /\ minute' \in 0 .. MaxMinute
    BY <1>0, <1>1, <1>5 DEF NextMinute
  <2>2. CASE tick = NoTick
    <3>1. tick' = [state |-> "queued", minute |-> minute', runAt |-> minute', attempt |-> 0]
      BY <1>5, <2>2 DEF NextMinute
    <3> QED
      BY <1>0, <1>1, <1>5, <2>1, <3>1 DEF NextMinute
  <2>3. CASE tick # NoTick
    BY <1>1, <1>5, <2>1, <2>3 DEF NextMinute
  <2> QED
    BY <2>2, <2>3
<1>6. CASE ClaimTick
  <2>1. tick.attempt \in 0 .. MaxStarts /\ tick.attempt < MaxStarts
    BY <1>1, <1>6 DEF ClaimTick
  <2>2. tick.attempt + 1 \in 0 .. MaxStarts
    BY <1>0, <2>1
  <2>3. tick' = [tick EXCEPT !.state = "running", !.attempt = tick.attempt + 1]
    BY <1>6 DEF ClaimTick
  <2>4. tick' \in Ticks
    BY <1>1, <2>2, <2>3
  <2>5. tick'.state = "running"
    BY <1>1, <2>3
  <2> QED
    BY <1>1, <1>6, <2>4, <2>5 DEF ClaimTick
<1>7. CASE NothingDue
  BY <1>1, <1>2, <1>7 DEF NothingDue
<1>8. CASE TakeBackup
  <2>1. tick' \in Ticks /\ Startable(tick')
    BY <1>2, <1>4, <1>8 DEF TakeBackup
  <2>2. tick.minute \in 0 .. MaxMinute
    BY <1>1
  <2> QED
    BY <1>1, <1>8, <2>1, <2>2 DEF TakeBackup
<1>9. CASE TickFails
  BY <1>1, <1>4, <1>9 DEF TickFails
<1>10. CASE RestartTick
  <2>1. minute \in 0 .. MaxMinute + 1
    BY <1>0, <1>1
  <2> QED
    BY <1>1, <1>10, <1>3, <2>1 DEF RestartTick
<1>11. CASE UNCHANGED backupVars
  BY <1>1, <1>11 DEF backupVars
<1> QED
  BY <1>5, <1>6, <1>7, <1>8, <1>9, <1>10, <1>11 DEF BackupNext

LEMMA BackupTyped == AppSpec => []BackupType
<1>1. AppInit => TickTyped
  <2> SUFFICES ASSUME BackupInit PROVE TickTyped
    BY DEF AppInit
  <2>1. MaxMinute \in Nat /\ MaxStarts \in Nat
    BY BackupAssumption DEF MaxStarts
  <2> QED
    BY <2>1 DEF BackupInit, NoTick, TickTyped, BackupType
<1>2. TickTyped => BackupType
  BY DEF TickTyped
<1> QED
  BY <1>1, <1>2, TickStep, FileSteps, PTL DEF AppSpec

PartKnown == side \in Sides /\ followed \in Parts

(* Every part of the web frontend, and of the server's part that keeps      *)
(* files, has its types: among the pages' the frames the scanner asks for,  *)
(* the import dialog's rows, the list that is pulled, what a swap stages    *)
(* and how often the server carried out a tap; among the server's the files *)
(* a restore leaves and the attempts of a tick, however often the server    *)
(* stops between them.                                                      *)
THEOREM AllTyped == AppSpec => []AppTypeOK
<1>1. AppInit => PartKnown
  BY DEF AppInit, WebInit, PartKnown
<1>2. PartKnown /\ [AppNext]_appVars => PartKnown'
  BY DEF PartKnown, AppNext, appVars, webVars, FollowWeb, FollowBundles, FollowPictures, FollowRestores,
         FollowBackups, WebNext, FollowDevice, FollowFrames, FollowLock, FollowList,
         FollowImport, FollowShared, FollowPull, FollowSwap, FollowTags
<1>3. AppSpec => []PartKnown
  BY <1>1, <1>2, PTL DEF AppSpec
<1>4. DeviceInv => DeviceType
  BY DEF DeviceInv
<1>5. PartKnown /\ DeviceInv /\ FramesType /\ LockType /\ ListType /\ ImportType
      /\ SharedType /\ PullInv /\ SwapType /\ TagsType
        => WebTypeOK
  BY <1>4, PullTypes, Zenon DEF PartKnown, WebTypeOK
<1>6. BundlesInv => BundlesType
  BY DEF BundlesInv, BundlesTyped, BundlesType
<1>7. PicturesInv => PicturesType
  BY DEF PicturesInv
<1>8. PartKnown /\ WebTypeOK /\ BundlesType /\ PicturesType /\ RestoresType /\ BackupType
        => AppTypeOK
  BY DEF PartKnown, AppTypeOK
<1> QED
  BY <1>3, <1>5, <1>6, <1>7, <1>8, WebPart, DeviceSafe, FramesTyped, LockTyped, ListTyped,
     ImportTyped, SharedTypes, PullInvariant, SwapTyped, TagsTyped, BundlesInvariant,
     PicturesInvariant, RestoresTypes, BackupTyped, PTL
=============================================================================
