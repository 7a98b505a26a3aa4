---------------------------- MODULE ImportDialog ----------------------------
(***************************************************************************)
(* The collection's import dialog                                          *)
(* (pages/collection/import/use-collection-import.ts).  A list is pasted,  *)
(* read from a file or shared with the app; the server previews its rows;  *)
(* the user picks among the candidates of an ambiguous row, may look at    *)
(* where auto-sort would put the cards, and imports.  Files and the server *)
(* answer after the user may have changed the list or its pricing.         *)
(*                                                                         *)
(* A list is one value, rows are told apart by whether the user picked a   *)
(* candidate, and a purchase mode and its amount are one pricing.  The     *)
(* format and the location are left out: changing one leaves the rows of   *)
(* the earlier choice to be committed (`update`, line 193).  So are        *)
(* messages, the set-up of auto-sort rules and lists without an exact row, *)
(* which nobody can import.                                                *)
(***************************************************************************)
EXTENDS Naturals, FiniteSets

CONSTANTS
  ImportList, NoList,   \* texts of lists, and the empty text
  PreviewCall, NoCall   \* previews the server may be asked for at a time (bound)

ASSUME ImportAssumption ==
  NoList \notin ImportList /\ PreviewCall \subseteq Nat /\ NoCall \notin PreviewCall

Pricing == {"per card", "total spend", "no amount"}

VARIABLES
  importOpen,
  importText,
  pricing,        \* purchaseMode and purchasePrice
  preview,        \* the rows shown
  summary,        \* autoSortPreview: the rows it was computed for
  closeRequested, \* the dialog passed on a request to close it
  fileReads,      \* lists that are being read from a file
  previewCalls,   \* previews the server was asked for
  newestCall,     \* the one whose loading flag the dialog watches
  sortCall,       \* the rows the server computes the auto-sort of
  commits,        \* commits under way
  commitPendingAutoSort  \* the last one sorts

importVars == <<importOpen, importText, pricing, preview, summary, closeRequested, fileReads,
                previewCalls, newestCall, sortCall, commits, commitPendingAutoSort>>

(* `late` is history: the list, its pricing or, for auto-sort, the rows     *)
(* changed after the server was asked.                                      *)
Rows ==
  [list : ImportList, pricing : Pricing, picked : BOOLEAN, late : BOOLEAN]

NoRows == [list |-> NoList, pricing |-> "no amount", picked |-> FALSE, late |-> FALSE]

ImportType ==
  /\ {importOpen, closeRequested, commitPendingAutoSort} \subseteq BOOLEAN
  /\ importText \in ImportList \cup {NoList}
  /\ pricing \in Pricing
  /\ {preview, summary, sortCall} \subseteq Rows \cup {NoRows}
  /\ fileReads \subseteq ImportList
  /\ previewCalls \in [PreviewCall -> Rows \cup {NoRows}]
  /\ newestCall \in PreviewCall \cup {NoCall}
  /\ commits \in 0 .. 2

ImportInit ==
  /\ importOpen = FALSE /\ closeRequested = FALSE
  /\ importText = NoList
  /\ pricing = "per card"
  /\ preview = NoRows /\ summary = NoRows /\ sortCall = NoRows
  /\ fileReads = {}
  /\ previewCalls = [c \in PreviewCall |-> NoRows]
  /\ newestCall = NoCall
  /\ commits = 0 /\ commitPendingAutoSort = FALSE

-----------------------------------------------------------------------------
(* What late rows were priced by and whether they were picked is forgotten. *)
Late(rows) == IF rows = NoRows THEN NoRows
              ELSE [rows EXCEPT !.late = TRUE, !.pricing = "no amount", !.picked = FALSE]
LateCalls == [c \in PreviewCall |-> Late(previewCalls[c])]

(* The user may use the dialog, which another one does not cover.           *)
AtDialog == importOpen /\ summary = NoRows

PreviewLoading == newestCall # NoCall
Loading == PreviewLoading \/ sortCall # NoRows \/ commits > 0

NextCall(c) ==
  previewCalls[c] = NoRows /\ \A d \in PreviewCall : previewCalls[d] = NoRows => c <= d

(* previewImport: an amount that is none asks for nothing.                  *)
AskPreview(list, calls) ==
  IF pricing = "no amount" THEN previewCalls' = calls /\ UNCHANGED newestCall
  ELSE \E c \in PreviewCall :
         /\ NextCall(c)
         /\ previewCalls' = [calls EXCEPT ![c] = [list |-> list, pricing |-> pricing,
                                                  picked |-> FALSE, late |-> FALSE]]
         /\ newestCall' = c

(* The reducer's "source".                                                  *)
SetSource(list) ==
  /\ importText' = list
  /\ preview' = NoRows /\ summary' = NoRows
  /\ sortCall' = Late(sortCall)

OpenImport ==
  /\ ~importOpen
  /\ importOpen' = TRUE
  /\ UNCHANGED <<importText, pricing, preview, summary, closeRequested, fileReads,
                 previewCalls, newestCall, sortCall, commits, commitPendingAutoSort>>

(* A list is shared with the app: the dialog opens, or takes it in place of *)
(* the one it has, and asks for its preview at once.                        *)
ShareList(list) ==
  /\ importOpen' = TRUE
  /\ SetSource(list)
  /\ AskPreview(list, LateCalls)
  /\ UNCHANGED <<pricing, closeRequested, fileReads, commits, commitPendingAutoSort>>

(* Seeded fault: the rows of the text before stay on the page.              *)
KeptRows(rows) == rows

(* update: the preview is of another text or pricing.                       *)
Invalidated(rows) == NoRows

Update ==
  /\ preview' = Invalidated(preview)
  /\ summary' = NoRows
  /\ previewCalls' = LateCalls
  /\ sortCall' = Late(sortCall)
  /\ UNCHANGED <<importOpen, closeRequested, fileReads, newestCall, commits,
                 commitPendingAutoSort>>

EditText ==
  /\ AtDialog
  /\ importText' \in (ImportList \cup {NoList}) \ {importText}
  /\ UNCHANGED pricing
  /\ Update

EditPricing ==
  /\ AtDialog
  /\ pricing' \in Pricing \ {pricing}
  /\ UNCHANGED importText
  /\ Update

(* chooseFile: the text is the file's once it has been read - one file at a *)
(* time (bound).                                                            *)
ChooseFile(list) ==
  /\ AtDialog /\ fileReads = {}
  /\ fileReads' = {list}
  /\ UNCHANGED <<importOpen, importText, pricing, preview, summary, closeRequested,
                 previewCalls, newestCall, sortCall, commits, commitPendingAutoSort>>

FileRead(list) ==
  /\ list \in fileReads
  /\ fileReads' = fileReads \ {list}
  /\ SetSource(list)
  /\ previewCalls' = LateCalls
  /\ UNCHANGED <<importOpen, pricing, closeRequested, newestCall, commits, commitPendingAutoSort>>

SubmitPreview ==
  /\ AtDialog /\ ~PreviewLoading /\ importText # NoList
  /\ AskPreview(importText, previewCalls)
  /\ UNCHANGED <<importOpen, importText, pricing, preview, summary, closeRequested, fileReads,
                 sortCall, commits, commitPendingAutoSort>>

-----------------------------------------------------------------------------
(* onCompleted, onError of a preview; the dialog watches the newest only.   *)
CallEnds(c) ==
  /\ previewCalls[c] # NoRows
  /\ previewCalls' = [previewCalls EXCEPT ![c] = NoRows]
  /\ newestCall' = IF newestCall = c THEN NoCall ELSE newestCall
  /\ UNCHANGED <<importOpen, importText, pricing, closeRequested, fileReads, commits,
                 commitPendingAutoSort>>

Previewed(c) ==
  /\ CallEnds(c)
  /\ preview' = previewCalls[c]
  /\ summary' = NoRows
  /\ sortCall' = Late(sortCall)

PreviewFailed(c) == CallEnds(c) /\ UNCHANGED <<preview, summary, sortCall>>

(* Rows that share one spending are priced again by what is entered now.    *)
SelectCandidate ==
  /\ AtDialog /\ preview # NoRows
  /\ preview' = [preview EXCEPT !.picked = TRUE,
                                !.pricing = IF pricing = "total spend" THEN pricing ELSE @]
  /\ sortCall' = Late(sortCall)
  /\ UNCHANGED <<importOpen, importText, pricing, summary, closeRequested, fileReads,
                 previewCalls, newestCall, commits, commitPendingAutoSort>>

-----------------------------------------------------------------------------
(* The buttons under the preview.                                           *)
Enabled == preview # NoRows /\ sortCall = NoRows /\ commits = 0

PreviewAutoSort ==
  /\ AtDialog /\ Enabled
  /\ sortCall' = [preview EXCEPT !.late = FALSE]
  /\ UNCHANGED <<importOpen, importText, pricing, preview, summary, closeRequested, fileReads,
                 previewCalls, newestCall, commits, commitPendingAutoSort>>

AutoSortAnswered ==
  /\ sortCall # NoRows
  /\ summary' \in {sortCall, summary}
  /\ sortCall' = NoRows
  /\ UNCHANGED <<importOpen, importText, pricing, preview, closeRequested, fileReads,
                 previewCalls, newestCall, commits, commitPendingAutoSort>>

DismissSummary ==
  /\ summary # NoRows
  /\ summary' = NoRows
  /\ UNCHANGED <<importOpen, importText, pricing, preview, closeRequested, fileReads,
                 previewCalls, newestCall, sortCall, commits, commitPendingAutoSort>>

(* commit: of the rows shown, from the dialog or, unless such a commit is   *)
(* pending already, from the summary of auto-sort.                          *)
Commit(autoSort) ==
  /\ IF autoSort THEN summary # NoRows /\ preview # NoRows /\ ~commitPendingAutoSort
     ELSE AtDialog /\ Enabled
  /\ commits < 2
  /\ commits' = commits + 1
  /\ commitPendingAutoSort' = autoSort
  /\ UNCHANGED <<importOpen, importText, pricing, preview, summary, closeRequested, fileReads,
                 previewCalls, newestCall, sortCall>>

-----------------------------------------------------------------------------
Reset ==
  /\ importOpen' = FALSE /\ closeRequested' = FALSE /\ commitPendingAutoSort' = FALSE
  /\ importText' = NoList /\ pricing' = "per card"
  /\ preview' = NoRows /\ summary' = NoRows
  /\ previewCalls' = LateCalls
  /\ sortCall' = Late(sortCall)
  /\ UNCHANGED <<fileReads, newestCall>>

(* The dialog closes, with whatever list it has by now.                     *)
Committed ==
  /\ commits > 0
  /\ commits' = commits - 1
  /\ Reset

CommitFailed ==
  /\ commits > 0
  /\ commits' = commits - 1
  /\ commitPendingAutoSort' = FALSE
  /\ UNCHANGED <<importOpen, importText, pricing, preview, summary, closeRequested, fileReads,
                 previewCalls, newestCall, sortCall>>

(* Cancel and the cross: nothing while the server is asked for something.   *)
CloseImport == AtDialog /\ ~Loading /\ Reset /\ UNCHANGED commits

(* Escape, the backdrop and the Back button, once until the dialog closes:  *)
(* a request that was refused is not made again.                            *)
RequestClose ==
  /\ AtDialog /\ ~closeRequested
  /\ IF Loading
     THEN /\ closeRequested' = TRUE
          /\ UNCHANGED <<importOpen, importText, pricing, preview, summary, fileReads,
                         previewCalls, newestCall, sortCall, commitPendingAutoSort>>
     ELSE Reset
  /\ UNCHANGED commits

ImportNext ==
  \/ OpenImport \/ EditText \/ EditPricing \/ SubmitPreview \/ SelectCandidate
  \/ PreviewAutoSort \/ AutoSortAnswered \/ DismissSummary
  \/ Commit(FALSE) \/ Commit(TRUE) \/ Committed \/ CommitFailed \/ CloseImport \/ RequestClose
  \/ \E c \in PreviewCall : Previewed(c) \/ PreviewFailed(c)
  \/ \E list \in ImportList : ShareList(list) \/ ChooseFile(list) \/ FileRead(list)

-----------------------------------------------------------------------------
(* What is imported is what the dialog says: the rows shown, and the rows   *)
(* the auto-sort summary was computed for, are of the text and the pricing  *)
(* entered, unless these changed while the server was working on them (a    *)
(* late answer is not compared with them).                                  *)
RowsOfText ==
  /\ preview # NoRows /\ ~preview.late =>
       preview.list = importText /\ preview.pricing = pricing
  /\ summary # NoRows /\ ~summary.late => summary = [preview EXCEPT !.late = FALSE]

(* A list is not imported twice over: one commit is under way at a time,    *)
(* although the buttons are in two dialogs and lists may arrive meanwhile.  *)
OneCommit == commits <= 1

(* An import commits, once, the rows the dialog shows for the text and the  *)
(* pricing; that they are for the chosen format and location is not said.   *)
CommitsWhatIsShown == RowsOfText /\ OneCommit
=============================================================================
