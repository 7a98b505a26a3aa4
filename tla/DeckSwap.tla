------------------------------ MODULE DeckSwap ------------------------------
(***************************************************************************)
(* The Swap cards workbench (pages/decks/deck-swap-model.ts and its        *)
(* dialog, ledger and chat): cards to cut and to add are staged, the       *)
(* server's legality verdict on the staged swap follows with a delay, and  *)
(* the swap is applied as a whole.                                         *)
(*                                                                         *)
(* The deck does not change under the open dialog.  The order of the       *)
(* staged lists is left out; a card or a name is staged at most once.      *)
(***************************************************************************)
EXTENDS Naturals

CONSTANTS
  CutCard,         \* the mainboard's deck cards
  ConsideringCard, \* the deck cards of the Considering board
  SwapName,        \* names a search, or the assistant, may come up with
  ConsideringOf,   \* for each name, its card on the Considering board or NoConsidering
  InMainboard,     \* names of the mainboard
  MaxSwapCopies,   \* bound: copies of a deck card, and copies added by name
  NoConsidering

ASSUME SwapAssumption ==
  /\ ConsideringOf \in [SwapName -> ConsideringCard \cup {NoConsidering}]
  /\ NoConsidering \notin ConsideringCard /\ InMainboard \subseteq SwapName
  /\ MaxSwapCopies \in Nat \ {0}

Copies == 0 .. MaxSwapCopies

(* Staged copies; 0 is not staged.                                          *)
DeckSwaps == [cuts        : [CutCard -> Copies],
              toBoard     : [CutCard -> BOOLEAN],   \* cut to Considering
              considering : [ConsideringCard -> Copies],
              search      : [SwapName -> Copies]]

EmptySwap == [cuts        |-> [c \in CutCard |-> 0],
              toBoard     |-> [c \in CutCard |-> FALSE],
              considering |-> [c \in ConsideringCard |-> 0],
              search      |-> [n \in SwapName |-> 0]]

VARIABLES
  swapOpen,
  swap,             \* what is staged
  debouncedSwap,    \* what the server was asked about last
  settled,          \* no edit since
  previewing,       \* its answer is awaited
  previewError,
  previewData,      \* the swap of the answer to the current question
  previousData,     \* the swap of the last answer before it
  pendingConfirm,   \* the question whether to discard
  applying,         \* the staged swap was sent to the server
  applyError,
  swapCloseLatch    \* Dialog.closeRequested

previewVars == <<debouncedSwap, settled, previewing, previewError, previewData, previousData>>
applyVars   == <<applying, applyError>>
swapVars    == <<swapOpen, swap, previewVars, pendingConfirm, applyVars, swapCloseLatch>>

NoSwap == [none |-> TRUE]

SwapType ==
  /\ {swapOpen, settled, previewing, previewError} \subseteq BOOLEAN
  /\ {applying, applyError, swapCloseLatch} \subseteq BOOLEAN
  /\ {swap, debouncedSwap} \subseteq DeckSwaps
  /\ {previewData, previousData} \subseteq DeckSwaps \cup {NoSwap}
  /\ pendingConfirm \in {"no", "clear", "close"}

SwapClosed ==
  /\ swapOpen' = FALSE /\ swap' = EmptySwap
  /\ debouncedSwap' = EmptySwap /\ settled' = TRUE
  /\ previewing' = FALSE /\ previewError' = FALSE
  /\ previewData' = NoSwap /\ previousData' = NoSwap
  /\ pendingConfirm' = "no" /\ applying' = FALSE /\ applyError' = FALSE
  /\ swapCloseLatch' = FALSE

SwapInit ==
  /\ swapOpen = FALSE /\ swap = EmptySwap
  /\ debouncedSwap = EmptySwap /\ settled = TRUE
  /\ previewing = FALSE /\ previewError = FALSE
  /\ previewData = NoSwap /\ previousData = NoSwap
  /\ pendingConfirm = "no" /\ applying = FALSE /\ applyError = FALSE
  /\ swapCloseLatch = FALSE

OpenSwap ==
  /\ ~swapOpen /\ swapOpen' = TRUE
  /\ UNCHANGED <<swap, previewVars, pendingConfirm, applyVars, swapCloseLatch>>

-----------------------------------------------------------------------------
(* deckSwapReducer, one operator per kind of action.                        *)
ToggleCut(s, c) ==
  IF s.cuts[c] > 0 THEN [s EXCEPT !.cuts[c] = 0, !.toBoard[c] = FALSE] ELSE [s EXCEPT !.cuts[c] = 1]

SetCutQuantity(s, c, n) ==
  IF n = 0 THEN [s EXCEPT !.cuts[c] = 0, !.toBoard[c] = FALSE] ELSE [s EXCEPT !.cuts[c] = n]

ToggleConsidering(s, c) == [s EXCEPT !.considering[c] = IF @ > 0 THEN 0 ELSE 1]

AddByName(s, n) == [s EXCEPT !.search[n] = @ + 1]

(* stageSearchedCardAction: a name on the Considering board stands for its  *)
(* card there - and takes it off the list when it is staged already.        *)
StageSearched(s, n) ==
  IF ConsideringOf[n] # NoConsidering THEN ToggleConsidering(s, ConsideringOf[n]) ELSE AddByName(s, n)

(* addChip of the assistant: staged is taken back, a card the mainboard has *)
(* is not offered.                                                          *)
AddStaged(s, n) ==
  IF ConsideringOf[n] # NoConsidering THEN s.considering[ConsideringOf[n]] > 0 ELSE s.search[n] > 0

AddChip(s, n) ==
  IF ConsideringOf[n] # NoConsidering THEN ToggleConsidering(s, ConsideringOf[n])
  ELSE IF s.search[n] > 0 THEN [s EXCEPT !.search[n] = 0] ELSE AddByName(s, n)

(* What one tap or step of a counter makes of the staged swap.              *)
Edits(s) ==
  {ToggleCut(s, c) : c \in CutCard}
  \cup {SetCutQuantity(s, x[1], x[2]) :
          x \in {y \in CutCard \X Copies : s.cuts[y[1]] > 0
                                           /\ y[2] \in {s.cuts[y[1]] + 1, s.cuts[y[1]] - 1}}}
  \cup {[s EXCEPT !.toBoard[c] = ~@] : c \in {d \in CutCard : s.cuts[d] > 0}}
  \cup {ToggleConsidering(s, c) : c \in ConsideringCard}
  \cup {[s EXCEPT !.considering[x[1]] = x[2]] :
          x \in {y \in ConsideringCard \X Copies :
                   s.considering[y[1]] > 0
                   /\ y[2] \in {s.considering[y[1]] + 1, s.considering[y[1]] - 1}}}
  \cup {[s EXCEPT !.search[x[1]] = x[2]] :
          x \in {y \in SwapName \X Copies :
                   s.search[y[1]] > 0 /\ y[2] \in {s.search[y[1]] + 1, s.search[y[1]] - 1}}}
  \cup {StageSearched(s, n) : n \in {m \in SwapName : s.search[m] < MaxSwapCopies}}
  \cup {AddChip(s, n) : n \in {m \in SwapName : AddStaged(s, m) \/ m \notin InMainboard}}

Usable == swapOpen /\ pendingConfirm = "no"

(* dispatch.  The panels stay usable while the swap is applied.             *)
Edit ==
  /\ Usable
  /\ \E s \in Edits(swap) \ {swap} : swap' = s
  /\ settled' = FALSE
  /\ UNCHANGED <<swapOpen, debouncedSwap, previewing, previewError, previewData, previousData,
                 pendingConfirm, applyVars, swapCloseLatch>>

-----------------------------------------------------------------------------
(* useDebouncedValue and the preview query: a new question drops the answer *)
(* to the one before, which stays as the previous data; nothing is asked    *)
(* about an empty swap.                                                     *)
Debounce ==
  /\ swapOpen /\ ~settled
  /\ settled' = TRUE
  /\ debouncedSwap' = swap
  /\ IF debouncedSwap = swap
     THEN UNCHANGED <<previewing, previewError, previewData, previousData>>
     ELSE /\ previewing' = (swap # EmptySwap)
          /\ previewError' = FALSE
          /\ previewData' = NoSwap
          /\ previousData' = IF previewData # NoSwap THEN previewData ELSE previousData
  /\ UNCHANGED <<swapOpen, swap, pendingConfirm, applyVars, swapCloseLatch>>

(* The client passes on the answer to the current question only.            *)
AnswerPreview ==
  /\ previewing
  /\ previewing' = FALSE
  /\ \/ previewData' = debouncedSwap /\ UNCHANGED previewError
     \/ previewError' = TRUE /\ UNCHANGED previewData
  /\ UNCHANGED <<swapOpen, swap, debouncedSwap, settled, previousData, pendingConfirm, applyVars,
                 swapCloseLatch>>

(* useSwapLegality.  Seeded fault: only a running query makes it stale.     *)
LoadingOnly(s) == previewing
Stale(s) == previewing \/ ~settled

Verdict == IF previewData # NoSwap THEN previewData ELSE previousData

Legality ==
  IF swap = EmptySwap THEN "current"
  ELSE IF previewError /\ ~Stale(swap) THEN "error"
  ELSE IF Verdict = NoSwap THEN "checking"
  ELSE IF Stale(swap) THEN "stale" ELSE "preview"

-----------------------------------------------------------------------------
ApplySwap ==
  /\ Usable /\ swap # EmptySwap /\ ~applying
  /\ applying' = TRUE /\ applyError' = FALSE
  /\ UNCHANGED <<swapOpen, swap, previewVars, pendingConfirm, swapCloseLatch>>

(* Success closes the dialog with whatever was staged meanwhile.            *)
SwapApplied == applying /\ SwapClosed

SwapFails ==
  /\ applying
  /\ applying' = FALSE /\ applyError' = TRUE
  /\ UNCHANGED <<swapOpen, swap, previewVars, pendingConfirm, swapCloseLatch>>

(* requestClose, from the button or through Dialog (Escape, backdrop, Back) *)
(* which asks once and not again before the dialog was closed.              *)
Refuse == UNCHANGED <<swapOpen, swap, previewVars, pendingConfirm, applyVars>>

RequestSwapClose(latch) ==
  \/ applying /\ Refuse /\ swapCloseLatch' = latch
  \/ ~applying /\ swap = EmptySwap /\ SwapClosed
  \/ /\ ~applying /\ swap # EmptySwap
     /\ pendingConfirm' = "close" /\ swapCloseLatch' = latch
     /\ UNCHANGED <<swapOpen, swap, previewVars, applyVars>>

CloseButton == Usable /\ RequestSwapClose(swapCloseLatch)
Escape      == Usable /\ ~swapCloseLatch /\ RequestSwapClose(TRUE)

Discard ==
  /\ Usable /\ swap # EmptySwap /\ ~applying
  /\ pendingConfirm' = "clear"
  /\ UNCHANGED <<swapOpen, swap, previewVars, applyVars, swapCloseLatch>>

KeepEditing ==
  /\ pendingConfirm # "no" /\ pendingConfirm' = "no"
  /\ UNCHANGED <<swapOpen, swap, previewVars, applyVars, swapCloseLatch>>

ConfirmDiscard ==
  \/ pendingConfirm = "close" /\ SwapClosed
  \/ /\ pendingConfirm = "clear" /\ pendingConfirm' = "no"
     /\ swap' = EmptySwap /\ settled' = FALSE /\ applyError' = FALSE
     /\ UNCHANGED <<swapOpen, debouncedSwap, previewing, previewError, previewData, previousData,
                    applying, swapCloseLatch>>

SwapNext ==
  \/ OpenSwap \/ Edit \/ Debounce \/ AnswerPreview \/ ApplySwap \/ SwapApplied \/ SwapFails
  \/ CloseButton \/ Escape \/ Discard \/ KeepEditing \/ ConfirmDiscard

-----------------------------------------------------------------------------
(* A verdict that is not marked stale is the verdict on what is staged now, *)
(* whatever was edited, undone or asked since; so is a failed check.        *)
VerdictIsCurrent ==
  /\ Legality = "preview" => Verdict = swap
  /\ Legality = "error" => debouncedSwap = swap
=============================================================================
