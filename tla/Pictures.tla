------------------------------ MODULE Pictures ------------------------------
(***************************************************************************)
(* The pictures of shared decks (manavault-share, preview/artifact_store.rs*)
(* and preview/render_worker.rs): renders run beside each other on a queue *)
(* of the jobs, share one directory, and any of them may be cut short by   *)
(* a failure, its timeout or the end of the process.                       *)
(*                                                                         *)
(* A render is one attempt of a job; attempts after a failure are further  *)
(* renders.  Waiting for a render and the notices to those who wait are    *)
(* left out: whoever asks reads the directory.  Which of two files is the  *)
(* older is left out too: a listing takes any of the right number.         *)
(***************************************************************************)
EXTENDS Naturals, FiniteSets

CONSTANTS
  Picture,       \* fingerprints
  RenderSlot,    \* slots of the queue
  MaxArtifacts,  \* pictures that are kept
  NoPicture

ASSUME PictureAssumption ==
  /\ NoPicture \notin Picture
  /\ MaxArtifacts \in Nat \ {0}
  /\ IsFiniteSet(RenderSlot)

VARIABLES
  shelf,      \* the completed files
  unfinished, \* history: completed files that do not hold a whole picture
  temporary,  \* the temporary file of each render
  renders     \* the render in each slot

pictureVars == <<shelf, unfinished, temporary, renders>>

NoRender == [step |-> "idle", picture |-> NoPicture, listed |-> {}]

RenderStep == {"idle", "prepared", "tidying", "rendering", "writing", "published", "pruning"}

PicturesType ==
  /\ shelf \subseteq Picture /\ unfinished \subseteq Picture
  /\ temporary \in [RenderSlot -> {"none", "half", "whole"}]
  /\ renders \in [RenderSlot -> [step : RenderStep, picture : Picture \cup {NoPicture},
                                 listed : SUBSET Picture]]

PicturesInit ==
  /\ shelf = {} /\ unfinished = {}
  /\ temporary = [r \in RenderSlot |-> "none"]
  /\ renders = [r \in RenderSlot |-> NoRender]

-----------------------------------------------------------------------------
RenderAt(r, step) == renders[r].step = step

RenderGoes(r, step) == renders' = [renders EXCEPT ![r].step = step]

EndRender(r) == renders' = [renders EXCEPT ![r] = NoRender]

(* prune: as many files as are beyond the limit, the one to preserve not    *)
(* among them.                                                              *)
Excess(files, preserve) ==
  LET others == files \ {preserve}
      excess == IF Cardinality(files) > MaxArtifacts THEN Cardinality(files) - MaxArtifacts ELSE 0
  IN  {gone \in SUBSET others :
         Cardinality(gone) = IF excess < Cardinality(others) THEN excess ELSE Cardinality(others)}

(* prepare *)
Tidied(files) == Excess(files, NoPicture)

(* A job of a picture nobody else renders (unique by its arguments) starts: *)
(* prepare removes every temporary file there is, those of other renders    *)
(* included.                                                                *)
BeginRender(r, p) ==
  /\ RenderAt(r, "idle")
  /\ \A q \in RenderSlot : renders[q].picture # p
  /\ temporary' = [q \in RenderSlot |-> "none"]
  /\ renders' = [renders EXCEPT ![r] = [NoRender EXCEPT !.step = "prepared", !.picture = p]]
  /\ UNCHANGED <<shelf, unfinished>>

(* prune reads the directory, in prepare and again after a file is written. *)
ListFiles(r) ==
  /\ \/ /\ RenderAt(r, "prepared")
        /\ \E gone \in Tidied(shelf) :
             renders' = [renders EXCEPT ![r] = [@ EXCEPT !.step = "tidying", !.listed = gone]]
     \/ /\ RenderAt(r, "published")
        /\ \E gone \in Excess(shelf, renders[r].picture) :
             renders' = [renders EXCEPT ![r] = [@ EXCEPT !.step = "pruning", !.listed = gone]]
  /\ UNCHANGED <<shelf, unfinished, temporary>>

(* The files listed are removed, those that are gone by then ignored.       *)
TidyUp(r) ==
  /\ RenderAt(r, "tidying")
  /\ shelf' = shelf \ renders[r].listed
  /\ renders' = [renders EXCEPT ![r] = [@ EXCEPT !.step = "rendering", !.listed = {}]]
  /\ UNCHANGED <<unfinished, temporary>>

(* write: a temporary file of a fresh name, filled and synchronised.        *)
OpenTemporary(r) ==
  /\ RenderAt(r, "rendering")
  /\ RenderGoes(r, "writing")
  /\ temporary' = [temporary EXCEPT ![r] = "half"]
  /\ UNCHANGED <<shelf, unfinished>>

FillTemporary(r) ==
  /\ RenderAt(r, "writing") /\ temporary[r] = "half"
  /\ temporary' = [temporary EXCEPT ![r] = "whole"]
  /\ UNCHANGED <<shelf, unfinished, renders>>

Complete(r) == temporary[r] = "whole"

(* The file takes its name; without one the rename fails (RenderFails).     *)
PublishPicture(r) ==
  /\ RenderAt(r, "writing") /\ Complete(r)
  /\ LET p == renders[r].picture
     IN /\ shelf' = shelf \cup {p}
        /\ unfinished' = IF temporary[r] = "whole" THEN unfinished \ {p} ELSE unfinished \cup {p}
  /\ RenderGoes(r, "published")
  /\ temporary' = [temporary EXCEPT ![r] = "none"]

Prune(r) ==
  /\ RenderAt(r, "pruning")
  /\ shelf' = shelf \ renders[r].listed
  /\ EndRender(r)
  /\ UNCHANGED <<unfinished, temporary>>

(* A failed prune has removed some of what it listed; in write it takes the *)
(* new file away again (a file that cannot be removed either is left out).  *)
PruneFails(r) ==
  /\ renders[r].step \in {"prepared", "tidying", "published", "pruning"}
  /\ LET written == renders[r].step \in {"published", "pruning"} IN
       \E removed \in SUBSET renders[r].listed :
         shelf' = shelf \ (removed \cup IF written THEN {renders[r].picture} ELSE {})
  /\ EndRender(r)
  /\ UNCHANGED <<unfinished, temporary>>

(* Rendering or writing fails, or takes too long: the temporary file goes.  *)
RenderFails(r) ==
  /\ renders[r].step \in {"rendering", "writing"}
  /\ EndRender(r)
  /\ temporary' = [temporary EXCEPT ![r] = "none"]
  /\ UNCHANGED <<shelf, unfinished>>

(* The process stops with the renders where they are.  The temporary files  *)
(* that stay have names no render uses again, and the next prepare removes  *)
(* them.                                                                    *)
StopRenders ==
  /\ \E r \in RenderSlot : ~RenderAt(r, "idle")
  /\ renders' = [r \in RenderSlot |-> NoRender]
  /\ temporary' = [r \in RenderSlot |-> "none"]
  /\ UNCHANGED <<shelf, unfinished>>

PicturesNext ==
  \/ StopRenders
  \/ \E r \in RenderSlot :
       \/ ListFiles(r) \/ TidyUp(r) \/ OpenTemporary(r) \/ FillTemporary(r) \/ PublishPicture(r)
       \/ Prune(r) \/ PruneFails(r) \/ RenderFails(r)
       \/ \E p \in Picture : BeginRender(r, p)

-----------------------------------------------------------------------------
(* What a request reads is a whole picture, though renders remove each      *)
(* other's temporary files and stop anywhere; and the directory outgrows    *)
(* its limit by one file for each render at most, however many are cut      *)
(* short after they published and before they pruned.                       *)
PicturesServed ==
  /\ shelf \cap unfinished = {}
  /\ Cardinality(shelf) <= MaxArtifacts + Cardinality(RenderSlot)
=============================================================================
