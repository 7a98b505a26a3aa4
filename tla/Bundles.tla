------------------------------ MODULE Bundles ------------------------------
(***************************************************************************)
(* The scanner's bundles on disk (manavault-system, scanner/bundle.rs and  *)
(* scanner/update_worker.rs): one directory per version, a link to the     *)
(* current one and one to the version before, and the steps of an update.  *)
(* The process may stop between any two of them; removing a directory may  *)
(* also fail half-way, which the code ignores.                             *)
(*                                                                         *)
(* Updates run one at a time (a unique worker).  What is downloaded lies   *)
(* in a directory of a fresh name until it is published.  An empty         *)
(* directory counts as none: the rename of a download replaces it.         *)
(***************************************************************************)
CONSTANTS BundleVersion, NoVersion

ASSUME BundleAssumption == NoVersion \notin BundleVersion

VARIABLES
  bundleDirs,   \* what the directory of each version holds
  currentLink,  \* the version the link "current" names
  previousLink, \* the version the link "previous" names
  update,       \* the update under way
  replaced,     \* history: the version that was current before this one
  halfReused    \* history: an update took what an earlier removal left for its version

bundleVars == <<bundleDirs, currentLink, previousLink, update, replaced, halfReused>>

Link == BundleVersion \cup {NoVersion}

UpdateStep == {"idle", "downloading", "downloaded", "verified", "published", "switched", "pruning"}

NoUpdate == [step |-> "idle", version |-> NoVersion, intact |-> FALSE, before |-> NoVersion]

BundlesType ==
  /\ bundleDirs \in [BundleVersion -> {"none", "half", "whole"}]
  /\ {currentLink, previousLink, replaced} \subseteq Link
  /\ update \in [step : UpdateStep, version : Link, intact : BOOLEAN, before : Link]
  /\ halfReused \in BOOLEAN

BundlesInit ==
  /\ bundleDirs = [v \in BundleVersion |-> "none"]
  /\ currentLink = NoVersion /\ previousLink = NoVersion
  /\ update = NoUpdate
  /\ replaced = NoVersion /\ halfReused = FALSE

-----------------------------------------------------------------------------
(* current_version reads the manifest behind the link, which half a         *)
(* directory may lack.                                                      *)
CurrentVersions ==
  CASE currentLink = NoVersion -> {NoVersion}
    [] currentLink # NoVersion /\ bundleDirs[currentLink] = "whole" -> {currentLink}
    [] currentLink # NoVersion /\ bundleDirs[currentLink] = "half" -> {currentLink, NoVersion}
    [] OTHER -> {NoVersion}

At(step) == update.step = step

Step(step) == update' = [update EXCEPT !.step = step]

EndUpdate == update' = NoUpdate

-----------------------------------------------------------------------------
(* The source offers a version that is not the current one.                 *)
BeginUpdate(v) ==
  /\ At("idle")
  /\ \E now \in CurrentVersions : now # v
  /\ update' = [NoUpdate EXCEPT !.step = "downloading", !.version = v]
  /\ UNCHANGED <<bundleDirs, currentLink, previousLink, replaced, halfReused>>

(* Every file came, with what the manifest says or something else.          *)
Download ==
  /\ At("downloading")
  /\ \E intact \in BOOLEAN :
       update' = [update EXCEPT !.step = "downloaded", !.intact = intact]
  /\ UNCHANGED <<bundleDirs, currentLink, previousLink, replaced, halfReused>>

(* verify_files: sizes and checksums.                                       *)
Verified == update.intact

Verify ==
  /\ At("downloaded")
  /\ IF Verified THEN Step("verified") ELSE EndUpdate
  /\ UNCHANGED <<bundleDirs, currentLink, previousLink, replaced, halfReused>>

(* publish_directory renames the download into place; a directory of that   *)
(* version that is there already is kept instead.                           *)
Publish ==
  /\ At("verified")
  /\ LET v == update.version IN
       /\ bundleDirs' = [bundleDirs EXCEPT
            ![v] = IF @ # "none" THEN @ ELSE IF update.intact THEN "whole" ELSE "half"]
       /\ halfReused' = (halfReused \/ bundleDirs[v] = "half")
  /\ Step("published")
  /\ UNCHANGED <<currentLink, previousLink, replaced>>

(* activate: both links are replaced by renames, one after the other.       *)
SwitchCurrent ==
  /\ At("published")
  /\ currentLink' = update.version
  /\ \E before \in CurrentVersions :
       update' = [update EXCEPT !.step = "switched", !.before = before]
  /\ replaced' = IF currentLink = update.version THEN replaced ELSE currentLink
  /\ UNCHANGED <<bundleDirs, previousLink, halfReused>>

SwitchPrevious ==
  /\ At("switched")
  /\ previousLink' = IF update.before \in {NoVersion, update.version}
                     THEN previousLink ELSE update.before
  /\ Step("pruning")
  /\ UNCHANGED <<bundleDirs, currentLink, replaced, halfReused>>

(* Seeded fault: only the current version is kept.                          *)
KeptCurrent(current) == {current}

(* prune_versions: what the manifest names and the link to the one before.  *)
Kept(current) == {current, previousLink}

(* Removing a directory takes its files one by one.                         *)
RemoveVersion(v) ==
  /\ At("pruning")
  /\ \E current \in CurrentVersions : v \notin Kept(current)
  /\ bundleDirs[v] # "none"
  /\ \E left \in {"half", "none"} : bundleDirs' = [bundleDirs EXCEPT ![v] = left]
  /\ UNCHANGED <<currentLink, previousLink, update, replaced, halfReused>>

(* Pruning ends, with what it could not remove; every other step may fail;  *)
(* and the process may stop.                                                *)
UpdateEnds ==
  /\ ~At("idle")
  /\ EndUpdate
  /\ UNCHANGED <<bundleDirs, currentLink, previousLink, replaced, halfReused>>

BundlesNext ==
  \/ Download \/ Verify \/ Publish \/ SwitchCurrent \/ SwitchPrevious \/ UpdateEnds
  \/ \E v \in BundleVersion : BeginUpdate(v) \/ RemoveVersion(v)

-----------------------------------------------------------------------------
(* The scanner page reads the manifest of the current version and then its  *)
(* files by version (http.rs show, file): both that version and the one the *)
(* pages opened before the last switch use are there in full, wherever an   *)
(* update stopped.  It holds until a version is offered again after its     *)
(* removal had begun: publish_directory takes what is left of it for it.    *)
BundlesServed ==
  ~halfReused => \A v \in {currentLink, replaced} \ {NoVersion} : bundleDirs[v] = "whole"
=============================================================================
