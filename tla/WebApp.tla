------------------------------- MODULE WebApp -------------------------------
(***************************************************************************)
(* The web frontend's parts side by side.  They share no variable: what    *)
(* passes between pages (a shared list) is part of SharedImport.  A        *)
(* behaviour follows one part and leaves the others as they start, so the  *)
(* states are the sum of the parts' and not their product; the steps of    *)
(* the others would change nothing a part's properties speak of.           *)
(***************************************************************************)
EXTENDS ScanDevice, ScanFrames, ScanLock, ScanList, ImportDialog, SharedImport,
        PullList, DeckSwap, DeckTags

Parts == {"device", "frames", "set lock", "scan list", "import", "shared list",
          "pull list", "swap", "tags"}

VARIABLE followed   \* the part this behaviour follows

pageVars == <<importVars, sharedVars, pullVars, swapVars, tagVars>>
scanVars == <<deviceVars, framesVars, lockVars, listVars>>
webVars == <<followed, scanVars, pageVars>>

(* Every part's types.                                                      *)
WebTypeOK ==
  /\ followed \in Parts
  /\ followed = "device" => DeviceType
  /\ followed = "frames" => FramesType
  /\ followed = "set lock" => LockType
  /\ followed = "scan list" => ListType
  /\ followed = "import" => ImportType
  /\ followed = "shared list" => SharedType
  /\ followed = "pull list" => PullType
  /\ followed = "swap" => SwapType
  /\ followed = "tags" => TagsType

WebInit ==
  /\ followed \in Parts
  /\ DeviceInit /\ FramesInit /\ LockInit /\ ListInit
  /\ ImportInit /\ SharedInit /\ PullInit /\ SwapInit /\ TagsInit
  /\ followed # "pull list" => storedDeck = CHOOSE deck \in Decks : TRUE

-----------------------------------------------------------------------------
FollowDevice ==
  /\ followed = "device" /\ DeviceNext
  /\ UNCHANGED <<followed, framesVars, lockVars, listVars, pageVars>>

FollowFrames ==
  /\ followed = "frames" /\ FramesNext
  /\ UNCHANGED <<followed, deviceVars, lockVars, listVars, pageVars>>

FollowLock ==
  /\ followed = "set lock" /\ LockNext
  /\ UNCHANGED <<followed, deviceVars, framesVars, listVars, pageVars>>

FollowList ==
  /\ followed = "scan list" /\ ListNext
  /\ UNCHANGED <<followed, deviceVars, framesVars, lockVars, pageVars>>

FollowImport ==
  /\ followed = "import" /\ ImportNext
  /\ UNCHANGED <<followed, scanVars, sharedVars, pullVars, swapVars, tagVars>>

FollowShared ==
  /\ followed = "shared list" /\ SharedNext
  /\ UNCHANGED <<followed, scanVars, importVars, pullVars, swapVars, tagVars>>

FollowPull ==
  /\ followed = "pull list" /\ PullNext
  /\ UNCHANGED <<followed, scanVars, importVars, sharedVars, swapVars, tagVars>>

FollowSwap ==
  /\ followed = "swap" /\ SwapNext
  /\ UNCHANGED <<followed, scanVars, importVars, sharedVars, pullVars, tagVars>>

FollowTags ==
  /\ followed = "tags" /\ TagsNext
  /\ UNCHANGED <<followed, scanVars, importVars, sharedVars, pullVars, swapVars>>

WebNext ==
  \/ FollowDevice \/ FollowFrames \/ FollowLock \/ FollowList
  \/ FollowImport \/ FollowShared \/ FollowPull \/ FollowSwap \/ FollowTags

WebSpec == WebInit /\ [][WebNext]_webVars
=============================================================================
