------------------------------ MODULE AppParts ------------------------------
(***************************************************************************)
(* The web frontend's parts and those of the server that keep files, side  *)
(* by side.  As in WebApp, a behaviour follows one of them: they share no  *)
(* variable, and the backups' tick (CloudBackup) asks for a backup but     *)
(* restores none.                                                          *)
(***************************************************************************)
EXTENDS WebApp, Bundles, Pictures, Restores, CloudBackup

Sides == {"web", "bundles", "pictures", "restores", "backups"}

VARIABLE side   \* the web frontend, or the part of the server followed

fileVars == <<bundleVars, pictureVars, restoreVars, backupVars>>
appVars == <<side, webVars, fileVars>>

AppTypeOK ==
  /\ side \in Sides
  /\ side = "web" => WebTypeOK
  /\ side = "bundles" => BundlesType
  /\ side = "pictures" => PicturesType
  /\ side = "restores" => RestoresType
  /\ side = "backups" => BackupType

AppInit ==
  /\ side \in Sides
  /\ WebInit /\ BundlesInit /\ PicturesInit /\ RestoresInit /\ BackupInit
  /\ side # "web" => followed = "device"

-----------------------------------------------------------------------------
FollowWeb ==
  /\ side = "web" /\ WebNext
  /\ UNCHANGED <<side, fileVars>>

FollowBundles ==
  /\ side = "bundles" /\ BundlesNext
  /\ UNCHANGED <<side, webVars, pictureVars, restoreVars, backupVars>>

FollowPictures ==
  /\ side = "pictures" /\ PicturesNext
  /\ UNCHANGED <<side, webVars, bundleVars, restoreVars, backupVars>>

FollowRestores ==
  /\ side = "restores" /\ RestoresNext
  /\ UNCHANGED <<side, webVars, bundleVars, pictureVars, backupVars>>

FollowBackups ==
  /\ side = "backups" /\ BackupNext
  /\ UNCHANGED <<side, webVars, bundleVars, pictureVars, restoreVars>>

AppNext ==
  FollowWeb \/ FollowBundles \/ FollowPictures \/ FollowRestores \/ FollowBackups

AppSpec == AppInit /\ [][AppNext]_appVars

-----------------------------------------------------------------------------
(* What the server's workers leave in its directories can be served,        *)
(* wherever they fail or stop: the scanner's bundles, the pictures of       *)
(* shared decks and the owner's data.                                       *)
FilesSound == BundlesServed /\ PicturesServed /\ DataRecoverable
=============================================================================
