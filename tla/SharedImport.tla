---------------------------- MODULE SharedImport ----------------------------
(***************************************************************************)
(* Lists on their way to the import dialog (lib/native-shared-import.ts,   *)
(* pages/collection/overview/use-collection-overlays.ts, main.tsx).  The   *)
(* scanner hands its list over with a full page load; another app shares   *)
(* one through the native shell, which keeps it for two reads.  The        *)
(* collection page may be open, on its way or left again.                  *)
(*                                                                         *)
(* The shell's plugin is external: it is modelled as the page uses it.     *)
(* Links and payloads without text are left out.                           *)
(***************************************************************************)
EXTENDS Naturals

CONSTANTS
  Scanned,      \* lists of the scanner
  Received,     \* lists of other apps
  NoShared

ASSUME SharedAssumption ==
  /\ NoShared \notin Scanned \cup Received
  /\ Scanned \cap Received = {}

Shared == Scanned \cup Received

VARIABLES
  route,         \* the page the router shows
  mounted,       \* the collection page runs its effects
  importFile,    \* the search parameter of its route
  pendingImport, \* the list in the document's memory
  queuedImport,  \* the list in the session's storage
  taking,        \* the page asks the plugin; it may have been left meanwhile
  startup,       \* how far the document is with the plugin
  plugin,        \* the list the plugin keeps, and how often it is read yet
  retained,      \* the event it keeps until somebody listens
  shareFate           \* history: what became of each list

sharedVars == <<route, mounted, importFile, pendingImport, queuedImport, taking, startup, plugin,
                retained, shareFate>>

NoPlugin == [list |-> NoShared, reads |-> 0]

SharedType ==
  /\ route \in {"collection", "scanner", "elsewhere"}
  /\ {mounted, importFile} \subseteq BOOLEAN
  /\ {pendingImport, queuedImport, retained} \subseteq Shared \cup {NoShared}
  /\ taking \in {"no", "asking", "ignored"}
  /\ startup \in {"asking", "adding", "listening"}
  /\ plugin \in [list : Received \cup {NoShared}, reads : 0 .. 2]
  /\ shareFate \in [Shared -> {"none", "handed", "shown", "again", "replaced", "dropped"}]

SharedInit ==
  /\ route = "elsewhere" /\ mounted = FALSE /\ importFile = FALSE
  /\ pendingImport = NoShared /\ queuedImport = NoShared
  /\ taking = "no" /\ startup = "asking"
  /\ plugin = NoPlugin /\ retained = NoShared
  /\ shareFate = [s \in Shared |-> "none"]

-----------------------------------------------------------------------------
(* What becomes of a list that is shown, and of one another takes the place *)
(* of before it was.                                                        *)
After(f) == IF f \in {"shown", "again"} THEN "again" ELSE "shown"

ShowList(s) == [shareFate EXCEPT ![s] = After(@)]

Replacing(s, by) == IF s \notin {NoShared, by} /\ shareFate[s] = "handed"
                    THEN [shareFate EXCEPT ![s] = "replaced"] ELSE shareFate

(* A full page load keeps the session's storage and the plugin.             *)
LoadPage(to) ==
  /\ route' = to /\ mounted' = FALSE
  /\ pendingImport' = NoShared
  /\ taking' = "no" /\ startup' = "asking"

(* queueSharedImport by the scanner page: without storage the list is lost. *)
HandOver(s) ==
  /\ route = "scanner" /\ shareFate[s] = "none"
  /\ LoadPage("collection") /\ importFile' = TRUE
  /\ \/ /\ queuedImport' = s
        /\ shareFate' = [Replacing(queuedImport, s) EXCEPT ![s] = "handed"]
     \/ /\ shareFate' = [shareFate EXCEPT ![s] = "dropped"]
        /\ UNCHANGED queuedImport
  /\ UNCHANGED <<plugin, retained>>

-----------------------------------------------------------------------------
(* receiveNativeOpenPayload: the open collection page is told, or finds the *)
(* list when it opens.                                                      *)
Receive(s) ==
  /\ IF mounted
     THEN pendingImport' = NoShared /\ shareFate' = ShowList(s)
     ELSE pendingImport' = s /\ shareFate' = Replacing(pendingImport, s)
  /\ route' = "collection" /\ importFile' = TRUE
  /\ taking' = IF mounted THEN "asking" ELSE taking

(* getPendingImport of the plugin: the list is kept for a second read.      *)
ReadPlugin ==
  plugin' = IF plugin.reads <= 1 THEN NoPlugin ELSE [plugin EXCEPT !.reads = @ - 1]

(* Another app shares a list.  Listeners of the page are told at once.      *)
ShareFromApp(s) ==
  /\ shareFate[s] = "none"
  /\ plugin' = [list |-> s, reads |-> 2]
  /\ IF startup = "listening"
     THEN /\ route' = "collection" /\ importFile' = TRUE
          /\ IF mounted
             THEN /\ pendingImport' = NoShared /\ taking' = "asking"
                  /\ shareFate' = [shareFate EXCEPT ![s] = "shown"]
             ELSE /\ pendingImport' = s /\ UNCHANGED taking
                  /\ shareFate' = [Replacing(pendingImport, s) EXCEPT ![s] = "handed"]
          /\ UNCHANGED retained
     ELSE /\ retained' = s
          /\ shareFate' = [Replacing(retained, s) EXCEPT ![s] = "handed"]
          /\ UNCHANGED <<route, importFile, pendingImport, taking>>
  /\ UNCHANGED <<mounted, queuedImport, startup>>

(* initializeNativeSharedImport: what is pending, and then the listener.    *)
PluginRead ==
  /\ startup = "asking"
  /\ startup' = "adding"
  /\ IF plugin = NoPlugin
     THEN UNCHANGED <<route, importFile, pendingImport, taking, plugin, shareFate>>
     ELSE Receive(plugin.list) /\ ReadPlugin
  /\ UNCHANGED <<mounted, queuedImport, retained>>

ListenerAdded ==
  /\ startup = "adding"
  /\ startup' = "listening"
  /\ retained' = NoShared
  /\ IF retained = NoShared THEN UNCHANGED <<route, importFile, pendingImport, taking, shareFate>>
     ELSE Receive(retained)
  /\ UNCHANGED <<mounted, queuedImport, plugin>>

-----------------------------------------------------------------------------
(* Seeded fault: a list stays in the session's storage when it is taken.    *)
StillQueued == queuedImport

(* takeSharedImport *)
Unqueued == NoShared

Waiting == IF pendingImport # NoShared THEN pendingImport ELSE queuedImport

(* The collection page opens and takes what waits; asked to import, it asks *)
(* the plugin when nothing does.                                            *)
MountCollection ==
  /\ route = "collection" /\ ~mounted
  /\ mounted' = TRUE
  /\ pendingImport' = NoShared /\ queuedImport' = Unqueued
  /\ IF Waiting # NoShared
     THEN /\ shareFate' = [Replacing(queuedImport, Waiting) EXCEPT ![Waiting] = After(@)]
          /\ importFile' = FALSE
          /\ UNCHANGED taking
     ELSE /\ taking' = IF importFile THEN "asking" ELSE taking
          /\ UNCHANGED <<shareFate, importFile>>
  /\ UNCHANGED <<route, startup, plugin, retained>>

(* takePendingNativeSharedImport: a page that was left ignores the answer.  *)
TakeAnswered ==
  /\ taking # "no"
  /\ taking' = "no"
  /\ ReadPlugin
  /\ IF taking = "asking"
     THEN /\ importFile' = FALSE
          /\ shareFate' = IF plugin = NoPlugin THEN shareFate ELSE ShowList(plugin.list)
     ELSE UNCHANGED <<importFile, shareFate>>
  /\ UNCHANGED <<route, mounted, pendingImport, queuedImport, startup, retained>>

LeaveCollection ==
  /\ route = "collection"
  /\ route' = "elsewhere" /\ mounted' = FALSE /\ importFile' = FALSE
  /\ taking' = IF taking = "no" THEN "no" ELSE "ignored"
  /\ UNCHANGED <<pendingImport, queuedImport, startup, plugin, retained, shareFate>>

OpenScanner ==
  /\ route # "scanner"
  /\ LoadPage("scanner") /\ importFile' = FALSE
  /\ UNCHANGED <<queuedImport, plugin, retained, shareFate>>

(* The plugin keeps a list for two minutes.                                 *)
Expire ==
  /\ plugin # NoPlugin
  /\ plugin' = NoPlugin
  /\ UNCHANGED <<route, mounted, importFile, pendingImport, queuedImport, taking, startup,
                 retained, shareFate>>

SharedNext ==
  \/ PluginRead \/ ListenerAdded \/ MountCollection \/ TakeAnswered
  \/ LeaveCollection \/ OpenScanner \/ Expire
  \/ \E s \in Scanned : HandOver(s)
  \/ \E s \in Received : ShareFromApp(s)

-----------------------------------------------------------------------------
(* "The queue also survives a full page load": a list the scanner handed    *)
(* over waits in the session's storage until it is shown, and is shown once *)
(* only, whatever is opened or shared meanwhile.                            *)
ScannedListShownOnce ==
  \A s \in Scanned : /\ shareFate[s] # "again"
                     /\ shareFate[s] = "handed" <=> queuedImport = s
=============================================================================
