# ManaVault in TLA+

ManaVault keeps a Magic: The Gathering collection: which physical copies its owner has and where they are, which
decks list which cards, and which copies each deck has reserved. This directory holds TLA+ models of its backend
(`src/rust/crates`) and of its web frontend (`src/assets/react/src`), the TLC runs that check them and the TLAPS proofs
about them. Everything is written from the Rust and TypeScript source; `rust/crates/manavault-allocation/formal` holds an
earlier, smaller model of the allocation engine that this one does not build on.

## The system

The backend is one process with one SQLite database. Every write of the collection parts modelled here happens in a
`BEGIN IMMEDIATE` transaction, and SQLite lets one such transaction run at a time, so operations of different requests
interleave as whole transactions. What makes it hard is that the tables are shared by parts that do not call each other,
and that some requests read first, wait, and write later. Jobs, bundles, pictures and restores work step by step on
rows, directories and files, and may fail or stop between any two steps.

The frontend is a React application. Its state lives in hooks; what it asks of the browser, of a worker or of the server
is answered later, after the user has done something else. What makes it hard is which answer may still be applied, and
to what.

**Backend**

| part | state it keeps | operations | talks to |
|---|---|---|---|
| allocation engine (`manavault-allocation`) | `deck_allocations`, and where copies are (`collection_items.location_id`, `quantity`) | allocate, deallocate, proxies, bulk release, disassembly, adding owned copies | called by deck cards, sync |
| deck cards and decks (`manavault-collection/decks`) | `deck_cards`, `decks` | add, update, move between zones, delete, optimise printings, commanders, deck status | calls the engine to trim, clear and exchange copies |
| deck records and share links (`decks/records.rs`) | `decks`: fields, play counts, the share token | edit, record a play or skip, ensure, rotate and disable the link | statements without a transaction; the share dialog asks |
| linked decks (`decks/external.rs`) | `decks.external_*` | link, sync, unlink, hourly sync | waits for the remote site, then rewrites deck cards |
| import and swaps (`decks/decklist.rs`, `decks/swap.rs`) | deck cards | import a list, apply a set of cuts and adds | as deck cards |
| collection (`manavault-collection/collection`) | `collection_items`, `locations` | create, edit, move, delete, bulk edit, auto-sort, clean-up, import | shares its tables with the engine |
| background jobs (`manavault-core/jobs`) | `jobs` | enqueue, claim, run, retry, requeue, prune | runs every worker |
| backups (`manavault-system/backup`) | backup settings, staged and pre-restore files, remote files | scheduled and manual backup, retention, restore | the scheduled backup runs as a job |
| share previews (`manavault-share/preview`) | rendered files | request, render, prune | renders as a job |
| scanner bundles (`manavault-system/scanner`) | bundle directories and two links | download, verify, switch, prune | runs as a job |
| login limits, sessions (`manavault-core/auth`, `web`) | counters, sessions | attempt, ban, expire | - |
| catalog and prices (`manavault-catalog`) | card data | bulk sync, search | runs as jobs |
| trade, deck intelligence, AI, sharing, server, native shells | little of their own | queries, calls to outside services | read the tables above |

**Frontend**

| part | state it keeps | operations | talks to |
|---|---|---|---|
| scanner page: camera, recogniser, scan loop (`pages/scan/use-camera.ts`, `recognition/use-recognizer.ts`, `scan-page.tsx`) | the stream, the worker, requests that wait, the page's visibility | start, stop, hide, sleep, wake, change threads, send a frame | browser, worker, server's bundle |
| scanner page: frame decision (`scan-decision.ts`) | the tracker: the streak of agreeing frames, the last card | judge a frame | fed by the loop |
| scanner page: session (`use-scan-session.ts`, `scan-list.ts`, `scan-training.ts`) | the list, the set lock, questions, labels of uploaded frames | log, look up, change, remove, clear, ask, lock sets | catalog, training service |
| import dialog (`pages/collection/import`) | text, pricing, rows, calls under way | paste, read a file, preview, pick, auto-sort, commit, close | server, shared lists |
| hand-over of lists (`lib/native-shared-import.ts`, `use-collection-overlays.ts`) | memory, session storage, the shell's plugin | hand over, share, take, show | scanner page, native shell, import dialog |
| pull list (`pages/decks/deck-allocation-model.ts` and its dialog) | choices, exclusions, the list under way | open, choose, skip, send | bulk allocation on the server |
| swap workbench (`pages/decks/deck-swap-*`) | what is staged, the question to the server, confirmations | stage, preview, apply, discard, close | server |
| share dialog (`deck-share-dialogs.tsx`) | the deck shown, the token in its field, calls under way | open, close, rotate, disable | server |
| deck tags (`use-deck-card-actions.ts`, `deck-query-cache.ts`) | the query cache, the newest tap on each card | assign, take off, delete a tag | server |
| the other pages | queries, drafts of forms | show, filter, edit | server |

### What makes each part correct

| part | hard behaviour | what must hold |
|---|---|---|
| collection, decks, allocation, links | long sequences of legal requests on shared tables; a sync that waits for the site while everything else goes on | a copy is promised once and stays where its holder can return it from; a deck card never holds more than it lists, an idea holds nothing; whatever happens to decks, no copy is created, lost or filed elsewhere |
| imports, swaps | the deck is checked before the transaction; entries are applied to what earlier entries left | a swap ends as previewed; copies are neither created nor lost; a frozen list stays as it is |
| deck records, share links | read, write and answer are separate statements of unrelated requests; answers reach a dialog that shows another deck | a link that was switched off never works again; a recorded play stays; a dialog offers its own deck's link |
| jobs | claims while runs end; outcomes by id; restarts, lost outcomes, stuck rows, pruning | one pending row per unique key, no more runs than slots, one run per job, finished jobs stay finished, every job ends |
| price rebuilds, deck questions | their own row and the job's row are written by separate statements | both rows tell the same story; what the owner was told stays; nothing is pending without a job |
| scheduled backups | a schedule compared with a due time that retries move | the tick of a scheduled minute makes a backup or uses up its attempts |
| restores | a database, its log and a staged file replaced one after the other | what was overwritten stays in a copy, with restores of one second as the exception; no file is opened with another's log; a restore is applied once |
| previews, scanner bundles | several renders share one directory; an update fails or stops half-way | a picture or bundle that is served is complete; the directory stays within its limit |
| camera, recogniser | every start needs several answers; hiding, closing, sleeping and newer starts come before any of them | no camera is left on, none runs while hidden, a page in view comes up; nobody waits for a worker that is gone |
| frames, set lock, scan list | frames, lookups and lists are answered after the page changed | a card is logged when it held still, once in a row, from the sets locked now, and never while paused; labels follow the list |
| import dialog, hand-over | previews, files and shared lists arrive in any order; page loads in between | what is imported is what was entered; one commit at a time; a list is shown once |
| pull list, swaps, tags | the deck changes under the open dialog; verdicts are debounced; optimistic writes are rolled back | what is sent fits; a verdict shown is on what is staged; the cache ends as the server |

PROJECT.json lists each hazard at its line with the properties that would catch it.

## Modules

Proof modules are left out of the first table; see *Proofs*.

| module | code | state | actions |
|---|---|---|---|
| `Stock` | `manavault-allocation`: `items.rs`, `release.rs`, `status.rs`, the moving half of `allocate.rs` | none: operators on a *snapshot* (items and allocations) that return the set of snapshots the code may leave | - |
| `Tables` | the tables the collection crates share; `DeckCard::allocatable`, `Deck::ensure_editable`, `status.rs` | `items`, `allocations`, `cards`, `status`, `linked`, `kind` | - |
| `Allocation` | `allocate.rs`, `release.rs`, `disassembly.rs`, `collection_add.rs` | as `Tables` | `Allocate`, `Deallocate`, `AllocateProxy`, `DeallocateProxy`, `BulkDeallocate`, `Disassemble`, `AddCollectionItems` |
| `DeckCards` | `decks/cards.rs`, `decks/records.rs` | as `Tables` | `AddCard`, `ShelveCard`, `UpdateCard`, `DeleteCards`, `OptimizePrintings`, `SetCommander`, `AddPartner`, `CreateDeck`, `SetStatus`, `DeleteDeck` |
| `ExternalSync` | `decks/external.rs` | `fetching`: links and syncs that wait for the site | `BeginLink`, `BeginSync`, `FetchFails`, `ApplyLink`, `ApplySync`, `Unlink` |
| `CollectionItems` | `collection/changes.rs`, `collection/location.rs` | as `Tables` | `CreateItem`, `UpdateItem`, `DeleteItems`, `CreateLocation`, `SetKind`, `DeleteLocation` |
| `ManaVault` | all of the above | all of the above | every interleaving; the properties are here |
| `Decklists` | `decks/decklist.rs`, `decks/swap.rs` | that of `ManaVault`, and `pending`: imports and swaps that have read their deck | `BeginImport`, `ImportDecklist`, `BeginSwap`, `ApplySwap`, `RequestFails`, beside every action of `ManaVault` |
| `DeckRecords` | `decks/records.rs` | `rows` (the table), `owner` (whose token), `requests` | `Send`, `Read`, `WriteEdit`, `RecordPlay`, `RecordSkip`, `PutToken`, `ClearToken`, `Reload`, `Interrupt`, `Finish`, `Disassemble`, `DeleteDeck` |
| `ShareDialog` | `deck-share-dialogs.tsx`, with `DeckRecords` | `shown`, `ensured`, `managed`, `confirm`, `latest`, `caller` | `OpenDialog`, `CloseDialog`, `AskToConfirm`, `Cancel`, `Confirm`, `Receive`, beside other clients' requests |
| `Jobs` | `manavault-core/jobs/mod.rs` | `rows` (the table), `line` (due rows of each queue in claim order), `runs` (attempts in progress), `server`, `faults` | `Enqueue`, `Duplicate`, `BecomeDue`, `Claim`, `Done`, `Cancel`, `Retry`, `LeaveUnrecorded`, `Maintain`, `Stop`, `Boot`, `StartQueues`, `StartQueuesOnly` |
| `Rebuilds` | `collection/acquisition_prices.rs` | `rebuilds`, `step` (how far a run is), `lapsed`, and the jobs (`Pricing == INSTANCE Jobs`) | `Request`, `MarkRunning`, `Finish`, `Returned`, `Lapse`, and the jobs' own |
| `Questions` | `ai/answer_deck_question.rs`, `ai/workers.rs`, `ai/question_answers.rs` | `questions`, `step`, `lapsed`, and the jobs (`Ai == INSTANCE Jobs`) | `Ask`, `Delete`, `Begin`, `Answer`, `GiveUp`, `Returned`, `Lapse`, and the jobs' own |
| `Bundles` | `scanner/bundle.rs`, `update_worker.rs` | `bundleDirs`, `currentLink`, `previousLink`, `update` | `BeginUpdate`, `Download`, `Verify`, `Publish`, `SwitchCurrent`, `SwitchPrevious`, `RemoveVersion`, `UpdateEnds` |
| `Pictures` | `preview/artifact_store.rs`, `render_worker.rs` | `shelf` and `temporary` (sets of files, whole or not), `renders` | `BeginRender`, `ListFiles`, `TidyUp`, `OpenTemporary`, `FillTemporary`, `PublishPicture`, `Prune`, `PruneFails`, `RenderFails`, `StopRenders` |
| `Restores` | `backup/local.rs` restore, `backup/cloud.rs` staging | `database`, `walLog`, `pendingZip`, `incoming`, `asideFile` and `asideLog` (the newest pre-restore directory), `copies` (the ones before it), `saved`, how far a restore is | `Change`, `Checkpoint`, `BackUp`, `BeginStaging`, `EndStaging`, `ApplyPending`, `RestoreByHand`, `BeginCopy`, `CopyFile`, `CopyLog`, `BeginPlacing`, `PutInPlace`, `RemoveLog`, `FinishRestore`, `Open`, `StopServer` |
| `CloudBackup` | `backup/worker.rs`, with the job's row | `minute`, `tick` | `NextMinute`, `ClaimTick`, `NothingDue`, `TakeBackup`, `TickFails`, `RestartTick` |
| `ScanCamera` | `use-camera.ts` | `streams`, `streamRef`, `opening` (each call of start), `newest` (the generation) | `StartCamera`, `StopCamera`, `Granted`, `Played`, `Failed`, `Focused` |
| `ScanRecognizer` | `use-recognizer.ts` | the worker, its bundle, `pending` requests | launch, `BundleRefused`, `BundleNamed`, `BundleRead`, `Loaded`, `LoadFails`, `Crash`, answers |
| `ScanDevice` | `use-scan-session.ts`, `scan-page.tsx` around the two | the page: hidden, asleep, busy, threads, the loop | `Start`, `Close`, `Hide`, `Show`, `FallAsleep`, `Wake`, `Pause`, `SetThreads`, `SendFrame` and the answers |
| `Filters` | the array filters of the two modules that use it, `ScanDecision` and `PullList` | - | `Among` |
| `ScanDecision`, `ScanFrames` | `scan-decision.ts`, and the loop that feeds it | `tracker` | `TrackFrame`, `Told` |
| `ScanLock` | the set lock of `use-scan-session.ts` | `locked`, `lock`, queries under way | `SetLock`, `LockAnswered`, `LateLockAnswered` |
| `ScanList` | the list of `use-scan-session.ts`, `scan-list.ts`, `scan-training.ts` | `entries`, `lookups`, `labels`, `last`, questions | sending and answering frames, token taps, manual entries, lookups, changes, removal, clearing, questions |
| `ImportDialog` | `use-collection-import.ts` and its dialog | text, pricing, rows, calls | every operation of the dialog and every answer |
| `SharedImport` | `native-shared-import.ts`, `use-collection-overlays.ts` | `pendingImport`, `queuedImport`, the plugin, the route | `HandOver`, `ShareFromApp`, `PluginRead`, `ListenerAdded`, `MountCollection`, `TakeAnswered`, `LeaveCollection`, `OpenScanner`, `Expire` |
| `PullList` | `deck-allocation-model.ts`, its dialog, `bulk.rs` | choices, exclusions, the list under way, the deck seen and stored | open, close, mode, choose, skip, send, answer, change elsewhere, refetch |
| `DeckSwap` | `deck-swap-model.ts`, its dialog, ledger and chips | what is staged, the debounced question, its answers | edit, debounce, answer, apply, close, discard |
| `DeckTags` | `use-deck-card-actions.ts`, `deck-query-cache.ts`, `tags.rs` | the cache, the server's tags, taps under way | taps, the server's steps, answers, failures |
| `WebApp` | the nine parts of the frontend | `followed` | each part's own |
| `AppParts` | `WebApp` and the four parts of the server above | `side` | each part's own |
| `MCManaVault`, `MCDecklists`, `MCShares`, `MCJobs`, `MCAppParts` | - | - | values for the constants |

### How the collection part corresponds to the code

* One action is one request: every write runs in a `BEGIN IMMEDIATE` transaction, so its checks are the action's guard
  and a check that fails is no step. Links and syncs take two actions, because they wait for the site between
  reading the deck and opening their transaction, and so do imports and swaps (`Decklists`), which check the deck first
  and open their transaction later.
* A deck card is its unique key, deck, card and zone (`Slot`); a row that is not there has quantity 0. A collection item
  is a row id with a number of copies, a printing and a place. Printing and finish are one value;
  where the code changes only the finish (`printing_changes`), any pair of the card may come out. Brewing and active
  decks are one status. Trade quantities, conditions, prices, notes and tags do not touch the properties and are left out.
* `items.rs` moves copies by splitting rows. `Stock!Destinations` says which row receives what moved (the row itself
  when all of it moves, a free id otherwise), and `Release` and `Reserve` return one snapshot per choice.
* Where the code has an order that no property depends on (oldest allocation first, lowest id first, which of two equal
  rows a sync carries over), the model allows every order: what holds for it holds for the code's.
* Bulk and pull-list allocation run the modelled operations one after another inside one transaction; the model has
  the single operations, so it has every state those reach, and intermediate ones as well.
* A swap applies its entries one after another: `ApplyCut` and `ApplyAdd` map a snapshot of the tables with the deck cards to
  the set of snapshots they may leave, `Swapped` (a recursive function on the number of entries applied) collects what the
  cuts and then the adds may leave, and the whole swap is one step or none. A parsed list is how many copies its lines name for
  each card and zone; what the parser makes of a line is left open.
* Which cards may lead a deck, which printing is cheapest and what the remote site answers come from outside: any
  legal answer is possible.
* `CardEdits` tells whether an edit may turn reserved copies into copies of another card. The code lets it; `TRUE` is used
  where that is shown (`card_edits`), `FALSE` elsewhere, to see what else holds.

### How the deck records and the share dialog correspond to the code

* `update_deck`, `record_play` and the share requests hold no transaction, so each statement is an action: `Read` is the first
  `get_deck` with the checks and early answers, one action per kind of write follows, `Reload` is the second `get_deck`.
  `Interrupt` may end a request before any of them. A write to a row that is gone changes nothing.
* Of the fields an edit writes, the status and the counts are kept: one it names and two it writes back as read. Tokens
  are generated once, as random 128-bit values are.
* The dialog's buttons are guarded as they are disabled on the page. Apollo's `useMutation` is external: its loading flag
  follows the newest call, every successful call runs its `onCompleted`, also of a component that has been unmounted,
  whose own state can no longer change. `KeptMounted` tells the two places apart that show the dialog: the deck page mounts it
  anew (`deck-detail-utility-overlays.tsx`), the deck list keeps it mounted and changes its deck (`list-page.tsx:448`).
* Decks that follow an outside site show that site's address and ask for no token; they are left out.

### How the jobs part corresponds to the code

* One action is one statement or transaction on the table, because runs, requests, maintenance and other runners
  come in between.
* Time is left out. A row is due when it is in its queue's line, in the order of `run_at`; `BecomeDue` puts rows there
  that were put back. `Maintain` may find any running row without a run to be over an hour old, and any finished
  row over a day old. Requeued rows are due in any order.
* `Stop` may come at any moment and forgets the runs; `Boot` and `StartQueues` are the restart; `StartQueuesOnly` is a
  restart whose requeue failed, which the code only logs. `LeaveUnrecorded` is a worker that panics or an outcome that
  cannot be written.
* Pruned ids stand for new ones (`AUTOINCREMENT` never uses an id again; a row's history does not outlive it in the model).
* In `Rebuilds` and `Questions` each database statement of a run is a step, so a stop, a request or the end of another
  run may come between any two. A *lapse* is a run that ends with a timeout or with a database error inside `perform`:
  it returns `Retry` without having written what it meant to. `lapsed` remembers which rebuilds or questions met one
  (for questions: in their last attempt). Other workers of the same queue only delay a claim and are left out.

### How the server's files correspond to the code

* One action is one step on the file system (a rename, a link replaced, a file written, a directory read, a directory
  removed); any of them may fail, and the process may stop between any two. Where a failure has an effect of its own
  (a half-removed directory, a truncated staged file) the action has that outcome too.
* A file or directory is *whole*, *half* or absent. What a database holds is the number of changes the owner made before it
  was written; SQLite is external: a file with the data of its last checkpoint, and a log that is replayed when the file is
  opened, whichever file it was written for.
* The scheduled tick is a job; `CloudBackup` has its row with the due time, which `Jobs` leaves out, since the due time is what
  goes wrong.

### How the frontend corresponds to the code

* One action is one event: something the user does, or one answer of the browser, the worker, the plugin or the
  server. React renders and runs the effects of a change before the next event, so an effect is part of the action that
  causes it (`LoopFollows` for the scan loop).
* Every answer that was asked for and not cancelled stays deliverable, in any order, for ever; where the code counts
  generations, keeps an `AbortController` or a `cancelled` flag, the model has exactly that check. A terminated worker
  delivers nothing.
* `Apollo` is external: the latest query of a hook is the one whose loading flag is watched, and a mutation's answer is
  written into the cache before the page's handler runs.
* The parts share no variable, so `WebApp` and `AppParts` let a behaviour follow one part and leave the others at their
  start: the states of the run are the sum of the parts' and not their product. The composition says that the properties of
  a part hold of the application because nothing else touches its state; it finds no interaction, since there is
  none beside the shared lists, which are one part.
* What a lookup, a preview, a verdict or an index answers comes from outside: any answer of its type is possible.

Operators with *Seeded fault* in their comment are not part of the model. Each is a variant of the operator below it with
a plausible bug; the runs find each of them, as PROJECT.json's "mutants" list.

## Runs

| run | module | instance | states | shows |
|---|---|---|---|---|
| `two_decks` | `MCManaVault` | two decks, one card, three rows, a location; stacks and quantities up to 2 | 20,464 | `NoDoublePromise`, `HeldCopiesUnfiled`, `ArchivedFrozen`, `HomesKept`: decks that compete for stacks while the collection is edited and decks are archived |
| `cards` | `MCManaVault` | two cards, one in two printings and one a basic land, mainboard and command zone, two single copies, quantities of 1, remote lists of one copy | 53,786 | `TypeOK`, `HoldsOwnCard`: commanders and partners, printings exchanged under held copies, syncs that rewrite what is held, edits of unheld items |
| `decklists` | `MCDecklists` | one deck with mainboard and ideas, one card, two single copies, quantities up to 2, a location, remote lists; every list, every swap of up to two cuts and two adds; two requests under way at once | 39,267 | `NotOverfilled`, `IdeasHoldNothing`, `HomesKept` with imports and swaps among everything else; `SwapAsPreviewed`: every swap ends at the count its preview shows; `GuardedListsKept`: only the request that read a deck before it was frozen or linked still changes its list |
| `share_dialog` | `MCShares` | the deck page: two decks, two requests of any kind by the dialog or by others, three tokens | 1,669,655 | `RevokedIsDead`, `RetiredTokensStayDead`, `LinkOpensThisDeck` |
| `jobs` | `MCJobs` | three ids, a unique and an ordinary worker, one queue of two slots, two attempts, two faults | 205,647 | the five safety properties of the jobs, and that every job ends |
| `rebuilds` | `Rebuilds` | three rebuilds, two job ids, two faults | 105,660 | `OutcomesAgree`, `StartedSettles` |
| `questions` | `Questions` | two questions, two job ids, two faults | 83,563 | `LastAttemptSettles`, `FailedAfterAllAttempts`, `SettledStays`, `QuestionSettles` |
| `app_parts` | `MCAppParts` | see below | 955,123 | the types and the thirteen properties of the frontend and of the server's files |
| `card_edits` | `MCManaVault` | two cards | violation | reserved copies that become another card are reserved again |
| `rebuild_race` | `Rebuilds` | as `rebuilds`, without faults | violation | a rebuild asked for at the wrong moment has no job and blocks later ones |
| `wrong_link` | `MCShares` | as `share_dialog` with two tokens, on the deck list | violation | a late answer puts one deck's link under another deck's title |
| `backup_retry` | `CloudBackup` | minutes up to 4, one of them scheduled, three attempts | violation | a scheduled backup whose first attempt fails is not made |

The properties of `app_parts`, part by part:

| part | instance | properties |
|---|---|---|
| camera, recogniser, loop | two openings at a time, two workers, two requests, one or more threads | `CameraInView`, `CameraComes`, `RequestsAnswerable` |
| frames | two cards, one of them also a token, and a blank art, scores 50, 70 and 80, two places, two locks | `HeldStill` |
| set lock | two sets and none | `LockCurrent` |
| scan list | two scans, one of them changed while it is looked up; two cards, one a token | `ScansAgree`, `PausedLogsNothing` |
| import dialog | two lists, two preview calls at a time | `CommitsWhatIsShown` |
| hand-over | two lists of the scanner, two of other apps | `ScannedListShownOnce` |
| pull list | two cards that lack up to one and two copies and compete for two items | `PullListSound` |
| swaps | a card to cut, one on the Considering board, two names, one copy each | `VerdictIsCurrent` |
| tags | one card, two tags, three taps | `TagsFollowServer` |
| bundles, pictures, restores | three versions; four pictures, two slots, one kept; two changes, any number of backups and restores | `FilesSound` (`BundlesServed`, `PicturesServed`, `DataRecoverable`) |

Why the bounds are enough. Promises involve one item and the deck cards that hold it: two decks, or two zones, and a stack
of two copies give every case of whole and partial moves; three rows leave one free for a split while two are held.
Merging, trimming and exchanging need a quantity that can drop to one and not to none. Each zone, a second printing
and a second card appear in the run whose property tells them apart; together they would be too many states. Two requests of the share links put one
between the statements of the other, three tokens let a link be replaced twice, and a dialog for two decks shows one while an
answer about the other is on its way. Two imports or swaps that have read their deck let one change what the other
read; two entries of a swap may touch rows of one card in both zones. For
jobs, two slots and three rows give a full queue with one row behind it; two attempts give a first and a last one;
two faults let a row be put back, claimed and put back again. A question has three attempts (the code's number).
In the frontend two of everything give a late answer beside a current one: openings, workers, requests, preview calls
and entries are reused when they are free, so the number of events is not bounded, only how many wait at a time. Three
taps put one between the first and the last; one copy of two items for three needs makes cards compete. Three versions
are the current one, the one before and one to be removed; two slots, one picture kept and four pictures let a
directory overflow, be pruned and be written at once; two changes tell a backup, the data since and the data after a
restore apart. Of the environment, `FileRead` reads one file of a content at a time, `ChangeElsewhere` changes the deck
once between two refetches, one restore is staged at a time, and one scan at a time is changed while it is looked up
(`MaxOvertaken`).
The bound on copies (`WithinBound`) and the quantity bound only stop the collection and the list from growing; the bound
on faults leaves out a third stop.
Decks and item ids of `MCManaVault` are symmetric: the specification nowhere tells them apart, and its runs check
no liveness.

`rebuilds` and `questions` check no deadlock: when all ids are used up and nothing is left to do, the system is idle.
`app_parts` and `backup_retry` check none either: a page that was closed stays closed, taps are used up, and minutes end.
The other runs do check it.

### Fairness

`ManaVault`, `Decklists`, `DeckRecords` and `ShareDialog` assume none: nothing makes an owner act, and their properties are
safety properties. `AppParts` and `CloudBackup`
assume none either: a browser may never grant the camera, a server may never answer, and an update need not be retried.
`CameraComes` and `RequestsAnswerable` say instead that there is somebody left to answer.

The jobs need some for `EveryJobEnds`, `StartedSettles` and `QuestionSettles`, all of it weak:

* rows that were put back become due, because time passes;
* each queue's `Claim`: runners look every second and when they are woken (`jobs/mod.rs`, `spawn_queue`);
* `Maintain` for each stuck row: it runs every minute, and a row without a run grows older;
* `Boot` and `StartQueues`: the service manager or the owner starts the process again;
* the end of each run (`RunsEnd`): `execute` puts every worker under its timeout. In `Rebuilds` and `Questions` it is each
  next step of the run.

No request, stop, lost outcome or failure is fair, and enqueueing may go on for ever.

## Disagreements with the text of the repository

Four runs are expected to fail; PROJECT.json quotes the lines.

* `card_edits`. `ensure_allocations_kept` says reserved copies stay where the allocation put them, and refuses edits that
  shrink or file them. An edit may still give them the id of another card. Availability counts promises per card
  (`status.rs`), so the same copies can be reserved again and a later release fails.
* `rebuild_race`. A rebuild's row is finished before its job is. A request in between gets a new row and the old job's id
  (jobs are unique by worker, whatever their arguments), so nobody carries it out, and every later request is answered
  with it.
* `wrong_link`. Each deck is shared "through a bearer link" of its own. On the deck list the share dialog stays mounted and
  writes every answer into one field: an answer about the deck it showed before, arriving last, is offered under the
  name of the deck it shows now. On the deck page this cannot happen (`LinkOpensThisDeck` in `share_dialog`).
* `backup_retry`. "The tick backs up when the owner's schedule matches the minute it was scheduled for", but `perform` compares
  the job's `run_at`, which a retry and the requeueing of a restart overwrite. A scheduled backup whose first attempt
  fails is attempted again at a minute the schedule does not have, ends as done and is not made. A tick that is still
  pending also answers for the minutes after it.

Smaller ones are stated in the properties they qualify: a sync the user asks for does not look at the deck's status
(`ArchivedFrozen`); a claim never compares the attempt with its limit, so jobs that stop the process are attempted again at
each start (`AttemptsAccounted`); a last attempt that times out leaves a question, and a rebuild, pending (`LastAttemptSettles`,
`StartedSettles`); archiving by an edit keeps the deck's reservations (`SetStatus`; only `Disassemble` gives them back).

Other behaviours met while modelling, which no property forbids:

* *Linked and frozen decks.* A sync that was waiting for the site does not read the link again before it writes, so a deck that
  was unlinked meanwhile is overwritten; an import that read its deck before it was archived or linked rewrites it all the same,
  since the transaction loads the deck again and does not ask again. `GuardedListsKept` says that nothing else does.
* *Deck records.* `ensure_share_token` looks for a token and puts one in two statements: of two requests beside each other the
  second replaces the link the first has already answered with. An edit that names no count writes the counts it read, and a
  play recorded in between is lost.
* *Scanner.* A catalog lookup that answers late overwrites the printing or the card the user chose meanwhile, and labels a
  removed scan's frame again (`use-scan-session.ts:218`; `overtaken`, until the next change). A tap on a token leaves the tracker's last card
  alone. After an answer to `applyFocus` the generation is not looked at again before the camera is called live. A worker
  that was superseded while its bundle's answer was read still sets the page to loading.
* *Import dialog.* Editing the text does not invalidate a preview under way, so its rows may be of the old text (`late` in
  `RowsOfText`); a file that is read after the dialog closed fills the closed dialog; a list shared during a commit is
  dropped when the commit ends; a change of the location or of the format leaves the rows previewed with the earlier choice
  (`use-collection-import.ts:193`; neither is modelled); a request to close that was refused is not made again until the dialog closes
  (`components/ui/dialog.tsx:71`).
* *Hand-over.* The plugin keeps a list for two reads, so one from another app may be shown again after a page load
  (`ScannedListShownOnce` speaks of the scanner's lists only); without session storage a handed-over list is lost.
* *Swaps.* Staging a searched card that is staged already takes it off (`deck-swap-model.ts:120`); what is staged while a
  swap is being applied is dropped when that succeeds.
* *Tags.* The check of the newest tap in `onCompleted` decides nothing, since the client has written the answer into the cache
  by then; overlapping failures leave an older optimistic tag, and a rollback of the count is absolute (`muddled`).
* *Pull list.* The ids of choices depend on the first candidate left, so a choice made earlier may be ignored when the
  deck changes.
* *Bundles.* A directory that was removed half-way is kept when its version is offered again, is served then, and is not
  repaired (`halfReused`).
* *Pictures.* Preparing the store takes away the temporary files of the other render, which then fails; the comment speaks of
  what an interrupted render left.
* *Restores.* A process that stops while it stages a backup leaves a truncated file that stops every later start. A restore by
  hand that is cut short between the copy and the removal of the log leaves the old log beside the new file (`cutShort`).
  The data are copied to `pre-restore-<timestamp>` first (`docs/self-hosting.md:412`), but the stamp has whole seconds and
  the directory may exist (`local.rs:90`, `:167`): a restore that fails or stops after it began to overwrite the database and
  is made again within the second replaces the copy with the half-written file. `saved` leaves such data out, as it does
  a copy beside the log an earlier restore of the second left, so `DataRecoverable` promises a copy for restores of
  different seconds, and that a later restore never takes an earlier one's copy away. The clock is taken not to be put back.

## Proofs

| module | proves | rests on |
|---|---|---|
| `ManaVaultProofs` | lemmas on `Stock`, and of `ManaVault` `TypeOK`, `NoDoublePromise`, `OneHolder`, `HeldCopiesUnfiled`, `HoldsOwnCard`, `EveryReservationReleasable` | `~CardEdits` |
| `HoldingProofs` | `NotOverfilled`, `IdeasHoldNothing`, `ArchivedFrozen`, `HomesKept` of `ManaVault`; with imports and swaps (`DecklistsSpec`) `NotOverfilled`, `IdeasHoldNothing`, `HomesKept`, `NoDoublePromise`, `HoldsOwnCard`, `HeldCopiesUnfiled`, `GuardedListsKept`, `SwapAsPreviewed` | `ManaVaultProofs`; `~CardEdits`; `DecklistsAssumption` |
| `ShareProofs` | `RecordsOK`, `RevokedIsDead`, `RetiredTokensStayDead`; `DialogOK`, `LinkOpensThisDeck`; `ShareSpec => RecordsSpec` | the constants' assumptions; `~KeptMounted` for `LinkOpensThisDeck` |
| `JobsProofs` | `TypeOK`, `UniquePending`, `SlotsRespected`, `OneRunPerJob`, `AttemptsAccounted`, `FinishedStays` | the constants' assumptions |
| `RebuildsProofs` | `OutcomesAgree` | `JobsProofs`, instantiated for the pricing queue |
| `QuestionsProofs` | `FailedAfterAllAttempts`, `SettledStays`, `LastAttemptSettles` | `JobsProofs`, instantiated for the ai queue |
| `ScanProofs` | `CameraInView`, `CameraComes`, `RequestsAnswerable`, `LockCurrent`, `HeldStill`, `ScansAgree`, `PausedLogsNothing` of `WebSpec`; the types of the set lock and of the scan list | the constants' assumptions |
| `PagesProofs` | `CommitsWhatIsShown`, `ScannedListShownOnce`, `VerdictIsCurrent`, `TagsFollowServer`, `PullListSound` of `WebSpec`; `AppSpec => WebSpec`; `FilesSound` of `AppSpec` with its parts `BundlesServed`, `PicturesServed`, `DataRecoverable`; `AppTypeOK` | `ScanProofs`; the constants' assumptions |

The theorems hold for every value of the constants that meets the assumptions named in the modules: any number of decks,
cards, zones, items, copies, remote lists, jobs, workers, queues, slots, attempts and faults; of openings, workers, requests,
cards, scores, places, sets, scans, lists, calls, taps, entries of a swap, versions, pictures and changes.

* *Tables.* The invariant is `TablesOK` and `Sound(tables)`: every item belongs to one deck card at most, holds at least
  what is reserved of it, is in no location while reserved, and is a copy of its holder's card. None of these is
  inductive alone. That availability is counted right needs holders to hold their own card, for
  promises are counted among deck cards of that card; that a release finds its copies needs the single holder; and an item
  keeps its single holder because it is reserved whole only when nothing of it is reserved; any smaller part is split
  off as a row of its own.
  The first half of `ManaVaultProofs` shows each operator of `Stock` to keep `Sound`, the second each action to apply such
  operators to sound snapshots. With `CardEdits` the fourth part fails first, as the run shows.
* *Holdings.* A total is the number of its units, so `HoldingProofs` compares totals by mapping units to units: what each move
  of `Stock` does to the total of one deck card comes first, then one lemma per action. The invariants are `Fits` (row by
  row: copies and proxies within the quantity) and `IdleEmpty` on top of that of the tables. For `ArchivedFrozen`, every action
  that changes a deck card asks whether its deck may be edited, and what else moves copies only takes them away.
* *Homes.* Counting per location and printing does not survive a move whose parts cancel out only in the sum, so the proof
  speaks of single copies: after each move there is a bijection between the copies of before and after under which every
  copy shows the same printing and belongs to the same place, reserved or not (`SameHomes`). A release that meets a row of
  the location adds its copies to that row's, a split takes the last ones for the new row; the bijection follows them.
  It composes, so transactions of several moves have one too, and it makes the counts equal (`HomesStay`). What the
  invariant of the tables adds is that a copy has one holder: its home is counted once. A remote list and an add from
  Considering also give rows of allocations another deck card; there the rows that are dropped must be empty by then,
  which needs `Fits` (`WriteEntriesHomes`).
* *Imports and swaps.* The invariants of the tables and of the holdings are stated of a snapshot with its deck cards (`Good` and its
  like), so that they speak of the states inside a swap too. Each cut and each add keeps them, and an induction on the number
  of entries carries them over a swap of any length. The library's induction theorems take an operator and cannot be used;
  the induction is on sets instead: the numbers of entries after which every snapshot is good contain 0 and the successor
  of each member, so they are all of them (`AllNaturals`, `Steps`, `SwappedThrough`). `GuardedListsStayKept` needs no
  more than which decks an action may write.
* *Counts of a swap.* A sum is the number of its parts (`SumIsParts`), so that nothing depends on the order of adding. With
  the sets of `SwappedThrough` indexed by the stage: after `n` cuts every row of the deck lists its quantity less what those
  cuts take of it (`CutStage`); each add then raises the deck's count by its quantity, whether it raises a row or
  makes one (`AddStage`). `DecklistsAssumption`, that catalog and zones are finite, makes the deck's rows finitely many.
* *Share links.* A token belongs to the deck it was generated for wherever it is: in the table, read by a request or in an
  answer (`Owned`, `RequestsOwn`). So a write of one deck never brings back a token another request retired, and a revoked
  token is dead from the write on (`RevokedOnceWritten`). On top of that, a dialog that is not kept mounted waits only for answers
  about the deck it shows (`Waiting`), hence its field has that deck's link (`FieldOwn`).
* *Jobs.* `OneRunPerJob` needs the lines to hold queued rows only, each once and in its own queue; `SlotsRespected` needs
  the same; the attempts need the stronger statement that a live row without a run has an attempt left or paid for.
* *Rebuilds, questions.* Each keeps the jobs' invariant and adds that a question or rebuild has one job at most, that a job
  without a run starts over, and what a run at each step has stored. `INSTANCE JobsProofs` yields the jobs' lemmas;
  `SameEnqueue` and its like say that both instances are one definition.
* *Scanner.* `DeviceInv` says that the call with the current generation is why the page shows an opening camera, that whatever
  hid or closed the page left no such call, and that a worker with its bundle asks for none. `StreakInv` relates the
  tracker's streak to the last frames; `ListInv` has every listed entry once, and its lookup and label as the entry is unless
  the scan was overtaken.
* *Pages.* Rows that are not late are of the text entered wherever they are: shown, or on their way (`RowsInv`); the
  debounced swap is the staged one once settled, and an answer is on the debounced one (`SwapInv`).
* *Tags.* As long as answers come in the order the server worked, the last answered tap on a card has its tags as the server has
  them, less the tags deleted later; with no such tap the cache agrees with the server up to those (`Follows`), unless the
  newest tap on the card still waits for the server (`Hanging`). What a tap that was made alone would put back is what
  the server has (`RollsBack`). With nothing under way nothing is left of the exceptions. Answers out of order
  (`tagOvertaken`) and failures that overlap another tap (`muddled`) do leave the cache different; the property names both.
* *Pull list.* The list is built by folds within folds, so each fold is first shown to be a run: a sequence of lists, one for
  each element, that starts with the base (`TakeRuns`, `ChoiceRuns`, `CardRuns`, `GiveRuns`, from `FoldExists`). `Stages` then
  carries a fact along a run. The facts are amounts, how many copies of an item or for a card a list offers: a card adds as
  many as it lacks or counts the rest as skipped (`AddCardDoes`), and what is used of an item stays within what is free as
  long as the user chose nothing (`Untouched`). What the dialog lets through fits by its own check item by item, and by the
  list's construction card by card (`ConfirmedFits`); so the server, giving it entry after entry, never meets one that does
  not (`GivenAll`). A choice the user made may take an item twice over: there it is the dialog's check alone that holds.
* *Files.* What an update has verified is whole when it is published, unless half a directory was in its place
  (`BundlesInv`); a picture gets its name when it is whole, and every file over the limit is one that a render has published since its
  listing (`PicturesInv`); while a restore fills its directory, what was saved before is in the directories before it; once
  filled, the directory holds what the files do, unless an earlier log lies in it; and a log belongs to the file beside it
  or is removed before the server opens it (`RestoresInv`).
* *Composition.* A step of one part leaves the others unchanged, so `AppSpec => WebSpec`: the theorems of the frontend alone
  hold of what `app_parts` checks.

* *Types.* `AppTypeOK` (`AllTyped`) puts the types of all thirteen parts together. Most come with the invariants above; the rest need
  a fact of their own. What a filter leaves of a frame's candidates is a sequence of its elements, so the vote is on a card
  that was read (`IdentifiedKey`). No two entries have one id, so there are never more than there are ids (`EntriesFit`). The
  server has carried out no more taps than have left the state `sent`, which is what bounds its count (`TagsRest`).
  A tick that is queued has a start left (`TickTyped`); after a stop it is the guard of `RestartTick`, a bound of the model,
  that keeps one, since nothing in the code limits how often a tick is started.

Only model-checked: the liveness properties `EveryJobEnds`, `StartedSettles` and `QuestionSettles`, which the proof system does
not reach. Every safety property of a passing run is a theorem; `TypeOK` of `Rebuilds` and `Questions` is part of the proved
invariants.

## Not modelled, and why

* Of the deck's record, names, formats, primers and covers: `update_deck` treats them as the counts, which are modelled. Share
  links of the trade binder, the want list and buylists follow the same code pattern on other tables.
* What a line of a decklist means, preconstructed decks (a new deck and an import into it) and export.
* Requests that wait for a picture, and the notices to them: what a request shows after a failed attempt is up to the
  page that asked.
* A scanner page that is opened while the browser hides it: the page of the model is in view when it mounts.
* Retention of backups, the providers and the archives, the choice of a bundle's release, and what a cron expression
  matches: calls to outside services, formats and arithmetic on names and dates, with no state that is shared.
* Login limits: a counter per client behind one lock; a property would restate the counter.
* Catalog and price synchronisation, search, deck statistics, legality, trade pages: bulk loading and queries that change none
  of the modelled tables.
* The remaining pages of the frontend, by far its largest share: they send queries and render what comes, group, filter
  and format it, or keep the draft of one form until it is sent. The GraphQL types are generated.
* Outside services (Scryfall, the deck sites, language models, storage providers), the browser, Apollo and SQLite are
  external: they answer anything of their type, or fail.
* The server's wiring, the native shells (but for the plugin's list) and the set-up of the database.

## Plan

1. Done: the collection (`Stock`, `Tables`, `Allocation`, `DeckCards`, `ExternalSync`, `CollectionItems`, composed in
   `ManaVault`); `Jobs` and its clients `Rebuilds` and `Questions`; the frontend's nine parts, composed in `WebApp`; the
   server's files and the scheduled backup, composed with it in `AppParts`; the proofs above.
2. Done: what reads before it writes: `Decklists`, `DeckRecords`, `ShareDialog`.
3. An abstract ledger of the collection (which copies exist, where each belongs, who may hold it) that `ManaVault`
   implements under a refinement mapping; `Homes` is its first half.
4. The proof of the ledger's step simulation; `SameHomes` gives the copies' part of it.
5. The requests that wait for a picture, as clients of `Jobs` and `Pictures`.
