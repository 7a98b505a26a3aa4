------------------------------ MODULE ScanLock ------------------------------
(***************************************************************************)
(* The scanner's set lock (pages/scan/use-scan-session.ts).  The server    *)
(* lists the arts printed in the locked sets; the user may lock other sets *)
(* while a list is on its way.                                             *)
(***************************************************************************)
EXTENDS Naturals

CONSTANTS
  LockChoice,   \* what the user may lock
  NoLock,       \* nothing locked
  ArtsIn,       \* the arts printed in the locked sets
  ShownIn       \* those whose representative printing is in them

ASSUME LockAssumption ==
  /\ NoLock \in LockChoice
  /\ \A l \in LockChoice : ShownIn[l] \subseteq ArtsIn[l] /\ ArtsIn[l] \subseteq ArtsIn[NoLock]

VARIABLES
  locked,       \* settings.lockedSets
  lock,         \* lockRef: what it allows, once that is known
  lockAsked,    \* the query for the current lock is under way
  lateLocks     \* the earlier locks whose queries are still under way

lockVars == <<locked, lock, lockAsked, lateLocks>>

Allows(arts) == [status |-> "ready", arts |-> arts]
LockLoading == [status |-> "loading", arts |-> {}]

LockType ==
  /\ locked \in LockChoice /\ lateLocks \subseteq LockChoice
  /\ lock \in [status : {"ready", "loading"}, arts : SUBSET ArtsIn[NoLock]]
  /\ lockAsked \in BOOLEAN

LockInit ==
  /\ locked = NoLock
  /\ lock = Allows(ArtsIn[NoLock])
  /\ lockAsked = FALSE
  /\ lateLocks = {}

-----------------------------------------------------------------------------
(* A changed lock cancels the query of the one before.                      *)
SetLock(l) ==
  /\ l # locked
  /\ locked' = l
  /\ lock' = IF l = NoLock THEN Allows(ArtsIn[NoLock]) ELSE LockLoading
  /\ lockAsked' = (l # NoLock)
  /\ lateLocks' = IF lockAsked THEN lateLocks \cup {locked} ELSE lateLocks

(* The server lists the arts; without its list the lock makes do.           *)
LockAnswered ==
  /\ lockAsked
  /\ lockAsked' = FALSE
  /\ lock' \in {Allows(ArtsIn[locked]), Allows(ShownIn[locked])}
  /\ UNCHANGED <<locked, lateLocks>>

(* Seeded fault: the answer for an earlier lock is used.                    *)
UseLate(l) == Allows(ArtsIn[l])

(* `cancelled`: the answer for an earlier lock is dropped.                  *)
DropLate(l) == lock

LateLockAnswered(l) ==
  /\ l \in lateLocks
  /\ lateLocks' = lateLocks \ {l}
  /\ lock' = DropLate(l)
  /\ UNCHANGED <<locked, lockAsked>>

LockNext == LockAnswered \/ \E l \in LockChoice : SetLock(l) \/ LateLockAnswered(l)

-----------------------------------------------------------------------------
(* "Only candidates it accepts can be logged": what the loop allows is in   *)
(* the sets locked now, also when the list for an earlier lock comes late.  *)
LockCurrent == lock.status = "ready" => lock.arts \subseteq ArtsIn[locked]
=============================================================================
