---------------------------- MODULE CloudBackup ----------------------------
(***************************************************************************)
(* The scheduled cloud backup (manavault-system, backup/worker.rs): every  *)
(* minute the crontab asks for a tick, a job of which one may be pending,  *)
(* and a tick backs up when the owner's schedule has the minute of its     *)
(* run_at.  The job's row is modelled as Jobs has it, with its due time.   *)
(*                                                                         *)
(* The schedule stays as it is and a provider is set.                      *)
(***************************************************************************)
EXTENDS Naturals

CONSTANTS
  MaxMinute,   \* bound: the minutes that pass
  Scheduled,   \* the minutes the owner's schedule has
  MaxAttempts  \* of a tick

ASSUME BackupAssumption ==
  /\ MaxMinute \in Nat /\ MaxAttempts \in Nat \ {0}
  /\ Scheduled \subseteq Nat

MaxStarts == MaxAttempts + MaxMinute   \* bound: how often a tick is attempted

VARIABLES
  minute,
  tick,        \* the pending tick: its minute, its run_at, its attempts
  backedUp     \* history: the minutes whose tick took a backup

backupVars == <<minute, tick, backedUp>>

NoTick == [state |-> "none", minute |-> 0, runAt |-> 0, attempt |-> 0]

BackupType ==
  /\ minute \in 0 .. MaxMinute
  /\ tick \in [state : {"none", "queued", "running"}, minute : 0 .. MaxMinute,
               runAt : 0 .. MaxMinute + 1, attempt : 0 .. MaxStarts]
  /\ backedUp \subseteq 0 .. MaxMinute

BackupInit == minute = 0 /\ tick = NoTick /\ backedUp = {}

-----------------------------------------------------------------------------
(* The crontab asks for a tick; it is answered with the pending one.        *)
NextMinute ==
  /\ minute < MaxMinute
  /\ minute' = minute + 1
  /\ tick' = IF tick # NoTick THEN tick
             ELSE [state |-> "queued", minute |-> minute', runAt |-> minute', attempt |-> 0]
  /\ UNCHANGED backedUp

ClaimTick ==
  /\ tick.state = "queued" /\ tick.runAt <= minute
  /\ tick' = [tick EXCEPT !.state = "running", !.attempt = @ + 1]
  /\ UNCHANGED <<minute, backedUp>>

(* A failed attempt is due again some seconds later, in this minute or the  *)
(* next, until the attempts are used up.                                    *)
Postponed ==
  IF tick.attempt >= MaxAttempts THEN {NoTick}
  ELSE {[tick EXCEPT !.state = "queued", !.runAt = m] : m \in {minute, minute + 1}}

(* perform: a minute that is not scheduled needs no backup.  An attempt may *)
(* fail after its upload, when older backups cannot be removed.             *)
NothingDue ==
  /\ tick.state = "running" /\ tick.runAt \notin Scheduled
  /\ tick' = NoTick
  /\ UNCHANGED <<minute, backedUp>>

TakeBackup ==
  /\ tick.state = "running" /\ tick.runAt \in Scheduled
  /\ \/ /\ backedUp' = backedUp \cup {tick.minute}
        /\ tick' = NoTick
     \/ /\ backedUp' \in {backedUp, backedUp \cup {tick.minute}}
        /\ tick' \in Postponed
  /\ UNCHANGED minute

(* The settings cannot be read, or the attempt takes too long.              *)
TickFails ==
  /\ tick.state = "running"
  /\ tick' \in Postponed
  /\ UNCHANGED <<minute, backedUp>>

(* requeue_running after a stop: due now.                                   *)
RestartTick ==
  /\ tick.state = "running" /\ tick.attempt < MaxStarts
  /\ tick' = [tick EXCEPT !.state = "queued", !.runAt = minute]
  /\ UNCHANGED <<minute, backedUp>>

BackupNext ==
  NextMinute \/ ClaimTick \/ NothingDue \/ TakeBackup \/ TickFails \/ RestartTick

BackupSpec == BackupInit /\ [][BackupNext]_backupVars

-----------------------------------------------------------------------------
(* "The tick backs up when the owner's schedule matches the minute it was   *)
(* scheduled for" (worker.rs:2): the tick of a scheduled minute ends with a *)
(* backup or with its attempts used up.                                     *)
TicksBackUp ==
  [][tick.minute \in Scheduled /\ tick # NoTick /\ tick' = NoTick =>
       tick.minute \in backedUp' \/ tick.attempt >= MaxAttempts]_backupVars
=============================================================================
