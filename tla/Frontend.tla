------------------------------ MODULE Frontend ------------------------------
(***************************************************************************)
(* How cLdvbdev supervises its front end: two timers and two readers, each *)
(* of which starts or stops the timers of the others.                      *)
(*                                                                         *)
(*   lock_watcher   runs from a tuning request to the lock it waits for;   *)
(*   mute_watcher   is restarted by every packet, by a lock and by its     *)
(*                  loss.                                                  *)
(*                                                                         *)
(* When one of them expires the front end is tuned again.  A timer is what *)
(* it has still to run.  Callbacks run to their end, and the loop is       *)
(* prompt: time passes when no timer has expired.  FrontendRead loops over *)
(* the queued events and is cut at each of them.                           *)
(***************************************************************************)
EXTENDS Integers, Sequences

CONSTANTS
  Tuned,        \* i_frequency is set: the program drives the front end
  LockTimeout,  \* i_frontend_timeout_duration, 0 if there is none (-O)
  MuteTimeout,  \* DVB_DVR_READ_TIMEOUT
  QuitTimeout,  \* the delay of -Q, when it is given
  MaxErrors,    \* MAX_ERRORS
  MaxEvents,    \* events the driver queues; bounds the model
  Off           \* a timer that does not run

ASSUME TimersAssumption ==
  /\ Tuned \in BOOLEAN
  /\ LockTimeout \in Nat
  /\ MuteTimeout \in Nat \ {0}
  /\ QuitTimeout \in Nat
  /\ MaxErrors \in Nat
  /\ MaxEvents \in Nat
  /\ Off \notin Int

\* The part of fe_status_t FrontendRead acts upon.
Status == SUBSET {"LOCK", "REINIT"}

VARIABLES
  running,        \* the event loop runs
  lock,           \* lock_watcher
  mute,           \* mute_watcher
  quit,           \* quit_watcher
  i_quit_timeout_duration, \* 0 without -Q
  i_last_status,  \* the last status read since the front end was tuned
  events,         \* status events the driver has queued
  reading,        \* FrontendRead loops over them
  i_tuner_errors  \* transport errors counted by demux_Handle

quitVars == <<quit, i_quit_timeout_duration>>
timerVars == <<lock, mute, quitVars>>
statusVars == <<i_last_status, events, reading>>
frontendVars == <<running, timerVars, statusVars, i_tuner_errors>>

Timer(duration) == 0 .. duration \cup {Off}

FrontendTypeOK ==
  /\ running \in BOOLEAN
  /\ lock \in Timer(LockTimeout)
  /\ mute \in Timer(MuteTimeout)
  /\ quit \in Timer(QuitTimeout)
  /\ i_quit_timeout_duration \in {0, QuitTimeout}
  /\ i_last_status \in Status
  /\ events \in Seq(Status)
  /\ reading \in BOOLEAN
  /\ i_tuner_errors \in 0 .. MaxErrors

-----------------------------------------------------------------------------
(***************************************************************************)
(* dev_Open tunes the front end before it calls cLev_timer_init on the     *)
(* lock timer.  cLev_timer_again then finds the fresh memory of the        *)
(* object, which is too large for the heap and comes zeroed: a timer with  *)
(* no repeat value, which it does not start.                               *)
(***************************************************************************)
\* Mutant: without the quit timer.
FrontendInit_NoQuit ==
  /\ running = TRUE
  /\ lock = Off /\ mute = Off /\ quit = Off
  /\ i_quit_timeout_duration \in {0, QuitTimeout}
  /\ i_last_status = {}
  /\ events = << >>
  /\ reading = FALSE
  /\ i_tuner_errors = 0

FrontendInit ==
  /\ running = TRUE
  /\ lock = Off
  /\ mute = Off
  /\ i_quit_timeout_duration \in {0, QuitTimeout}
  /\ quit = IF i_quit_timeout_duration > 0 THEN i_quit_timeout_duration ELSE Off
  /\ i_last_status = {}
  /\ events = << >>
  /\ reading = FALSE
  /\ i_tuner_errors = 0

FrontendIdle == running /\ ~ reading

\* Mutant: the status of the former tuning stays.
FrontendSet_KeepsStatus ==
  /\ events' = << >>
  /\ UNCHANGED i_last_status
  /\ lock' = IF LockTimeout > 0 THEN LockTimeout ELSE lock
  /\ running' \in BOOLEAN

\* Mutant: the lock is not waited for.
FrontendSet_NoTimer ==
  /\ events' = << >>
  /\ i_last_status' = {}
  /\ UNCHANGED lock
  /\ running' \in BOOLEAN

\* The queued events are dropped and the front end tuned; the program exits
\* when an ioctl fails.
FrontendSet ==
  /\ events' = << >>
  /\ i_last_status' = {}
  /\ lock' = IF LockTimeout > 0 THEN LockTimeout ELSE lock
  /\ running' \in BOOLEAN

NoFrontendSet == UNCHANGED <<running, lock, i_last_status, events>>

-----------------------------------------------------------------------------
Expired == 0 \in {lock, mute, quit}

\* The driver queues a status event.  The queue may hold some when a timer
\* expires; the loop acts on them and on the timer before the next one.
Report(status) ==
  /\ FrontendIdle /\ Tuned /\ ~ Expired
  /\ Len(events) < MaxEvents
  /\ events' = Append(events, status)
  /\ UNCHANGED <<running, timerVars, i_last_status, reading, i_tuner_errors>>

(***************************************************************************)
(* One iteration of FrontendRead.  A lock hands over from the lock timer   *)
(* to the mute timer, and so does its loss if there is a lock timeout.     *)
(***************************************************************************)
FrontendRead ==
  LET status == Head(events)
      up     == status \ i_last_status
      down   == i_last_status \ status
      handed == "LOCK" \in up \/ ("LOCK" \in down /\ LockTimeout > 0)
  IN
  /\ running /\ events # << >>
  /\ mute' = IF handed THEN MuteTimeout ELSE mute
  /\ IF "REINIT" \in up
     THEN FrontendSet
     ELSE /\ lock' = IF handed THEN Off ELSE lock
          /\ i_last_status' = status
          /\ events' = Tail(events)
          /\ UNCHANGED running
  /\ reading' = (events' # << >>)
  /\ UNCHANGED <<quitVars, i_tuner_errors>>

(***************************************************************************)
(* DVRRead got a packet, which demux_Handle counts if it has a transport   *)
(* error; calm means that WATCHDOG_WAIT has passed since the last one.     *)
(***************************************************************************)
\* Mutant: the count is not reset when the front end is tuned again.
DVRRead_KeepsErrors(error, calm) ==
  LET errors == IF error THEN i_tuner_errors + 1
                ELSE IF calm THEN 0 ELSE i_tuner_errors
  IN
  /\ FrontendIdle
  /\ mute' = MuteTimeout
  /\ i_tuner_errors' = errors
  /\ IF errors > MaxErrors /\ Tuned THEN FrontendSet ELSE NoFrontendSet
  /\ UNCHANGED <<quitVars, reading>>

DVRRead(error, calm) ==
  LET errors == IF error THEN i_tuner_errors + 1
                ELSE IF calm THEN 0 ELSE i_tuner_errors
  IN
  /\ FrontendIdle
  /\ mute' = MuteTimeout
  /\ i_tuner_errors' = IF errors > MaxErrors THEN 0 ELSE errors
  /\ IF errors > MaxErrors /\ Tuned THEN FrontendSet ELSE NoFrontendSet
  /\ UNCHANGED <<quitVars, reading>>

\* No packet for MuteTimeout.  The CAM is reset as well.
DVRMuteCb ==
  /\ FrontendIdle
  /\ mute = 0
  /\ mute' = Off
  /\ IF Tuned THEN FrontendSet ELSE NoFrontendSet
  /\ UNCHANGED <<quitVars, reading, i_tuner_errors>>

\* Mutant: the front end is not tuned again.
FrontendLockCb_Stops ==
  /\ FrontendIdle
  /\ lock = 0
  /\ lock' = Off
  /\ UNCHANGED <<running, mute, quitVars, statusVars, i_tuner_errors>>

\* No lock for LockTimeout.
FrontendLockCb ==
  /\ FrontendIdle
  /\ lock = 0
  /\ IF i_quit_timeout_duration > 0
     THEN running' = FALSE /\ UNCHANGED <<lock, i_last_status, events>>
     ELSE FrontendSet
  /\ UNCHANGED <<mute, quitVars, reading, i_tuner_errors>>

\* break_cb of the timer demux_Open started.
QuitCb ==
  /\ FrontendIdle
  /\ quit = 0
  /\ running' = FALSE
  /\ quit' = Off
  /\ UNCHANGED <<i_quit_timeout_duration, lock, mute, statusVars, i_tuner_errors>>

Less(timer) == IF timer = Off THEN Off ELSE timer - 1

Tick ==
  /\ FrontendIdle
  /\ ~ Expired
  /\ lock' = Less(lock)
  /\ mute' = Less(mute)
  /\ quit' = Less(quit)
  /\ UNCHANGED <<i_quit_timeout_duration, running, statusVars, i_tuner_errors>>

-----------------------------------------------------------------------------
FrontendNext ==
  \/ \E status \in Status : Report(status)
  \/ FrontendRead
  \/ \E error, calm \in BOOLEAN : DVRRead(error, calm)
  \/ DVRMuteCb
  \/ FrontendLockCb
  \/ QuitCb
  \/ Tick

\* Time goes on whatever arrives, and the loop runs what is due.  Neither
\* packets nor status events need ever come.
Fairness ==
  /\ SF_frontendVars(Tick)
  /\ WF_frontendVars(FrontendRead)
  /\ WF_frontendVars(DVRMuteCb)
  /\ WF_frontendVars(FrontendLockCb)
  /\ WF_frontendVars(QuitCb)

FrontendSpec == FrontendInit /\ [][FrontendNext]_frontendVars /\ Fairness

-----------------------------------------------------------------------------
(* Properties.                                                             *)

(***************************************************************************)
(* A front end the program takes for locked has its packets watched and no *)
(* lock timer, which would tune it away or end the program.  FrontendRead  *)
(* only sees a lock as a change of i_last_status, so all that tunes has to *)
(* forget the status and all that sees the lock to switch the timers.      *)
(***************************************************************************)
LockedIsWatched == "LOCK" \in i_last_status => mute # Off /\ lock = Off

Supervised == lock # Off \/ mute # Off

(***************************************************************************)
(* Each callback that stops a timer starts one: once the front end is      *)
(* supervised it stays so, and no order of locks, losses, reinits, packets *)
(* and timeouts leaves it waiting for nothing.                             *)
(***************************************************************************)
SupervisionStays == Tuned /\ LockTimeout > 0 /\ Supervised => Supervised'

SupervisionKept == [][SupervisionStays]_frontendVars

(***************************************************************************)
(* A supervised front end that neither locks nor delivers is tuned again,  *)
(* and again: from every point on a packet or a lock comes, or the front   *)
(* end is tuned, or the program ends.                                      *)
(***************************************************************************)
Fresh == lock = LockTimeout \/ mute = MuteTimeout

Retried == Supervised /\ Tuned /\ LockTimeout > 0 ~> Fresh \/ ~ running

(***************************************************************************)
(* A program started with -Q ends, whatever the front end and the packets  *)
(* do: nothing restarts or stops quit_watcher.                             *)
(***************************************************************************)
Ends == i_quit_timeout_duration > 0 ~> ~ running

=============================================================================
