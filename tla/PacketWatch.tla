----------------------------- MODULE PacketWatch -----------------------------
(***************************************************************************)
(* What demux_Handle infers from the packets that pass: whether a PID is   *)
(* up (i_es_timeout), whether the CAM still descrambles the streams marked *)
(* always on (OUTPUT_WATCH), and whether the tuner delivers.  It keeps a   *)
(* timer per PID, dates and error counters, and resets the CAM or tunes    *)
(* again when a counter passes its limit.                                  *)
(*                                                                         *)
(* Time passes in ticks.  A date is kept as the ticks since then, up to    *)
(* one more than the longest delay it is compared with.                    *)
(***************************************************************************)
EXTENDS Integers, FiniteSetsExt

CONSTANTS
  Pids,          \* PIDs that carry packets
  TdtPid,        \* TDT_PID, which has a longer timeout
  PesPids,       \* PIDs with b_pes
  MaxOutputs,    \* number of watched outputs, in the order of the lists of subscribers
  Takers,        \* PID -> the watched outputs subscribed to it
  EsTimeout,     \* i_es_timeout
  TdtTimeout,    \* 30 s
  Wait,          \* WATCHDOG_WAIT
  Refractory,    \* WATCHDOG_REFRACTORY_PERIOD
  MaxErrors      \* MAX_ERRORS

Slots == 1 .. MaxOutputs

ASSUME TimesAssumption ==
  /\ EsTimeout \in Nat \ {0}
  /\ TdtTimeout \in Nat \ {0}
  /\ Wait \in Nat
  /\ Refractory \in Nat
  /\ MaxErrors \in Nat
  /\ MaxOutputs \in Nat
ASSUME PidsAssumption ==
  /\ PesPids \subseteq Pids
  /\ Takers \in [Pids -> SUBSET Slots]

(***************************************************************************)
(* A packet: its PID, whether it is scrambled, has a transport error, has  *)
(* a unit start with its payload in reach, and has a PES header there.     *)
(***************************************************************************)
Packets ==
  [pid : Pids, scrambled : BOOLEAN, error : BOOLEAN, start : BOOLEAN, pes : BOOLEAN]

VARIABLES
  i_pes_status,    \* PID -> -1 down, 0 up without PES in clear, 1 up with it
  timeout_watcher, \* PID -> ticks until the timer expires, or -1: stopped
  i_nb_errors,     \* output -> errors counted
  since_error,     \* output -> ticks since i_last_error
  since_reset,     \* ticks since i_last_reset
  i_tuner_errors,  \* transport errors counted
  since_transport, \* ticks since the last transport error
  since_telling,   \* history: PID -> ticks since a packet told of its state
  step             \* what the last step was: its packet and the resets it caused

vars == <<i_pes_status, timeout_watcher, i_nb_errors, since_error, since_reset,
          i_tuner_errors, since_transport, since_telling, step>>

Idle == [packet |-> {}, cam_reset |-> FALSE, retune |-> FALSE]

Timeout(p) == IF p = TdtPid THEN TdtTimeout ELSE EsTimeout

TypeOK ==
  /\ i_pes_status \in [Pids -> {-1, 0, 1}]
  /\ timeout_watcher \in [Pids -> -1 .. (EsTimeout + TdtTimeout)]
  /\ \A p \in Pids : timeout_watcher[p] <= Timeout(p)
  /\ i_nb_errors \in [Slots -> 0 .. MaxErrors]
  /\ since_error \in [Slots -> 0 .. Wait + 1]
  /\ since_reset \in 0 .. Refractory + 1
  /\ i_tuner_errors \in 0 .. MaxErrors
  /\ since_transport \in 0 .. Wait + 1
  /\ since_telling \in [Pids -> 0 .. (EsTimeout + TdtTimeout)]
  /\ step \in [packet : SUBSET Packets, cam_reset : BOOLEAN, retune : BOOLEAN]

Init ==
  /\ i_pes_status = [p \in Pids |-> -1]
  /\ timeout_watcher = [p \in Pids |-> -1]
  /\ i_nb_errors = [o \in Slots |-> 0]
  /\ since_error = [o \in Slots |-> Wait + 1]
  /\ since_reset = Refractory + 1
  /\ i_tuner_errors = 0
  /\ since_transport = Wait + 1
  /\ since_telling = [p \in Pids |-> Timeout(p)]
  /\ step = Idle

-----------------------------------------------------------------------------
(* A packet in demux_Handle.                                               *)

\* The packet says whether its PID carries PES in clear.
Telling(k) == k.scrambled \/ k.start

\* i_pes_status after packet k.
Status(k) == IF ~ k.scrambled /\ k.pes THEN 1 ELSE 0

\* Mutant: restarts the timer only when the status changes.
Watched_OnChange(k) ==
  /\ i_pes_status' = IF Telling(k) THEN [i_pes_status EXCEPT ![k.pid] = Status(k)]
                     ELSE i_pes_status
  /\ timeout_watcher' = IF Telling(k) /\ i_pes_status[k.pid] # Status(k)
                        THEN [timeout_watcher EXCEPT ![k.pid] = Timeout(k.pid)]
                        ELSE timeout_watcher

\* The ES watch: any telling packet starts the timer of its PID again.
Watched(k) ==
  /\ i_pes_status' = IF Telling(k) THEN [i_pes_status EXCEPT ![k.pid] = Status(k)]
                     ELSE i_pes_status
  /\ timeout_watcher' = IF Telling(k) THEN [timeout_watcher EXCEPT ![k.pid] = Timeout(k.pid)]
                        ELSE timeout_watcher

\* The transport errors counted up to packet k.
TunerErrors(k) ==
  IF k.error THEN i_tuner_errors + 1
  ELSE IF since_transport > Wait THEN 0 ELSE i_tuner_errors

\* The tuner watchdog.
TunerChecked(k) ==
  /\ since_transport' = IF k.error THEN 0 ELSE since_transport
  /\ i_tuner_errors' = IF TunerErrors(k) > MaxErrors THEN 0 ELSE TunerErrors(k)

\* The stream of packet k is not descrambled.
Undescrambled(k) == k.scrambled \/ (k.pid \in PesPids /\ ~ k.pes)

\* Mutant: errors count during the refractory period too.
Counts_Always(k) == k.start /\ Undescrambled(k)

\* An error in packet k counts: the CAM was not reset a short while ago.
Counts(k) == k.start /\ Undescrambled(k) /\ since_reset > Refractory

\* Packet k shows that the stream is descrambled, long after the last error.
Forgives(k, o) == k.start /\ ~ Undescrambled(k) /\ since_error[o] > Wait

\* Mutant: counts from the start after a pause.
Errors_Recent(k, o) ==
  IF Counts(k) THEN IF since_error[o] > Wait THEN 1 ELSE i_nb_errors[o] + 1
  ELSE IF Forgives(k, o) THEN 0 ELSE i_nb_errors[o]

\* The errors of output o after packet k, before they are compared.
Errors(k, o) ==
  IF Counts(k) THEN i_nb_errors[o] + 1
  ELSE IF Forgives(k, o) THEN 0 ELSE i_nb_errors[o]

\* The outputs whose turn comes in the loop over the subscribers of the PID.
Failed(k) == {o \in Takers[k.pid] : k.start /\ Errors(k, o) > MaxErrors}

\* The CAM watchdog.  The first output with too many errors resets the CAM
\* and clears every counter, so the outputs after it count nothing.
CamChecked(k) ==
  IF Failed(k) # {}
  THEN /\ i_nb_errors' = [o \in Slots |-> 0]
       /\ since_error' = [o \in Slots |->
            IF o \in Takers[k.pid] /\ o <= Min(Failed(k)) THEN 0 ELSE since_error[o]]
       /\ since_reset' = 0
  ELSE /\ i_nb_errors' = [o \in Slots |->
            IF o \in Takers[k.pid] THEN Errors(k, o) ELSE i_nb_errors[o]]
       /\ since_error' = [o \in Slots |->
            IF o \in Takers[k.pid] /\ Counts(k) THEN 0 ELSE since_error[o]]
       /\ since_reset' = since_reset

demux_Handle(k) ==
  /\ Watched(k)
  /\ TunerChecked(k)
  /\ CamChecked(k)
  /\ since_telling' = IF Telling(k) THEN [since_telling EXCEPT ![k.pid] = 0]
                      ELSE since_telling
  /\ step' = [packet |-> {k}, cam_reset |-> Failed(k) # {},
              retune |-> TunerErrors(k) > MaxErrors]

\* The timer of PID p expires: the PID is down.
PrintESCb(p) ==
  /\ timeout_watcher[p] = 0
  /\ timeout_watcher' = [timeout_watcher EXCEPT ![p] = -1]
  /\ i_pes_status' = [i_pes_status EXCEPT ![p] = -1]
  /\ step' = Idle
  /\ UNCHANGED <<i_nb_errors, since_error, since_reset, i_tuner_errors, since_transport,
                 since_telling>>

-----------------------------------------------------------------------------
(* Time.  The loop runs the timers that are due before more time passes.   *)

Older(n, limit) == IF n > limit THEN n ELSE n + 1

Tick ==
  /\ \A p \in Pids : timeout_watcher[p] # 0
  /\ timeout_watcher' = [p \in Pids |-> IF timeout_watcher[p] = -1 THEN -1
                                        ELSE timeout_watcher[p] - 1]
  /\ since_error' = [o \in Slots |-> Older(since_error[o], Wait)]
  /\ since_reset' = Older(since_reset, Refractory)
  /\ since_transport' = Older(since_transport, Wait)
  /\ since_telling' = [p \in Pids |-> Older(since_telling[p], Timeout(p) - 1)]
  /\ step' = Idle
  /\ UNCHANGED <<i_pes_status, i_nb_errors, i_tuner_errors>>

Next ==
  \/ \E k \in Packets : demux_Handle(k)
  \/ \E p \in Pids : PrintESCb(p)
  \/ Tick

\* Time passes and the loop runs the timers that expire; packets may stop.
Spec ==
  /\ Init
  /\ [][Next]_vars
  /\ WF_vars(Tick)
  /\ \A p \in Pids : WF_vars(PrintESCb(p))

-----------------------------------------------------------------------------
(***************************************************************************)
(* demux_Handle and PrintESCb report a PID as down exactly when no packet  *)
(* has told of its state for the whole timeout: every such packet, of the  *)
(* same status or not, starts the timer again, and the timer is off while  *)
(* the PID is down.                                                        *)
(***************************************************************************)
WatchIsExact ==
  \A p \in Pids :
    IF i_pes_status[p] = -1
    THEN timeout_watcher[p] = -1 /\ since_telling[p] = Timeout(p)
    ELSE timeout_watcher[p] = Timeout(p) - since_telling[p]

(***************************************************************************)
(* Two resets of the CAM are further apart than the refractory period, so  *)
(* that the module has time to start, even if several outputs have errors  *)
(* in the same packet or had collected some before the first reset.        *)
(***************************************************************************)
ResetsSpaced == [][step'.cam_reset => since_reset > Refractory]_vars

Shows(o, bad) ==
  \E k \in step.packet : o \in Takers[k.pid] /\ k.start /\ (Undescrambled(k) <=> bad)

(***************************************************************************)
(* A stream marked always on that the CAM never descrambles again gets the *)
(* CAM reset again and again, however rare its packets are.                *)
(***************************************************************************)
FailingIsReset ==
  \A o \in Slots : []<>Shows(o, TRUE) /\ <>[](~ Shows(o, FALSE)) => []<>(step.cam_reset)
=============================================================================
