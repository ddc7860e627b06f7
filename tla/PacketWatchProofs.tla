-------------------------- MODULE PacketWatchProofs --------------------------
(***************************************************************************)
(* What PacketWatch promises holds for any PIDs, outputs and delays.  The  *)
(* counters never pass their limit between two packets, so a reset needs   *)
(* an error that counts in the very packet that causes it.                 *)
(***************************************************************************)
EXTENDS PacketWatch, TLAPS

-----------------------------------------------------------------------------
(* Types.                                                                  *)

LEMMA TimeoutType ==
  \A p \in Pids : Timeout(p) \in Nat /\ Timeout(p) > 0 /\ Timeout(p) <= EsTimeout + TdtTimeout
BY TimesAssumption DEF Timeout

\* The history of a PID stays within its timeout.
TellingInTime == \A p \in Pids : since_telling[p] <= Timeout(p)

Inv == TypeOK /\ TellingInTime /\ WatchIsExact

LEMMA InitInv == Init => Inv
<1> SUFFICES ASSUME Init PROVE Inv OBVIOUS
<1> USE TimesAssumption, PidsAssumption
<1>1. TypeOK BY TimeoutType DEF Init, TypeOK, Idle
<1>2. TellingInTime BY TimeoutType DEF Init, TellingInTime
<1>3. WatchIsExact BY TimeoutType DEF Init, WatchIsExact
<1> QED BY <1>1, <1>2, <1>3 DEF Inv

\* An output that does not fail has a count within the limit.
LEMMA ErrorsBounded ==
  ASSUME TypeOK, NEW k \in Packets, NEW o \in Takers[k.pid], Failed(k) = {}
  PROVE  Errors(k, o) \in 0 .. MaxErrors
<1>1. o \in Slots /\ k.pid \in Pids BY PidsAssumption DEF Packets
<1>2. i_nb_errors[o] \in 0 .. MaxErrors /\ MaxErrors \in Nat
  BY <1>1, TimesAssumption DEF TypeOK
<1>3. CASE Counts(k)
  <2>1. Errors(k, o) = i_nb_errors[o] + 1 BY <1>3 DEF Errors
  <2>2. ~ (Errors(k, o) > MaxErrors) BY <1>3 DEF Failed, Counts
  <2> QED BY <2>1, <2>2, <1>2
<1>4. CASE ~ Counts(k) /\ Forgives(k, o)
  <2>1. Errors(k, o) = 0 BY <1>4 DEF Errors
  <2> QED BY <2>1, <1>2
<1>5. CASE ~ Counts(k) /\ ~ Forgives(k, o)
  <2>1. Errors(k, o) = i_nb_errors[o] BY <1>5 DEF Errors
  <2> QED BY <2>1, <1>2
<1> QED BY <1>3, <1>4, <1>5

LEMMA TunerErrorsBounded ==
  ASSUME TypeOK, NEW k \in Packets, ~ (TunerErrors(k) > MaxErrors)
  PROVE  TunerErrors(k) \in 0 .. MaxErrors
<1>1. i_tuner_errors \in 0 .. MaxErrors /\ MaxErrors \in Nat
  BY TimesAssumption DEF TypeOK
<1>2. CASE k.error BY <1>1, <1>2 DEF TunerErrors
<1>3. CASE ~ k.error /\ since_transport > Wait BY <1>1, <1>3 DEF TunerErrors
<1>4. CASE ~ k.error /\ ~ (since_transport > Wait) BY <1>1, <1>4 DEF TunerErrors
<1> QED BY <1>2, <1>3, <1>4

LEMMA OlderType ==
  ASSUME NEW limit \in Nat, NEW n \in 0 .. limit + 1
  PROVE  Older(n, limit) \in 0 .. limit + 1
BY DEF Older

LEMMA HandleTypes ==
  ASSUME TypeOK, NEW k \in Packets, demux_Handle(k)
  PROVE  TypeOK'
<1> USE TimesAssumption, PidsAssumption
<1>0. k.pid \in Pids /\ Status(k) \in {0, 1} /\ Takers[k.pid] \subseteq Slots
  BY DEF Packets, Status
<1>1. i_pes_status' \in [Pids -> {-1, 0, 1}]
  BY <1>0 DEF demux_Handle, Watched, TypeOK
<1>2. /\ timeout_watcher' \in [Pids -> -1 .. (EsTimeout + TdtTimeout)]
      /\ \A p \in Pids : timeout_watcher'[p] <= Timeout(p)
  BY <1>0, TimeoutType DEF demux_Handle, Watched, TypeOK
<1>3. since_telling' \in [Pids -> 0 .. (EsTimeout + TdtTimeout)]
  BY <1>0 DEF demux_Handle, TypeOK
<1>4. i_tuner_errors' \in 0 .. MaxErrors /\ since_transport' \in 0 .. Wait + 1
  BY TunerErrorsBounded DEF demux_Handle, TunerChecked, TypeOK
<1>5. /\ i_nb_errors' \in [Slots -> 0 .. MaxErrors]
      /\ since_error' \in [Slots -> 0 .. Wait + 1]
      /\ since_reset' \in 0 .. Refractory + 1
  <2>1. CASE Failed(k) # {}
    BY <2>1 DEF demux_Handle, CamChecked, TypeOK
  <2>2. CASE Failed(k) = {}
    <3>1. \A o \in Takers[k.pid] : Errors(k, o) \in 0 .. MaxErrors
      BY <2>2, ErrorsBounded
    <3> QED BY <2>2, <3>1 DEF demux_Handle, CamChecked, TypeOK
  <2> QED BY <2>1, <2>2
<1>6. step' \in [packet : SUBSET Packets, cam_reset : BOOLEAN, retune : BOOLEAN]
  BY DEF demux_Handle
<1> QED BY <1>1, <1>2, <1>3, <1>4, <1>5, <1>6 DEF TypeOK

LEMMA PrintTypes ==
  ASSUME TypeOK, NEW p \in Pids, PrintESCb(p)
  PROVE  TypeOK'
<1> USE TimesAssumption
<1>1. /\ timeout_watcher' \in [Pids -> -1 .. (EsTimeout + TdtTimeout)]
      /\ \A q \in Pids : timeout_watcher'[q] <= Timeout(q)
  BY TimeoutType DEF PrintESCb, TypeOK
<1> QED BY <1>1 DEF PrintESCb, TypeOK, Idle

LEMMA TickTypes ==
  ASSUME TypeOK, TellingInTime, Tick
  PROVE  TypeOK' /\ TellingInTime'
<1> USE TimesAssumption
<1>1. /\ timeout_watcher' \in [Pids -> -1 .. (EsTimeout + TdtTimeout)]
      /\ \A p \in Pids : timeout_watcher'[p] <= Timeout(p)
  BY TimeoutType DEF Tick, TypeOK
<1>2. /\ since_error' \in [Slots -> 0 .. Wait + 1]
      /\ since_reset' \in 0 .. Refractory + 1
      /\ since_transport' \in 0 .. Wait + 1
  BY OlderType DEF Tick, TypeOK
<1>3. /\ since_telling' \in [Pids -> 0 .. (EsTimeout + TdtTimeout)]
      /\ \A p \in Pids : since_telling'[p] <= Timeout(p)
  BY TimeoutType DEF Tick, TypeOK, TellingInTime, Older
<1> QED BY <1>1, <1>2, <1>3 DEF Tick, TypeOK, TellingInTime, Idle

-----------------------------------------------------------------------------
(* The watch of the PIDs.                                                  *)

LEMMA HandleExact ==
  ASSUME Inv, NEW k \in Packets, demux_Handle(k)
  PROVE  TellingInTime' /\ WatchIsExact'
<1> USE TimesAssumption, TimeoutType DEF Inv, TypeOK, TellingInTime, WatchIsExact
<1>0. k.pid \in Pids /\ Status(k) \in {0, 1} BY DEF Packets, Status
<1>1. CASE Telling(k)
  <2>1. \A p \in Pids : p = k.pid =>
           i_pes_status'[p] = Status(k) /\ timeout_watcher'[p] = Timeout(p)
           /\ since_telling'[p] = 0
    BY <1>0, <1>1 DEF demux_Handle, Watched
  <2>2. \A p \in Pids : p # k.pid =>
           i_pes_status'[p] = i_pes_status[p] /\ timeout_watcher'[p] = timeout_watcher[p]
           /\ since_telling'[p] = since_telling[p]
    BY <1>0, <1>1 DEF demux_Handle, Watched
  <2> QED BY <1>0, <2>1, <2>2
<1>2. CASE ~ Telling(k)
  BY <1>2 DEF demux_Handle, Watched
<1> QED BY <1>1, <1>2

LEMMA PrintExact ==
  ASSUME Inv, NEW p \in Pids, PrintESCb(p)
  PROVE  TellingInTime' /\ WatchIsExact'
<1> USE TimesAssumption, TimeoutType DEF Inv, TypeOK, TellingInTime, WatchIsExact
<1>1. i_pes_status[p] # -1 /\ since_telling[p] = Timeout(p)
  BY DEF PrintESCb
<1>2. i_pes_status'[p] = -1 /\ timeout_watcher'[p] = -1 /\ since_telling' = since_telling
  BY DEF PrintESCb
<1>3. \A q \in Pids : q # p =>
         i_pes_status'[q] = i_pes_status[q] /\ timeout_watcher'[q] = timeout_watcher[q]
  BY DEF PrintESCb
<1> QED BY <1>1, <1>2, <1>3

LEMMA TickExact ==
  ASSUME Inv, Tick
  PROVE  WatchIsExact'
<1> SUFFICES ASSUME NEW p \in Pids
             PROVE  IF i_pes_status'[p] = -1
                    THEN timeout_watcher'[p] = -1 /\ since_telling'[p] = Timeout(p)
                    ELSE timeout_watcher'[p] = Timeout(p) - since_telling'[p]
  BY DEF WatchIsExact
<1> USE TimesAssumption, TimeoutType DEF Inv, TypeOK, TellingInTime, WatchIsExact
<1>0. /\ i_pes_status'[p] = i_pes_status[p]
      /\ timeout_watcher'[p] = IF timeout_watcher[p] = -1 THEN -1 ELSE timeout_watcher[p] - 1
      /\ since_telling'[p] = Older(since_telling[p], Timeout(p) - 1)
      /\ timeout_watcher[p] # 0
  BY DEF Tick
<1>1. CASE i_pes_status[p] = -1
  BY <1>0, <1>1 DEF Older
<1>2. CASE i_pes_status[p] # -1
  <2>1. since_telling[p] < Timeout(p) /\ since_telling[p] \in Nat BY <1>0, <1>2
  <2> QED BY <1>0, <1>2, <2>1 DEF Older
<1> QED BY <1>1, <1>2

LEMMA NextInv == Inv /\ [Next]_vars => Inv'
<1> SUFFICES ASSUME Inv, [Next]_vars PROVE Inv' OBVIOUS
<1>1. CASE \E k \in Packets : demux_Handle(k)
  BY <1>1, HandleTypes, HandleExact DEF Inv
<1>2. CASE \E p \in Pids : PrintESCb(p)
  BY <1>2, PrintTypes, PrintExact DEF Inv
<1>3. CASE Tick
  BY <1>3, TickTypes, TickExact DEF Inv
<1>4. CASE UNCHANGED vars
  BY <1>4 DEF vars, Inv, TypeOK, TellingInTime, WatchIsExact
<1> QED BY <1>1, <1>2, <1>3, <1>4 DEF Next

LEMMA InvHolds == Spec => []Inv
<1> QED BY InitInv, NextInv, PTL DEF Spec

\* Every variable of the watch keeps its type; no counter passes MAX_ERRORS.
THEOREM TypeCorrect == Spec => []TypeOK
<1>1. Inv => TypeOK BY DEF Inv
<1> QED BY <1>1, InvHolds, PTL

\* demux_Handle and PrintESCb report a PID as down exactly when no packet told
\* of its state for the whole timeout, whatever the timeouts and the packets.
THEOREM WatchExact == Spec => []WatchIsExact
<1>1. Inv => WatchIsExact BY DEF Inv
<1> QED BY <1>1, InvHolds, PTL

-----------------------------------------------------------------------------
(* The resets of the CAM.                                                  *)

LEMMA ResetCounts ==
  ASSUME TypeOK, NEW k \in Packets, Failed(k) # {}
  PROVE  since_reset > Refractory
<1>1. PICK o \in Takers[k.pid] : k.start /\ Errors(k, o) > MaxErrors BY DEF Failed
<1>2. o \in Slots BY <1>1, PidsAssumption DEF Packets
<1>3. i_nb_errors[o] \in 0 .. MaxErrors /\ MaxErrors \in Nat
  BY <1>2, TimesAssumption DEF TypeOK
<1>4. SUFFICES ASSUME ~ Counts(k) PROVE FALSE BY DEF Counts
<1>5. Errors(k, o) \in {0, i_nb_errors[o]} BY <1>4 DEF Errors
<1> QED BY <1>1, <1>3, <1>5

\* Two resets of the CAM are further apart than the refractory period, for any
\* number of outputs, any delays and any limit of errors.
THEOREM ResetsAreSpaced == Spec => ResetsSpaced
<1>1. TypeOK /\ [Next]_vars => [step'.cam_reset => since_reset > Refractory]_vars
  <2> SUFFICES ASSUME TypeOK, Next, step'.cam_reset PROVE since_reset > Refractory
    OBVIOUS
  <2>1. CASE \E k \in Packets : demux_Handle(k)
    <3>1. PICK k \in Packets : demux_Handle(k) BY <2>1
    <3>2. Failed(k) # {} BY <3>1 DEF demux_Handle
    <3> QED BY <3>2, ResetCounts
  <2>2. CASE \E p \in Pids : PrintESCb(p) BY <2>2 DEF PrintESCb, Idle
  <2>3. CASE Tick BY <2>3 DEF Tick, Idle
  <2> QED BY <2>1, <2>2, <2>3 DEF Next
<1> QED BY <1>1, TypeCorrect, PTL DEF Spec, ResetsSpaced
=============================================================================
