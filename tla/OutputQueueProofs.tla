------------------------- MODULE OutputQueueProofs --------------------------
(***************************************************************************)
(* Theorems about OutputQueue, for any number of outputs and blocks, any   *)
(* latencies and any delay of writev(), proved by TLAPS.                   *)
(***************************************************************************)
EXTENDS OutputQueue, FiniteSetTheorems, SequenceTheorems, WellFoundedInduction,
        NaturalsInduction, TLAPS

-----------------------------------------------------------------------------
(* Types.                                                                  *)

\* A chain holds a natural number of references on a block.
LEMMA HeldType ==
  ASSUME NEW q \in Seq(Packets), NEW b \in Blocks
  PROVE  Held(q, b) \in Nat
<1> DEFINE all == (1 .. Len(q)) \X (1 .. BlockCount)
           held == {at \in all : at[2] <= Len(q[at[1]].blocks) /\ q[at[1]].blocks[at[2]] = b}
<1>1. IsFiniteSet(1 .. Len(q)) /\ IsFiniteSet(1 .. BlockCount)
  BY FS_Interval, SizesAssumption
<1>2. IsFiniteSet(all)
  BY <1>1, FS_Product
<1>3. held \in SUBSET all
  OBVIOUS
<1>4. IsFiniteSet(held)
  BY <1>2, <1>3, FS_Subset
<1>5. QED
  BY <1>4, FS_CardinalityType DEF Held

\* Releasing a chain keeps counts and time stamps typed.
LEMMA ReleaseType ==
  ASSUME TypeOK, NEW q \in Seq(Packets), Release(q)
  PROVE  /\ refcount' \in [Blocks -> Int]
         /\ dts' \in [Blocks -> Nat]
         /\ last_dts' = last_dts
BY HeldType DEF Release, TypeOK

\* A sequence in which one element is replaced is a sequence.
LEMMA SeqExcept ==
  \A S : \A q \in Seq(S), x \in S : \A n \in 1 .. Len(q) : [q EXCEPT ![n] = x] \in Seq(S)
OBVIOUS

\* What output_Put makes of a queue is a queue, due at a natural time.
LEMMA FilledType ==
  ASSUME TypeOK, NEW o \in Outputs, NEW b \in Blocks, NEW d \in Nat, NEW hasPcr \in BOOLEAN
  PROVE  /\ Filled(o, b, d, hasPcr) \in Seq(Packets)
         /\ PutDue(o, d, hasPcr) \in Nat
<1>1. queue[o] \in Seq(Packets) /\ latency[o] \in Nat
  BY SizesAssumption DEF TypeOK
<1>2. CASE Fits(o, d)
  <2> DEFINE n == Len(queue[o])
             last == queue[o][n]
             new == [i_dts |-> IF hasPcr THEN d ELSE last.i_dts,
                     blocks |-> Append(last.blocks, b)]
  <2>1. n \in 1 .. Len(queue[o])
    BY <1>1, <1>2 DEF Fits, Pending
  <2>2. last \in Packets
    BY <1>1, <2>1
  <2>3. new \in Packets
    BY <2>2 DEF Packets
  <2>4. Filled(o, b, d, hasPcr) = [queue[o] EXCEPT ![n] = new]
    BY <1>2 DEF Filled
  <2>5. [queue[o] EXCEPT ![n] = new] \in Seq(Packets)
    <3> HIDE DEF new, n
    <3>1. QED
      BY <1>1, <2>1, <2>3, SeqExcept
  <2>6. PutDue(o, d, hasPcr) \in Nat
    <3>1. last.i_dts \in Nat BY <2>2 DEF Packets
    <3>2. LastPacket(o) = last BY DEF LastPacket
    <3> HIDE DEF last
    <3> QED BY <1>1, <3>1, <3>2 DEF PutDue
  <2>7. QED
    BY <2>4, <2>5, <2>6
<1>3. CASE ~ Fits(o, d)
  <2>1. [i_dts |-> d, blocks |-> <<b>>] \in Packets
    BY DEF Packets
  <2>2. QED
    BY <1>1, <1>3, <2>1 DEF Filled, PutDue
<1>4. QED
  BY <1>2, <1>3

\* A waiting datagram is due at a natural time.
LEMMA DueType ==
  ASSUME TypeOK, NEW o \in Outputs, Pending(o)
  PROVE  Due(o) \in Nat /\ Head(queue[o]) \in Packets /\ Tail(queue[o]) \in Seq(Packets)
<1>1. queue[o] \in Seq(Packets) /\ queue[o] # << >> /\ latency[o] \in Nat
  BY SizesAssumption DEF TypeOK, Pending
<1>2. Head(queue[o]) \in Packets /\ Tail(queue[o]) \in Seq(Packets)
  BY <1>1
<1>3. QED
  BY <1>1, <1>2 DEF Due, Packets

\* What i_next_send becomes is a natural time or Never.
LEMMA AccountedType ==
  ASSUME TypeOK, cursor # 0
  PROVE  Accounted \in Nat \cup {Never}
<1>1. cursor \in Outputs /\ i_next_send \in Nat \cup {Never}
  BY SizesAssumption DEF TypeOK, Outputs
<1>2. QED
  BY <1>1, DueType DEF Accounted

LEMMA InitTypeOK ==
  ASSUME Init
  PROVE  TypeOK
<1>1. << >> \in Seq(Packets)
  OBVIOUS
<1>2. QED
  BY <1>1, SizesAssumption DEF Init, TypeOK

LEMMA HandleType ==
  ASSUME TypeOK,
         NEW b \in Blocks, NEW outs \in SUBSET valid, NEW d \in Dates, NEW hasPcr \in BOOLEAN,
         Handle(b, outs, d, hasPcr)
  PROVE  TypeOK'
<1>1. d \in Nat /\ d <= now
  BY DEF Dates, TypeOK
<1>2. outs \in SUBSET Outputs
  BY DEF TypeOK
<1>3. \A o \in outs : Filled(o, b, d, hasPcr) \in Seq(Packets) /\ PutDue(o, d, hasPcr) \in Nat
  BY <1>1, <1>2, FilledType
<1>4. queue' \in [Outputs -> Seq(Packets)]
  <2>1. queue' = [o \in Outputs |-> IF o \in outs THEN Filled(o, b, d, hasPcr) ELSE queue[o]]
    BY DEF Handle
  <2>2. \A o \in Outputs : queue[o] \in Seq(Packets)
    BY DEF TypeOK
  <2>3. QED
    BY <1>3, <2>1, <2>2
<1>5. refcount' \in [Blocks -> Int]
  <2>1. IsFiniteSet(outs)
    <3>1. IsFiniteSet(Outputs)
      BY FS_Interval, SizesAssumption DEF Outputs
    <3>2. QED
      BY <1>2, <3>1, FS_Subset
  <2>2. Referenced(outs) \in Nat
    BY <2>1, FS_CardinalityType DEF Referenced
  <2>3. QED
    BY <2>2 DEF Handle, TypeOK
<1>6. PICK soonest \in {PutDue(o, d, hasPcr) : o \in outs} :
        /\ i_next_send' = IF Sooner(soonest) THEN soonest ELSE i_next_send
        /\ timer' = IF Sooner(soonest) THEN Expiry(now, soonest) ELSE timer
  BY DEF Handle
<1>7. soonest \in Nat
  BY <1>3
<1>8. i_next_send' \in Nat \cup {Never} /\ timer' \in Int \cup {Never}
  BY <1>6, <1>7 DEF TypeOK, Expiry
<1>9. /\ UNCHANGED <<now, i_wallclock, started, cursor, valid, latency>>
      /\ dts' \in [Blocks -> Nat]
      /\ last_dts' = d
  BY <1>1 DEF Handle, TypeOK, clockVars
<1>10. \A o \in Outputs \ valid : queue'[o] = << >>
  BY DEF Handle, TypeOK
<1>11. QED
  BY <1>1, <1>4, <1>5, <1>8, <1>9, <1>10 DEF TypeOK

LEMMA FlushType ==
  ASSUME TypeOK, Flush
  PROVE  TypeOK'
<1>1. cursor \in Outputs /\ Pending(cursor)
  BY SizesAssumption DEF Flush, IsDue, TypeOK, Outputs
<1>2. Head(queue[cursor]) \in Packets /\ Tail(queue[cursor]) \in Seq(Packets)
  BY <1>1, DueType
<1>3. <<Head(queue[cursor])>> \in Seq(Packets)
  BY <1>2
<1>4. refcount' \in [Blocks -> Int] /\ dts' \in [Blocks -> Nat] /\ last_dts' = last_dts
  BY <1>3, ReleaseType DEF Flush
<1>5. now' \in Nat /\ now <= now' /\ i_wallclock' = now'
  BY SizesAssumption DEF Flush, TypeOK
<1>6. queue' \in [Outputs -> Seq(Packets)]
  BY <1>1, <1>2 DEF Flush, TypeOK
<1>7. \A o \in Outputs \ valid : queue'[o] = << >>
  BY <1>1 DEF Flush, IsDue, TypeOK
<1>8. UNCHANGED <<started, i_next_send, timer, cursor, valid, latency>>
  BY DEF Flush
<1>9. last_dts <= now'
  BY <1>5 DEF TypeOK
<1>10. started <= now'
  BY <1>5 DEF TypeOK
<1>11. QED
  BY <1>4, <1>5, <1>6, <1>7, <1>8, <1>9, <1>10 DEF TypeOK

LEMMA TypeStep ==
  ASSUME TypeOK, [Next]_vars
  PROVE  TypeOK'
<1>1. ASSUME NEW b \in Blocks, NEW outs \in SUBSET valid, NEW d \in Dates, NEW hasPcr \in BOOLEAN,
             Handle(b, outs, d, hasPcr)
      PROVE  TypeOK'
  BY <1>1, HandleType
<1>2. CASE TimerFires
  BY <1>2, SizesAssumption DEF TypeOK, TimerFires, blockVars
<1>3. CASE Flush
  BY <1>3, FlushType
<1>4. CASE NextOutput
  <2>1. Accounted \in Nat \cup {Never} /\ cursor' \in 0 .. MaxOutputs
    BY <1>4, AccountedType, SizesAssumption DEF NextOutput, TypeOK
  <2>2. QED
    BY <1>4, <2>1 DEF NextOutput, TypeOK, clockVars, blockVars
<1>5. CASE SendAgain
  BY <1>5, SizesAssumption DEF TypeOK, SendAgain, clockVars, blockVars
<1>6. CASE SendDone
  <2>1. Accounted \in Nat \cup {Never}
    BY <1>6, AccountedType, SizesAssumption DEF SendDone
  <2>2. timer' \in Int \cup {Never}
    BY <1>6, <2>1 DEF SendDone, Expiry, TypeOK
  <2>3. QED
    BY <1>6, <2>1, <2>2 DEF SendDone, TypeOK, clockVars, blockVars
<1>7. ASSUME NEW o \in Outputs, NEW l \in Latencies, Configure(o, l)
      PROVE  TypeOK'
  BY <1>7 DEF Configure, TypeOK, clockVars, blockVars
<1>8. ASSUME NEW o \in Outputs, Close(o)
      PROVE  TypeOK'
  <2>1. queue[o] \in Seq(Packets) /\ << >> \in Seq(Packets)
    BY DEF TypeOK
  <2>2. refcount' \in [Blocks -> Int] /\ dts' \in [Blocks -> Nat] /\ last_dts' = last_dts
    BY <1>8, <2>1, ReleaseType DEF Close
  <2>3. QED
    BY <1>8, <2>1, <2>2 DEF Close, TypeOK, clockVars
<1>9. CASE Tick
  BY <1>9 DEF Tick, TypeOK, blockVars
<1>10. CASE UNCHANGED vars
  BY <1>10 DEF vars, clockVars, blockVars, TypeOK
<1>11. QED
  BY <1>1, <1>2, <1>3, <1>4, <1>5, <1>6, <1>7, <1>8, <1>9, <1>10 DEF Next, outputs_Send

\* The queues hold datagrams of blocks, and closed outputs hold none.
THEOREM TypeCorrect == Spec => []TypeOK
BY InitTypeOK, TypeStep, PTL DEF Spec

-----------------------------------------------------------------------------
(***************************************************************************)
(* The timer.  While outputs_Send runs the timer is stopped and            *)
(* i_next_send accounts for the outputs the loop has left behind.          *)
(***************************************************************************)
TimerInv ==
  /\ PendingIsArmed
  /\ LateOnlyByIdle
  /\ cursor # 0 =>
       /\ timer = Never
       /\ \A o \in valid : o < cursor /\ Pending(o) => i_next_send # Never

LEMMA InitTimer ==
  ASSUME Init
  PROVE  TimerInv
BY DEF Init, TimerInv, PendingIsArmed, LateOnlyByIdle

LEMMA HandleTimer ==
  ASSUME TypeOK, TimerInv,
         NEW b \in Blocks, NEW outs \in SUBSET valid, NEW d \in Dates, NEW hasPcr \in BOOLEAN,
         Handle(b, outs, d, hasPcr)
  PROVE  TimerInv'
<1>1. PICK soonest \in {PutDue(o, d, hasPcr) : o \in outs} :
        /\ i_next_send' = IF Sooner(soonest) THEN soonest ELSE i_next_send
        /\ timer' = IF Sooner(soonest) THEN Expiry(now, soonest) ELSE timer
  BY DEF Handle
<1>2. soonest \in Nat
  <2>1. outs \in SUBSET Outputs /\ d \in Nat
    BY DEF Dates, TypeOK
  <2>2. QED
    BY <2>1, FilledType
<1>3. cursor = 0 /\ cursor' = 0 /\ UNCHANGED <<now, i_wallclock, valid>>
  BY DEF Handle, clockVars
<1>4. now \in Nat /\ i_wallclock \in Nat /\ Never \notin Int
  BY SizesAssumption DEF TypeOK
<1>5. /\ i_next_send' # Never /\ timer' # Never
      /\ timer' <= i_next_send' + (now - i_wallclock)
  <2>1. CASE Sooner(soonest)
    BY <1>1, <1>2, <1>4, <2>1 DEF Expiry
  <2>2. CASE ~ Sooner(soonest)
    BY <1>1, <1>3, <2>2 DEF Sooner, TimerInv, PendingIsArmed, LateOnlyByIdle
  <2>3. QED
    BY <2>1, <2>2
<1>6. QED
  BY <1>3, <1>5 DEF TimerInv, PendingIsArmed, LateOnlyByIdle

LEMMA SendDoneTimer ==
  ASSUME TypeOK, TimerInv, SendDone
  PROVE  TimerInv'
<1>1. /\ cursor = MaxOutputs /\ ~ IsDue(cursor)
      /\ i_next_send' = Accounted
      /\ timer' = IF Accounted = Never THEN Never ELSE Expiry(started, Accounted)
      /\ cursor' = 0
      /\ UNCHANGED <<now, i_wallclock, valid, queue>>
  BY DEF SendDone, clockVars
<1>2. /\ cursor # 0 /\ Accounted \in Nat \cup {Never} /\ Never \notin Int
      /\ now \in Nat /\ i_wallclock \in Nat /\ started \in Nat /\ started <= now
  BY <1>1, SizesAssumption, AccountedType DEF TypeOK
<1>3. i_next_send' = Never <=> timer' = Never
  BY <1>1, <1>2 DEF Expiry
<1>4. timer' # Never => timer' <= i_next_send' + (now - i_wallclock)
  BY <1>1, <1>2 DEF Expiry
<1>5. ASSUME NEW o \in valid, Pending(o)
      PROVE  Accounted # Never
  <2>1. o \in 1 .. MaxOutputs /\ MaxOutputs \in Nat
    BY SizesAssumption DEF TypeOK, Outputs
  <2>2. CASE o < cursor
    <3>1. i_next_send # Never
      BY <1>2, <1>5, <2>2 DEF TimerInv
    <3>2. Pending(cursor) => Due(cursor) \in Nat
      BY <1>1, <2>1, DueType DEF Outputs
    <3>3. QED
      BY <1>2, <3>1, <3>2 DEF Accounted
  <2>3. CASE o = cursor
    <3>1. Due(cursor) \in Nat
      BY <1>5, <2>1, <2>3, DueType DEF Outputs
    <3>2. QED
      BY <1>2, <1>5, <2>3, <3>1 DEF Accounted, Sooner
  <2>4. QED
    BY <1>1, <2>1, <2>2, <2>3
<1>6. QED
  BY <1>1, <1>2, <1>3, <1>4, <1>5 DEF TimerInv, PendingIsArmed, LateOnlyByIdle, Pending

LEMMA NextOutputTimer ==
  ASSUME TypeOK, TimerInv, NextOutput
  PROVE  TimerInv'
<1>1. /\ cursor \in 1 .. MaxOutputs /\ MaxOutputs \in Nat /\ Never \notin Int
      /\ i_next_send' = Accounted /\ cursor' = cursor + 1
      /\ timer' = Never
      /\ UNCHANGED <<valid, queue>>
  BY SizesAssumption DEF NextOutput, TypeOK, TimerInv
<1>2. Pending(cursor) => Due(cursor) \in Nat
  BY <1>1, DueType DEF Outputs
<1>3. ASSUME NEW o \in valid, o < cursor + 1, Pending(o)
      PROVE  Accounted # Never
  <2>1. o \in 1 .. MaxOutputs
    BY DEF TypeOK, Outputs
  <2>2. CASE o < cursor
    BY <1>1, <1>2, <1>3, <2>2 DEF Accounted, TimerInv
  <2>3. CASE o = cursor
    BY <1>1, <1>2, <1>3, <2>3 DEF Accounted, Sooner
  <2>4. QED
    BY <1>1, <1>3, <2>1, <2>2, <2>3
<1>4. QED
  BY <1>1, <1>3 DEF TimerInv, PendingIsArmed, LateOnlyByIdle, Pending

LEMMA TimerStep ==
  ASSUME TypeOK, TimerInv, [Next]_vars
  PROVE  TimerInv'
<1> USE DEF TimerInv, PendingIsArmed, LateOnlyByIdle, Pending
<1>1. ASSUME NEW b \in Blocks, NEW outs \in SUBSET valid, NEW d \in Dates, NEW hasPcr \in BOOLEAN,
             Handle(b, outs, d, hasPcr)
      PROVE  TimerInv'
  BY <1>1, HandleTimer
<1>2. CASE TimerFires
  <2>1. cursor' = 1 /\ timer' = Never /\ valid' = valid
    BY <1>2 DEF TimerFires
  <2>2. \A o \in valid : ~ o < 1
    BY DEF TypeOK, Outputs
  <2>3. QED
    BY <2>1, <2>2
<1>3. CASE Flush
  <2>1. /\ cursor # 0 /\ queue' = [queue EXCEPT ![cursor] = Tail(@)]
        /\ UNCHANGED <<i_next_send, timer, cursor, valid>>
    BY <1>3 DEF Flush
  <2>2. \A o \in valid : o < cursor => queue'[o] = queue[o]
    BY <2>1 DEF TypeOK, Outputs
  <2>3. QED
    BY <2>1, <2>2
<1>4. CASE NextOutput
  BY <1>4, NextOutputTimer
<1>5. CASE SendAgain
  <2>1. cursor # 0 /\ cursor' = 1 /\ UNCHANGED <<timer, valid>>
    BY <1>5, SizesAssumption DEF SendAgain
  <2>2. \A o \in valid : ~ o < 1
    BY DEF TypeOK, Outputs
  <2>3. QED
    BY <2>1, <2>2
<1>6. CASE SendDone
  BY <1>6, SendDoneTimer
<1>7. ASSUME NEW o \in Outputs, NEW l \in Latencies, Configure(o, l)
      PROVE  TimerInv'
  <2>1. \A q \in valid' \ valid : ~ Pending(q)
    BY <1>7 DEF Configure, TypeOK
  <2>2. QED
    BY <1>7, <2>1 DEF Configure, clockVars
<1>8. ASSUME NEW o \in Outputs, Close(o)
      PROVE  TimerInv'
  <2>1. \A q \in valid' : q # o /\ queue'[q] = queue[q]
    BY <1>8 DEF Close, TypeOK
  <2>2. QED
    BY <1>8, <2>1 DEF Close, clockVars
<1>9. CASE Tick
  <2>1. /\ cursor = 0 /\ now' = now + 1
        /\ UNCHANGED <<i_wallclock, i_next_send, timer, cursor, valid, queue>>
    BY <1>9 DEF Tick
  <2>2. timer # Never => timer \in Int /\ i_next_send \in Nat
    BY <2>1 DEF TypeOK
  <2>3. now \in Nat /\ i_wallclock \in Nat
    BY DEF TypeOK
  <2>4. QED
    BY <2>1, <2>2, <2>3
<1>10. CASE UNCHANGED vars
  BY <1>10 DEF vars, clockVars
<1>11. QED
  BY <1>1, <1>2, <1>3, <1>4, <1>5, <1>6, <1>7, <1>8, <1>9, <1>10 DEF Next, outputs_Send

LEMMA TimerInvariant == Spec => []TimerInv
<1>1. Init => TypeOK /\ TimerInv
  BY InitTypeOK, InitTimer
<1>2. TypeOK /\ TimerInv /\ [Next]_vars => (TypeOK /\ TimerInv)'
  BY TypeStep, TimerStep
<1>3. QED
  BY <1>1, <1>2, PTL DEF Spec

(***************************************************************************)
(* While a datagram waits between two callbacks, the timer of the outputs  *)
(* runs, and it runs exactly while i_next_send holds a time.               *)
(***************************************************************************)
THEOREM PendingArmed == Spec => []PendingIsArmed
<1>1. TimerInv => PendingIsArmed
  BY DEF TimerInv
<1>2. QED
  BY <1>1, TimerInvariant, PTL

(***************************************************************************)
(* The timer expires at most as long after i_next_send as nothing was sent *)
(* before now: the stale clock delays a datagram by the idle time, and by  *)
(* no more.                                                                *)
(***************************************************************************)
THEOREM LatenessBounded == Spec => []LateOnlyByIdle
<1>1. TimerInv => LateOnlyByIdle
  BY DEF TimerInv
<1>2. QED
  BY <1>1, TimerInvariant, PTL

-----------------------------------------------------------------------------
(***************************************************************************)
(* What i_next_send says of the datagrams that wait.  While outputs_Send   *)
(* runs it says so of the outputs the loop has left behind.                *)
(***************************************************************************)
Covered(o) ==
  /\ i_next_send # Never
  /\ \E l \in Latencies : i_next_send <= Head(queue[o]).i_dts + l

CoverInv ==
  \A o \in valid : Pending(o) /\ (cursor = 0 \/ o < cursor) => Covered(o)

\* output_Put leaves the date of the head alone, or compares the new one.
LEMMA FilledHead ==
  ASSUME TypeOK, NEW o \in Outputs, NEW b \in Blocks, NEW d \in Nat, NEW hasPcr \in BOOLEAN
  PROVE  \/ Pending(o) /\ Head(Filled(o, b, d, hasPcr)).i_dts = Head(queue[o]).i_dts
         \/ PutDue(o, d, hasPcr) = Head(Filled(o, b, d, hasPcr)).i_dts + latency[o]
<1> DEFINE q == queue[o]
           n == Len(q)
           new == [i_dts |-> IF hasPcr THEN d ELSE q[n].i_dts,
                   blocks |-> Append(q[n].blocks, b)]
           one == [i_dts |-> d, blocks |-> <<b>>]
<1>1. q \in Seq(Packets) /\ n \in Nat
  BY DEF TypeOK
<1>2. CASE Fits(o, d)
  <2>1. Pending(o) /\ n >= 1 /\ q # << >>
    BY <1>1, <1>2 DEF Fits, Pending
  <2>2. Filled(o, b, d, hasPcr) = [q EXCEPT ![n] = new]
    BY <1>2 DEF Filled
  <2>3. Head([q EXCEPT ![n] = new]) = IF n = 1 THEN new ELSE Head(q)
    <3> HIDE DEF q, new
    <3>1. [q EXCEPT ![n] = new] \in [1 .. n -> {q[i] : i \in 1 .. n} \cup {new}]
      BY <1>1, <2>1
    <3>2. Head([q EXCEPT ![n] = new]) = [q EXCEPT ![n] = new][1] /\ Head(q) = q[1]
      BY <1>1, <2>1, <3>1
    <3>3. QED
      BY <1>1, <2>1, <3>2
  <2>4. n = 1 => Head(q) = q[n]
    BY <1>1, <2>1
  <2>5. CASE hasPcr /\ n = 1
    <3>1. PutDue(o, d, hasPcr) = d + latency[o]
      BY <2>5 DEF PutDue
    <3>2. new.i_dts = d
      BY <2>5
    <3>3. QED
      BY <2>2, <2>3, <2>5, <3>1, <3>2
  <2>6. CASE ~ hasPcr /\ n = 1
    <3>1. new.i_dts = Head(q).i_dts
      BY <2>4, <2>6
    <3>2. QED
      BY <2>1, <2>2, <2>3, <2>6, <3>1
  <2>7. CASE n # 1
    BY <2>1, <2>2, <2>3, <2>7
  <2>8. QED
    BY <2>5, <2>6, <2>7
<1>3. CASE ~ Fits(o, d)
  <2>1. Filled(o, b, d, hasPcr) = Append(q, one) /\ PutDue(o, d, hasPcr) = d + latency[o]
    BY <1>3 DEF Filled, PutDue
  <2>2. one \in Packets /\ one.i_dts = d
    BY DEF Packets
  <2>3. CASE q = << >>
    <3>1. Head(Append(q, one)) = one
      BY <2>2, <2>3
    <3>2. QED
      BY <2>1, <2>2, <3>1
  <2>4. CASE q # << >>
    <3>1. Head(Append(q, one)) = Head(q)
      <4> HIDE DEF q, one
      <4>1. QED
        BY <1>1, <2>2, <2>4
    <3>2. QED
      BY <2>1, <2>4, <3>1 DEF Pending
  <2>5. QED
    BY <2>3, <2>4
<1>4. QED
  BY <1>2, <1>3

LEMMA HandleCovers ==
  ASSUME TypeOK, CoverInv,
         NEW b \in Blocks, NEW outs \in SUBSET valid, NEW d \in Dates, NEW hasPcr \in BOOLEAN,
         Handle(b, outs, d, hasPcr)
  PROVE  CoverInv'
<1>1. PICK soonest \in {PutDue(o, d, hasPcr) : o \in outs} :
        /\ \A o \in outs : soonest <= PutDue(o, d, hasPcr)
        /\ i_next_send' = IF Sooner(soonest) THEN soonest ELSE i_next_send
  BY DEF Handle
<1>2. outs \in SUBSET Outputs /\ d \in Nat
  BY DEF Dates, TypeOK
<1>3. soonest \in Nat /\ \A o \in outs : PutDue(o, d, hasPcr) \in Nat
  BY <1>2, FilledType
<1>4. Never \notin Int /\ i_next_send \in Nat \cup {Never}
  BY SizesAssumption DEF TypeOK
<1>5. /\ i_next_send' \in Nat /\ i_next_send' # Never
      /\ i_next_send' <= soonest
      /\ i_next_send # Never => i_next_send' <= i_next_send
  BY <1>1, <1>3, <1>4 DEF Sooner
<1>6. cursor = 0 /\ valid' = valid
  BY DEF Handle
<1>7. \A o \in Outputs :
        queue'[o] = IF o \in outs THEN Filled(o, b, d, hasPcr) ELSE queue[o]
  BY DEF Handle
<1> SUFFICES ASSUME NEW o \in valid, queue'[o] # << >>
             PROVE  \E l \in Latencies : i_next_send' <= Head(queue'[o]).i_dts + l
  BY <1>5, <1>6 DEF CoverInv, Covered, Pending
<1>8. o \in Outputs /\ latency[o] \in Latencies
  BY DEF TypeOK
<1>9. CASE Pending(o) /\ Head(queue'[o]).i_dts = Head(queue[o]).i_dts
  <2>1. Head(queue[o]).i_dts \in Nat
    BY <1>8, <1>9, DueType DEF Packets
  <2>2. PICK l \in Latencies : i_next_send # Never /\ i_next_send <= Head(queue[o]).i_dts + l
    BY <1>6, <1>9 DEF CoverInv, Covered
  <2>3. l \in Nat
    BY SizesAssumption
  <2>4. i_next_send' <= Head(queue[o]).i_dts + l
    BY <1>4, <1>5, <2>1, <2>2, <2>3
  <2>5. QED
    BY <1>9, <2>4
<1>10. CASE o \in outs /\ PutDue(o, d, hasPcr) = Head(queue'[o]).i_dts + latency[o]
  <2>1. i_next_send' <= PutDue(o, d, hasPcr)
    BY <1>1, <1>3, <1>5, <1>10
  <2>2. QED
    BY <1>8, <1>10, <2>1
<1>11. CASE o \notin outs
  BY <1>7, <1>8, <1>9, <1>11 DEF Pending
<1>12. QED
  BY <1>2, <1>7, <1>8, <1>9, <1>10, <1>11, FilledHead

\* The output the loop leaves is accounted for, and those before it still are.
LEMMA AccountedCovers ==
  ASSUME TypeOK, CoverInv, cursor # 0, NEW o \in valid, Pending(o), o < cursor \/ o = cursor
  PROVE  /\ Accounted # Never
         /\ \E l \in Latencies : Accounted <= Head(queue[o]).i_dts + l
<1>1. /\ o \in Outputs /\ cursor \in Outputs /\ latency[cursor] \in Latencies
      /\ Never \notin Int /\ i_next_send \in Nat \cup {Never} /\ Latencies \subseteq Nat
  BY SizesAssumption DEF TypeOK, Outputs
<1>2. Pending(cursor) => Due(cursor) \in Nat
  BY <1>1, DueType
<1>3. CASE o = cursor
  <2>1. Accounted # Never /\ Accounted <= Due(cursor)
    BY <1>1, <1>2, <1>3 DEF Accounted, Sooner
  <2>2. QED
    BY <1>1, <1>3, <2>1 DEF Due
<1>4. CASE o < cursor
  <2>1. PICK l \in Latencies : i_next_send # Never /\ i_next_send <= Head(queue[o]).i_dts + l
    BY <1>4 DEF CoverInv, Covered
  <2>2. Accounted # Never /\ Accounted \in Nat /\ Accounted <= i_next_send
    BY <1>1, <1>2, <2>1 DEF Accounted, Sooner
  <2>3. Head(queue[o]).i_dts \in Nat /\ l \in Nat
    BY <1>1, DueType DEF Packets
  <2>4. QED
    BY <1>1, <2>1, <2>2, <2>3
<1>5. QED
  BY <1>3, <1>4

LEMMA CoverStep ==
  ASSUME TypeOK, CoverInv, [Next]_vars
  PROVE  CoverInv'
<1> USE DEF CoverInv, Covered, Pending
<1>1. ASSUME NEW b \in Blocks, NEW outs \in SUBSET valid, NEW d \in Dates, NEW hasPcr \in BOOLEAN,
             Handle(b, outs, d, hasPcr)
      PROVE  CoverInv'
  BY <1>1, HandleCovers
<1>2. CASE TimerFires
  <2>1. cursor' = 1 /\ valid' = valid /\ \A o \in valid : ~ o < 1
    BY <1>2 DEF TimerFires, TypeOK, Outputs
  <2>2. QED
    BY <2>1
<1>3. CASE Flush
  <2>1. /\ cursor # 0 /\ queue' = [queue EXCEPT ![cursor] = Tail(@)]
        /\ UNCHANGED <<i_next_send, cursor, valid>>
    BY <1>3 DEF Flush
  <2>2. \A o \in valid : o < cursor => queue'[o] = queue[o]
    BY <2>1 DEF TypeOK, Outputs
  <2>3. QED
    BY <2>1, <2>2
<1>4. CASE NextOutput
  <2>1. /\ cursor # 0 /\ i_next_send' = Accounted /\ cursor' = cursor + 1
        /\ UNCHANGED <<valid, queue>>
    BY <1>4 DEF NextOutput
  <2>2. \A o \in valid : o < cursor + 1 => o < cursor \/ o = cursor
    BY DEF TypeOK, Outputs
  <2>3. cursor' # 0
    BY <2>1 DEF TypeOK
  <2>4. QED
    BY <2>1, <2>2, <2>3, AccountedCovers
<1>5. CASE SendAgain
  <2>1. cursor' = 1 /\ valid' = valid /\ \A o \in valid : ~ o < 1
    BY <1>5 DEF SendAgain, TypeOK, Outputs
  <2>2. QED
    BY <2>1
<1>6. CASE SendDone
  <2>1. /\ cursor # 0 /\ cursor = MaxOutputs /\ i_next_send' = Accounted
        /\ UNCHANGED <<valid, queue>>
    BY <1>6, SizesAssumption DEF SendDone
  <2>2. \A o \in valid : o < cursor \/ o = cursor
    BY <2>1, SizesAssumption DEF TypeOK, Outputs
  <2>3. QED
    BY <2>1, <2>2, AccountedCovers
<1>7. ASSUME NEW o \in Outputs, NEW l \in Latencies, Configure(o, l)
      PROVE  CoverInv'
  <2>1. \A q \in valid' \ valid : ~ Pending(q)
    BY <1>7 DEF Configure, TypeOK
  <2>2. QED
    BY <1>7, <2>1 DEF Configure
<1>8. ASSUME NEW o \in Outputs, Close(o)
      PROVE  CoverInv'
  <2>1. \A q \in valid' : q \in valid /\ queue'[q] = queue[q]
    BY <1>8 DEF Close, TypeOK
  <2>2. QED
    BY <1>8, <2>1 DEF Close
<1>9. CASE Tick
  BY <1>9 DEF Tick
<1>10. CASE UNCHANGED vars
  BY <1>10 DEF vars
<1>11. QED
  BY <1>1, <1>2, <1>3, <1>4, <1>5, <1>6, <1>7, <1>8, <1>9, <1>10 DEF Next, outputs_Send

(***************************************************************************)
(* Between two callbacks i_next_send is at most one latency after the date *)
(* of every datagram that is first in its queue, for any number of outputs *)
(* and any latencies, although blocks with a PCR and reloads move both.    *)
(***************************************************************************)
THEOREM NextSendIsCovering == Spec => []NextSendCovers
<1>1. Init => TypeOK /\ CoverInv
  BY InitTypeOK DEF Init, CoverInv
<1>2. TypeOK /\ CoverInv /\ [Next]_vars => (TypeOK /\ CoverInv)'
  BY TypeStep, CoverStep
<1>3. CoverInv => NextSendCovers
  BY DEF CoverInv, Covered, NextSendCovers
<1>4. QED
  BY <1>1, <1>2, <1>3, PTL DEF Spec

-----------------------------------------------------------------------------
(***************************************************************************)
(* The lines of OutputLine.  Line(q) puts the blocks of the packets of q   *)
(* behind each other; what output_Put, output_Flush and output_Close do to *)
(* a chain is what Join, Leave and Drop do to its line.                    *)
(***************************************************************************)

\* Counting up to n.
LEMMA CountUp ==
  ASSUME NEW n \in Nat, NEW S, 0 \in S, \A k \in 1 .. n : k - 1 \in S => k \in S
  PROVE  \A k \in 0 .. n : k \in S
<1> DEFINE out == (0 .. n) \ S
           less == OpToRel(<, Nat)
<1> SUFFICES ASSUME out # {} PROVE FALSE OBVIOUS
<1>1. IsWellFoundedOn(less, Nat) BY NatLessThanWellFounded
<1>2. \A i, j \in Nat : i < j => <<i, j>> \in less BY DEF OpToRel
<1> HIDE DEF less
<1>3. PICK k \in out : \A m \in out : ~ (<<m, k>> \in less)
  <2>1. out \subseteq Nat OBVIOUS
  <2> HIDE DEF out
  <2> QED BY <1>1, <2>1, WFMin
<1>4. k \in 0 .. n /\ k # 0 OBVIOUS
<1>5. k - 1 \in Nat /\ k \in Nat /\ k - 1 < k /\ k - 1 \in 0 .. n /\ k \in 1 .. n BY <1>4
<1>6. k - 1 \in S BY <1>2, <1>3, <1>5
<1> QED BY <1>5, <1>6

\* The blocks of a packet behind a line.
Behind(line, p) == line \o p.blocks

\* f has the line of each beginning of chain q.
Loop(q, n, f) ==
  [k \in 0 .. n |-> IF k = 0 THEN << >> ELSE Behind(f[k - 1], q[k])]

LEMMA LoopExists ==
  ASSUME NEW q, NEW n \in Nat
  PROVE  \E f : f = Loop(q, n, f)
<1> DEFINE S == {k \in 0 .. n : \E f : f = Loop(q, k, f)}
<1>1. 0 \in S
  <2> DEFINE f == [k \in 0 .. 0 |-> << >>]
  <2>1. f = Loop(q, 0, f) BY DEF Loop
  <2> QED BY <2>1
<1>2. ASSUME NEW k \in 1 .. n, k - 1 \in S PROVE k \in S
  <2>1. PICK f : f = Loop(q, k - 1, f) BY <1>2
  <2> DEFINE last == Behind(f[k - 1], q[k])
             g == [j \in 0 .. k |-> IF j = k THEN last ELSE f[j]]
  <2>2. /\ k \in Nat /\ k # 0 /\ k - 1 \in 0 .. k
        /\ \A j \in 0 .. k : j # k => j \in 0 .. k - 1
        /\ \A j \in 0 .. k : j # 0 => j - 1 \in 0 .. k /\ j - 1 # k
    OBVIOUS
  <2> HIDE DEF last
  <2>3. g[k] = last /\ \A j \in 0 .. k : j # k => g[j] = f[j] BY <2>2
  <2>4. g[k - 1] = f[k - 1] BY <2>2, <2>3
  <2>5. g = [j \in 0 .. k |-> g[j]] OBVIOUS
  <2> HIDE DEF g
  <2>6. ASSUME NEW j \in 0 .. k PROVE Loop(q, k, g)[j] = g[j]
    <3>1. CASE j = k
      <4>1. Loop(q, k, g)[j] = last BY <2>2, <2>4, <3>1 DEF Loop, last
      <4> QED BY <2>3, <3>1, <4>1
    <3>2. CASE j # k
      <4>1. j \in 0 .. k - 1 BY <2>2, <3>2
      <4>2. f[j] = Loop(q, k - 1, f)[j] BY <2>1
      <4>3. j # 0 => g[j - 1] = f[j - 1] BY <2>2, <2>3
      <4>4. Loop(q, k - 1, f)[j] = Loop(q, k, g)[j] BY <4>1, <4>3 DEF Loop
      <4> QED BY <2>3, <3>2, <4>2, <4>4
    <3> QED BY <3>1, <3>2
  <2>7. Loop(q, k, g) = [j \in 0 .. k |-> Loop(q, k, g)[j]] BY DEF Loop
  <2>8. g = Loop(q, k, g) BY <2>5, <2>6, <2>7
  <2> QED BY <2>8
<1> HIDE DEF S
<1>3. \A k \in 0 .. n : k \in S BY <1>1, <1>2, CountUp
<1>4. n \in S BY <1>3
<1> QED BY <1>4 DEF S

Builds(q, f, n) == f[0] = << >> /\ \A k \in 1 .. n : f[k] = Behind(f[k - 1], q[k])

LineOf(q, f) == Builds(q, f, Len(q)) /\ \A k \in 0 .. Len(q) : f[k] \in Seq(Blocks)

SameBlocks(q, r, n) == \A k \in 1 .. n : q[k].blocks = r[k].blocks

LEMMA LineLoops ==
  ASSUME NEW q \in Seq(Packets)
  PROVE  \E f : Line(q) = f[Len(q)] /\ LineOf(q, f)
<1> DEFINE n == Len(q)
           f == CHOOSE g : g = Loop(q, n, g)
<1>0. n \in Nat OBVIOUS
<1>1. f = Loop(q, n, f) BY <1>0, LoopExists
<1>2. Line(q) = f[n] BY DEF Line, Loop, Behind
<1> HIDE DEF f
<1>3. f[0] = << >>
  <2>1. Loop(q, n, f)[0] = << >> BY <1>0 DEF Loop
  <2> QED BY <1>1, <2>1
<1>4. \A k \in 1 .. n : f[k] = Behind(f[k - 1], q[k])
  <2> TAKE k \in 1 .. n
  <2>1. Loop(q, n, f)[k] = Behind(f[k - 1], q[k]) BY <1>0 DEF Loop
  <2> QED BY <1>1, <2>1
<1>5. \A k \in 0 .. n : f[k] \in Seq(Blocks)
  <2> DEFINE S == {k \in 0 .. n : f[k] \in Seq(Blocks)}
  <2>1. 0 \in S
    <3>1. << >> \in Seq(Blocks) /\ 0 \in 0 .. n BY <1>0
    <3> QED BY <1>3, <3>1
  <2>2. ASSUME NEW k \in 1 .. n, k - 1 \in S PROVE k \in S
    <3>1. q[k] \in Packets OBVIOUS
    <3>2. q[k].blocks \in Seq(Blocks) BY <3>1 DEF Packets
    <3>3. Behind(f[k - 1], q[k]) \in Seq(Blocks) BY <2>2, <3>2, ConcatProperties DEF Behind
    <3>4. k \in 0 .. n /\ f[k] \in Seq(Blocks) BY <1>4, <3>3
    <3> QED BY <3>4
  <2> HIDE DEF S, n
  <2>3. \A k \in 0 .. n : k \in S BY <1>0, <2>1, <2>2, CountUp
  <2> QED BY <2>3 DEF S
<1> QED BY <1>2, <1>3, <1>4, <1>5 DEF LineOf, Builds

LEMMA LineType ==
  ASSUME NEW q \in Seq(Packets)
  PROVE  Line(q) \in Seq(Blocks)
<1>1. Len(q) \in 0 .. Len(q) OBVIOUS
<1> QED BY <1>1, LineLoops DEF LineOf, Builds

LEMMA LineOfNothing == Line(<< >>) = << >>
<1>1. << >> \in Seq(Packets) /\ Len(<< >>) = 0 OBVIOUS
<1> QED BY <1>1, LineLoops DEF LineOf, Builds

\* Chains with the same blocks up to n have the same line up to n.
LEMMA SameBeginning ==
  ASSUME NEW q, NEW r, NEW f, NEW g, NEW n \in Nat,
         Builds(q, f, n), Builds(r, g, n), SameBlocks(q, r, n)
  PROVE  f[n] = g[n]
<1> DEFINE S == {k \in 0 .. n : f[k] = g[k]}
<1>1. 0 \in S BY DEF Builds
<1>2. ASSUME NEW k \in 1 .. n, k - 1 \in S PROVE k \in S
  <2>1. f[k - 1] = g[k - 1] BY <1>2
  <2>2. f[k] = Behind(f[k - 1], q[k]) /\ g[k] = Behind(g[k - 1], r[k]) BY DEF Builds
  <2>3. f[k] = g[k] BY <2>1, <2>2 DEF Behind, SameBlocks
  <2>4. k \in 0 .. n OBVIOUS
  <2> QED BY <2>3, <2>4
<1> HIDE DEF S
<1>3. \A k \in 0 .. n : k \in S BY <1>1, <1>2, CountUp
<1>4. n \in S BY <1>3
<1> QED BY <1>4 DEF S

\* A chain and the same chain with blocks at the end of its last packet, which
\* may be a new one.
LEMMA LineOfLonger ==
  ASSUME NEW q \in Seq(Packets), NEW n \in Nat, n <= Len(q),
         NEW r \in Seq(Packets), Len(r) = n + 1,
         SameBlocks(q, r, n),
         NEW b \in Blocks,
         \/ n = Len(q) /\ r[n + 1].blocks = <<b>>
         \/ n + 1 = Len(q) /\ r[n + 1].blocks = Append(q[n + 1].blocks, b)
  PROVE  Line(r) = Append(Line(q), b)
<1>1. PICK f : Line(q) = f[Len(q)] /\ LineOf(q, f) BY LineLoops
<1>2. PICK g : Line(r) = g[Len(r)] /\ LineOf(r, g) BY LineLoops
<1>3. Len(q) \in Nat /\ n \in 0 .. Len(q) OBVIOUS
<1>4. Builds(q, f, n) /\ Builds(r, g, n) BY <1>1, <1>2, <1>3 DEF LineOf, Builds
<1>5. f[n] = g[n] BY <1>4, SameBeginning
<1>6. f[n] \in Seq(Blocks) BY <1>1, <1>3 DEF LineOf, Builds
<1>7. Line(r) = Behind(f[n], r[n + 1])
  <2>1. n + 1 \in 1 .. Len(r) /\ (n + 1) - 1 = n OBVIOUS
  <2>2. g[n + 1] = Behind(g[n], r[n + 1]) BY <1>2, <2>1 DEF LineOf, Builds
  <2> QED BY <1>2, <1>5, <2>2
<1>8. CASE n = Len(q) /\ r[n + 1].blocks = <<b>>
  <2>1. Line(q) = f[n] BY <1>1, <1>8
  <2> QED BY <1>6, <1>7, <1>8, <2>1, AppendIsConcat DEF Behind
<1>9. CASE n + 1 = Len(q) /\ r[n + 1].blocks = Append(q[n + 1].blocks, b)
  <2> DEFINE s == q[n + 1].blocks
             l == f[n]
  <2>1. n + 1 \in 1 .. Len(q) /\ (n + 1) - 1 = n BY <1>9
  <2>2. Line(q) = l \o s
    <3>1. f[n + 1] = Behind(f[n], q[n + 1]) BY <1>1, <2>1 DEF LineOf, Builds
    <3>2. Line(q) = Behind(f[n], q[n + 1]) BY <1>1, <1>9, <3>1
    <3> QED BY <3>2 DEF Behind
  <2>3. s \in Seq(Blocks)
    <3>1. q[n + 1] \in Packets BY <2>1, ElementOfSeq
    <3> QED BY <3>1 DEF Packets
  <2>4. Line(r) = l \o Append(s, b) BY <1>7, <1>9 DEF Behind
  <2>5. l \in Seq(Blocks) BY <1>6
  <2> HIDE DEF s, l
  <2>6. Append(s, b) = s \o <<b>> BY <2>3, AppendIsConcat
  <2>7. <<b>> \in Seq(Blocks) OBVIOUS
  <2>8. (l \o s) \o <<b>> = l \o (s \o <<b>>) BY <2>3, <2>5, <2>7, ConcatAssociative, SMTT(30)
  <2>9. l \o s \in Seq(Blocks) BY <2>3, <2>5, ConcatProperties
  <2>10. Append(l \o s, b) = (l \o s) \o <<b>> BY <2>9, AppendIsConcat
  <2>11. Line(r) = l \o (s \o <<b>>) BY <2>4, <2>6
  <2> QED BY <2>2, <2>8, <2>10, <2>11
<1> QED BY <1>8, <1>9

\* The line of a chain starts with the blocks of its first packet.
LEMMA LineOfChain ==
  ASSUME NEW q \in Seq(Packets), q # << >>
  PROVE  Line(q) = Head(q).blocks \o Line(Tail(q))
<1> DEFINE t == Tail(q)
           h == q[1].blocks
           n == Len(t)
<1>1. /\ t \in Seq(Packets) /\ n \in Nat /\ Len(q) = n + 1
      /\ \A k \in 1 .. n : t[k] = q[k + 1]
      /\ Head(q) = q[1]
  <2>1. /\ t \in Seq(Packets) /\ Len(t) = Len(q) - 1 /\ Len(q) \in Nat
        /\ \A k \in 1 .. Len(t) : t[k] = q[k + 1]
    BY HeadTailProperties, LenProperties
  <2>2. Len(t) \in Nat BY <2>1, LenProperties
  <2> HIDE DEF t
  <2> QED BY <2>1, <2>2
<1>2. h \in Seq(Blocks)
  <2>1. 1 \in 1 .. Len(q) BY <1>1
  <2>2. q[1] \in Packets BY <2>1, ElementOfSeq
  <2> QED BY <2>2 DEF Packets
<1> HIDE DEF t, h
<1>3. PICK f : Line(q) = f[Len(q)] /\ LineOf(q, f) BY LineLoops
<1>4. PICK g : Line(t) = g[n] /\ LineOf(t, g) BY <1>1, LineLoops
<1>5. \A k \in 1 .. n + 1 : f[k] = Behind(f[k - 1], q[k])
  BY <1>1, <1>3 DEF LineOf, Builds
<1>6. /\ \A k \in 1 .. n : g[k] = Behind(g[k - 1], t[k])
      /\ \A k \in 0 .. n : g[k] \in Seq(Blocks)
  BY <1>4 DEF LineOf, Builds
<1> DEFINE S == {k \in 0 .. n : f[k + 1] = h \o g[k]}
<1>7. 0 \in S
  <2>1. 1 \in 1 .. n + 1 /\ 1 - 1 = 0 /\ 0 \in 0 .. n /\ 0 + 1 = 1 BY <1>1
  <2>2. f[1] = Behind(f[0], q[1]) BY <1>5, <2>1
  <2>3. f[0] = << >> /\ g[0] = << >> BY <1>3, <1>4 DEF LineOf, Builds
  <2>4. f[1] = << >> \o h BY <2>2, <2>3 DEF Behind, h
  <2>5. f[1] = h \o g[0] BY <1>2, <2>3, <2>4, ConcatEmptySeq
  <2> QED BY <2>1, <2>5
<1>8. ASSUME NEW k \in 1 .. n, k - 1 \in S PROVE k \in S
  <2>1. /\ k \in 0 .. n /\ k - 1 \in 0 .. n /\ (k - 1) + 1 = k
        /\ k + 1 \in 1 .. n + 1 /\ (k + 1) - 1 = k
    BY <1>1
  <2> DEFINE s == t[k].blocks
             l == g[k - 1]
  <2>2. f[k] = h \o l BY <1>8, <2>1
  <2>3. f[k + 1] = (h \o l) \o s
    <3>1. f[k + 1] = Behind(f[k], q[k + 1]) BY <1>5, <2>1
    <3>2. q[k + 1] = t[k] BY <1>1
    <3> QED BY <2>2, <3>1, <3>2 DEF Behind
  <2>4. g[k] = l \o s BY <1>6 DEF Behind
  <2>5. l \in Seq(Blocks) BY <1>6, <2>1
  <2>6. s \in Seq(Blocks)
    <3>1. t[k] \in Packets BY <1>1, ElementOfSeq
    <3> QED BY <3>1 DEF Packets
  <2> HIDE DEF s, l
  <2>7. (h \o l) \o s = h \o (l \o s) BY <1>2, <2>5, <2>6, ConcatAssociative, SMTT(30)
  <2>8. f[k + 1] = h \o g[k] BY <2>3, <2>4, <2>7
  <2> QED BY <2>1, <2>8
<1> HIDE DEF S, n
<1>9. \A k \in 0 .. n : k \in S BY <1>1, <1>7, <1>8, CountUp
<1>10. n \in S BY <1>1, <1>9
<1>11. f[n + 1] = h \o g[n] BY <1>10 DEF S
<1> QED BY <1>1, <1>3, <1>4, <1>11 DEF n, h, t

\* When its first packet leaves, that many blocks leave the line.
LEMMA LineOfTail ==
  ASSUME NEW q \in Seq(Packets), q # << >>, Head(q).blocks # << >>
  PROVE  LET n == Len(Head(q).blocks)
         IN  /\ n \in 1 .. Len(Line(q))
             /\ Line(Tail(q)) = SubSeq(Line(q), n + 1, Len(Line(q)))
<1> DEFINE h == Head(q).blocks
           l == Line(Tail(q))
           n == Len(h)
           m == Len(l)
           s == h \o l
<1>1. h \in Seq(Blocks) /\ l \in Seq(Blocks)
  <2>1. Head(q) \in Packets /\ Tail(q) \in Seq(Packets) BY HeadTailProperties
  <2> QED BY <2>1, LineType DEF Packets
<1>2. Line(q) = s BY LineOfChain
<1>3. h # << >> OBVIOUS
<1> HIDE DEF h, l
<1>4. n \in Nat \ {0} /\ m \in Nat BY <1>1, <1>3, EmptySeq, LenProperties
<1>5. /\ s \in Seq(Blocks) /\ Len(s) = n + m
      /\ \A i \in 1 .. n + m : s[i] = IF i <= n THEN h[i] ELSE l[i - n]
  BY <1>1, ConcatProperties
<1> HIDE DEF n, m, s
<1>6. n \in 1 .. Len(s) BY <1>4, <1>5
<1> DEFINE r == SubSeq(s, n + 1, n + m)
<1>7. r \in Seq(Blocks) /\ Len(r) = m /\ \A i \in 1 .. m : r[i] = s[n + i]
  <2>1. \A i \in n + 1 .. n + m : s[i] \in Blocks
    <3>1. \A i \in 1 .. Len(s) : s[i] \in Blocks BY <1>5, ElementOfSeq
    <3> QED BY <1>4, <1>5, <3>1
  <2>2. n + 1 \in Int /\ n + m \in Int BY <1>4
  <2>3. /\ r \in Seq(Blocks)
        /\ Len(r) = IF n + 1 <= n + m THEN (n + m) - (n + 1) + 1 ELSE 0
        /\ \A i \in 1 .. (n + m) - (n + 1) + 1 : r[i] = s[n + 1 + i - 1]
    BY <2>1, <2>2, SubSeqProperties
  <2> HIDE DEF r
  <2>4. Len(r) = m BY <1>4, <2>3
  <2>5. \A i \in 1 .. m : r[i] = s[n + i]
    <3> TAKE i \in 1 .. m
    <3>1. i \in 1 .. (n + m) - (n + 1) + 1 /\ n + 1 + i - 1 = n + i BY <1>4
    <3> QED BY <2>3, <3>1
  <2> QED BY <2>3, <2>4, <2>5
<1> HIDE DEF r
<1>8. \A i \in 1 .. m : r[i] = l[i]
  <2> TAKE i \in 1 .. m
  <2>1. n + i \in 1 .. n + m /\ ~ (n + i <= n) /\ (n + i) - n = i BY <1>4
  <2> QED BY <1>5, <1>7, <2>1
<1>9. r = l BY <1>1, <1>7, <1>8, SeqEqual DEF m
<1> QED BY <1>2, <1>5, <1>6, <1>9 DEF h, l, n, r

-----------------------------------------------------------------------------
(* The blocks of a chain, and the references it has on them.               *)

Has(s, b) == \E i \in 1 .. Len(s) : s[i] = b

InChain(q, b) == \E i \in 1 .. Len(q) : Has(q[i].blocks, b)

LEMMA HasConcat ==
  ASSUME NEW s \in Seq(Blocks), NEW t \in Seq(Blocks), NEW b
  PROVE  Has(s \o t, b) <=> Has(s, b) \/ Has(t, b)
<1> DEFINE n == Len(s)
           m == Len(t)
           u == s \o t
<1>1. /\ n \in Nat /\ m \in Nat /\ Len(u) = n + m
      /\ \A i \in 1 .. n + m : u[i] = IF i <= n THEN s[i] ELSE t[i - n]
  BY ConcatProperties, LenProperties
<1> HIDE DEF n, m, u
<1>2. ASSUME NEW i \in 1 .. n + m, u[i] = b PROVE Has(s, b) \/ Has(t, b)
  <2>1. i <= n => i \in 1 .. n BY <1>1
  <2>2. ~ (i <= n) => i - n \in 1 .. m BY <1>1
  <2> QED BY <1>1, <1>2, <2>1, <2>2 DEF Has, n, m
<1>3. ASSUME NEW i \in 1 .. n, s[i] = b PROVE \E j \in 1 .. n + m : u[j] = b
  <2>1. i \in 1 .. n + m /\ i <= n BY <1>1
  <2> QED BY <1>1, <1>3, <2>1
<1>4. ASSUME NEW i \in 1 .. m, t[i] = b PROVE \E j \in 1 .. n + m : u[j] = b
  <2>1. n + i \in 1 .. n + m /\ ~ (n + i <= n) /\ (n + i) - n = i BY <1>1
  <2> QED BY <1>1, <1>4, <2>1
<1> QED BY <1>1, <1>2, <1>3, <1>4 DEF Has, n, m, u

\* The blocks of the line are those of the chain.
LEMMA LineHas ==
  ASSUME NEW q \in Seq(Packets), NEW b
  PROVE  Has(Line(q), b) <=> InChain(q, b)
<1>1. PICK f : Line(q) = f[Len(q)] /\ LineOf(q, f) BY LineLoops
<1> DEFINE n == Len(q)
           S == {k \in 0 .. n : Has(f[k], b) <=> \E i \in 1 .. k : Has(q[i].blocks, b)}
<1>2. n \in Nat BY LenProperties
<1>3. 0 \in S
  <2>1. f[0] = << >> BY <1>1 DEF LineOf, Builds
  <2>2. ~ Has(<< >>, b) BY DEF Has
  <2> QED BY <1>2, <2>1, <2>2
<1>4. ASSUME NEW k \in 1 .. n, k - 1 \in S PROVE k \in S
  <2>1. k \in 0 .. n /\ k - 1 \in 0 .. n /\ k \in Nat BY <1>2
  <2> DEFINE s == f[k - 1]
             t == q[k].blocks
  <2>2. s \in Seq(Blocks) BY <1>1, <2>1 DEF LineOf
  <2>3. t \in Seq(Blocks)
    <3>1. q[k] \in Packets BY ElementOfSeq
    <3> QED BY <3>1 DEF Packets
  <2>4. f[k] = s \o t BY <1>1 DEF LineOf, Builds, Behind
  <2>5. Has(s, b) <=> \E i \in 1 .. k - 1 : Has(q[i].blocks, b) BY <1>4
  <2>6. Has(s \o t, b) <=> Has(s, b) \/ Has(t, b) BY <2>2, <2>3, HasConcat
  <2>7. \A i \in 1 .. k : i \in 1 .. k - 1 \/ i = k BY <2>1
  <2>8. \A i \in 1 .. k - 1 : i \in 1 .. k BY <2>1
  <2>9. k \in 1 .. k BY <2>1
  <2> HIDE DEF s
  <2>10. (\E i \in 1 .. k : Has(q[i].blocks, b)) <=> Has(s, b) \/ Has(t, b)
    BY <2>5, <2>7, <2>8, <2>9
  <2> QED BY <2>1, <2>4, <2>6, <2>10
<1> HIDE DEF S, n
<1>5. \A k \in 0 .. n : k \in S BY <1>2, <1>3, <1>4, CountUp
<1>6. n \in S BY <1>2, <1>5
<1> QED BY <1>1, <1>6 DEF S, InChain, n

\* Every packet has blocks, as many as fit, and no block is there twice.
Filling(q) == \A i \in 1 .. Len(q) : Len(q[i].blocks) \in 1 .. BlockCount

Once(q) ==
  \A i, k \in 1 .. Len(q) :
    \A j \in 1 .. Len(q[i].blocks), l \in 1 .. Len(q[k].blocks) :
      q[i].blocks[j] = q[k].blocks[l] => i = k /\ j = l

\* Then the chain has one reference on each of its blocks.
LEMMA OneReference ==
  ASSUME NEW q \in Seq(Packets), Filling(q), Once(q), NEW b
  PROVE  Held(q, b) = IF InChain(q, b) THEN 1 ELSE 0
<1> DEFINE at == {x \in (1 .. Len(q)) \X (1 .. BlockCount) :
                    x[2] <= Len(q[x[1]].blocks) /\ q[x[1]].blocks[x[2]] = b}
<1>0. Held(q, b) = Cardinality(at) BY DEF Held
<1>1. CASE InChain(q, b)
  <2>0. PICK i \in 1 .. Len(q) : Has(q[i].blocks, b) BY <1>1 DEF InChain
  <2>1. PICK j \in 1 .. Len(q[i].blocks) : q[i].blocks[j] = b BY <2>0 DEF Has
  <2>2. Len(q[i].blocks) \in 1 .. BlockCount BY DEF Filling
  <2>3. BlockCount \in Nat BY SizesAssumption
  <2>4. j \in 1 .. BlockCount /\ j <= Len(q[i].blocks) BY <2>2, <2>3
  <2>5. <<i, j>> \in at BY <2>1, <2>4
  <2>6. \A x \in at : x = <<i, j>>
    <3> TAKE x \in at
    <3>1. /\ x[1] \in 1 .. Len(q) /\ x[2] \in 1 .. BlockCount /\ x = <<x[1], x[2]>>
          /\ x[2] <= Len(q[x[1]].blocks) /\ q[x[1]].blocks[x[2]] = b
      OBVIOUS
    <3>2. Len(q[x[1]].blocks) \in 1 .. BlockCount BY <3>1 DEF Filling
    <3>3. x[2] \in 1 .. Len(q[x[1]].blocks) BY <2>3, <3>1, <3>2
    <3>4. x[1] = i /\ x[2] = j BY <2>1, <3>1, <3>3 DEF Once
    <3> QED BY <3>1, <3>4
  <2> HIDE DEF at
  <2>7. at = {<<i, j>>} BY <2>5, <2>6
  <2> QED BY <1>0, <1>1, <2>7, FS_Singleton
<1>2. CASE ~ InChain(q, b)
  <2>1. at = {}
    <3> SUFFICES ASSUME NEW x \in at PROVE FALSE OBVIOUS
    <3>1. /\ x[1] \in 1 .. Len(q) /\ x[2] \in 1 .. BlockCount
          /\ x[2] <= Len(q[x[1]].blocks) /\ q[x[1]].blocks[x[2]] = b
      OBVIOUS
    <3>2. Len(q[x[1]].blocks) \in 1 .. BlockCount BY <3>1 DEF Filling
    <3>3. x[2] \in 1 .. Len(q[x[1]].blocks) BY <3>1, <3>2, SizesAssumption
    <3> QED BY <1>2, <3>1, <3>3 DEF InChain, Has
  <2> QED BY <1>0, <1>2, <2>1, FS_EmptySet
<1> QED BY <1>1, <1>2

\* r is chain q with block b behind it, in its last packet or in a new one,
\* and has n packets before that one.
Longer(q, r, n, b) ==
  /\ Len(r) = n + 1
  /\ SameBlocks(q, r, n)
  /\ \/ n = Len(q) /\ r[n + 1].blocks = <<b>>
     \/ /\ n + 1 = Len(q) /\ Len(q[n + 1].blocks) < BlockCount
        /\ r[n + 1].blocks = Append(q[n + 1].blocks, b)

LEMMA LongerLine ==
  ASSUME NEW q \in Seq(Packets), NEW r \in Seq(Packets), NEW n \in Nat, NEW b \in Blocks,
         Longer(q, r, n, b)
  PROVE  /\ Line(r) = Append(Line(q), b)
         /\ \A x : InChain(r, x) <=> InChain(q, x) \/ x = b
<1>1. Line(r) = Append(Line(q), b)
  <2>1. Len(q) \in Nat BY LenProperties
  <2>2. n <= Len(q) BY <2>1 DEF Longer
  <2> QED BY <2>2, LineOfLonger DEF Longer
<1>2. ASSUME NEW x PROVE InChain(r, x) <=> InChain(q, x) \/ x = b
  <2> DEFINE l == Line(q)
  <2>1. l \in Seq(Blocks) BY LineType
  <2> HIDE DEF l
  <2>2. <<b>> \in Seq(Blocks) OBVIOUS
  <2>3. Append(l, b) = l \o <<b>> BY <2>1, AppendIsConcat
  <2>4. Has(l \o <<b>>, x) <=> Has(l, x) \/ Has(<<b>>, x) BY <2>1, <2>2, HasConcat
  <2>5. Has(<<b>>, x) <=> x = b BY DEF Has
  <2>6. (Has(Line(r), x) <=> InChain(r, x)) /\ (Has(l, x) <=> InChain(q, x))
    BY LineHas DEF l
  <2> QED BY <1>1, <2>3, <2>4, <2>5, <2>6 DEF l
<1> QED BY <1>1, <1>2

LEMMA LongerOnce ==
  ASSUME NEW q \in Seq(Packets), NEW r \in Seq(Packets), NEW n \in Nat, NEW b \in Blocks,
         Longer(q, r, n, b), Filling(q), Once(q), ~ InChain(q, b)
  PROVE  Filling(r) /\ Once(r)
<1> DEFINE Old(i, j) == /\ i \in 1 .. Len(q) /\ j \in 1 .. Len(q[i].blocks)
                        /\ r[i].blocks[j] = q[i].blocks[j]
           New(i, j) == i = n + 1 /\ j = Len(r[i].blocks) /\ r[i].blocks[j] = b
<1>1. Len(q) \in Nat /\ Len(r) = n + 1 /\ n <= Len(q) /\ BlockCount \in Nat \ {0}
  BY LenProperties, SizesAssumption DEF Longer
<1>2. \A i \in 1 .. Len(q) : q[i].blocks \in Seq(Blocks) /\ Len(q[i].blocks) \in 1 .. BlockCount
  <2> TAKE i \in 1 .. Len(q)
  <2>1. q[i] \in Packets BY ElementOfSeq
  <2> QED BY <2>1 DEF Packets, Filling
<1>3. ASSUME NEW i \in 1 .. Len(r)
      PROVE  /\ Len(r[i].blocks) \in 1 .. BlockCount
             /\ \A j \in 1 .. Len(r[i].blocks) : Old(i, j) \/ New(i, j)
  <2>1. CASE i \in 1 .. n
    <3>1. i \in 1 .. Len(q) /\ r[i].blocks = q[i].blocks
      BY <1>1, <2>1 DEF Longer, SameBlocks
    <3> QED BY <1>2, <3>1
  <2>2. CASE i = n + 1 /\ r[n + 1].blocks = <<b>>
    BY <1>1, <2>2
  <2>3. CASE /\ i = n + 1 /\ n + 1 = Len(q) /\ Len(q[n + 1].blocks) < BlockCount
             /\ r[n + 1].blocks = Append(q[n + 1].blocks, b)
    <3> DEFINE s == q[i].blocks
               t == r[i].blocks
    <3>1. i \in 1 .. Len(q) BY <1>1, <2>3
    <3>2. s \in Seq(Blocks) /\ Len(s) \in 1 .. BlockCount /\ Len(s) < BlockCount
      BY <1>2, <2>3, <3>1
    <3>3. t = Append(s, b) BY <2>3
    <3> HIDE DEF s, t
    <3>4. Len(t) = Len(s) + 1 /\ t[Len(t)] = b /\ \A j \in 1 .. Len(s) : t[j] = s[j]
      BY <3>2, <3>3, AppendProperties
    <3>5. Len(t) \in 1 .. BlockCount BY <1>1, <3>2, <3>4
    <3>6. \A j \in 1 .. Len(t) : j \in 1 .. Len(s) \/ j = Len(t) BY <3>2, <3>4
    <3>7. \A j \in 1 .. Len(t) : Old(i, j) \/ New(i, j)
      BY <2>3, <3>1, <3>4, <3>6 DEF s, t
    <3> QED BY <3>5, <3>7 DEF t
  <2>4. i \in 1 .. n \/ i = n + 1 BY <1>1
  <2> QED BY <2>1, <2>2, <2>3, <2>4 DEF Longer
<1>4. \A i \in 1 .. Len(q) : \A j \in 1 .. Len(q[i].blocks) : q[i].blocks[j] # b
  BY DEF InChain, Has
<1>5. ASSUME NEW i \in 1 .. Len(r), NEW j \in 1 .. Len(r[i].blocks),
             NEW k \in 1 .. Len(r), NEW l \in 1 .. Len(r[k].blocks),
             r[i].blocks[j] = r[k].blocks[l]
      PROVE  i = k /\ j = l
  <2>1. Old(i, j) \/ New(i, j) BY <1>3
  <2>2. Old(k, l) \/ New(k, l) BY <1>3
  <2>3. Old(i, j) => r[i].blocks[j] # b BY <1>4
  <2>4. Old(k, l) => r[k].blocks[l] # b BY <1>4
  <2>5. CASE Old(i, j) /\ Old(k, l)
    <3>1. /\ i \in 1 .. Len(q) /\ j \in 1 .. Len(q[i].blocks)
          /\ k \in 1 .. Len(q) /\ l \in 1 .. Len(q[k].blocks)
      BY <2>5
    <3>2. q[i].blocks[j] = q[k].blocks[l] BY <1>5, <2>5
    <3> HIDE DEF Old
    <3> QED BY <3>1, <3>2 DEF Once
  <2>6. CASE New(i, j) /\ New(k, l) BY <2>6
  <2> HIDE DEF Old
  <2> QED BY <1>5, <2>1, <2>2, <2>3, <2>4, <2>5, <2>6
<1> QED BY <1>3, <1>5 DEF Filling, Once

\* A chain without its first packet, and that packet.
LEMMA HeadAndTail ==
  ASSUME NEW q \in Seq(Packets), q # << >>, Filling(q), Once(q)
  PROVE  /\ Tail(q) \in Seq(Packets) /\ Filling(Tail(q)) /\ Once(Tail(q))
         /\ <<Head(q)>> \in Seq(Packets) /\ Filling(<<Head(q)>>) /\ Once(<<Head(q)>>)
         /\ Head(q).blocks # << >>
         /\ \A x : InChain(q, x) <=> InChain(Tail(q), x) \/ InChain(<<Head(q)>>, x)
         /\ \A x : ~ (InChain(Tail(q), x) /\ InChain(<<Head(q)>>, x))
<1> DEFINE t == Tail(q)
           h == <<Head(q)>>
           n == Len(t)
<1>1. /\ t \in Seq(Packets) /\ n \in Nat /\ Len(q) = n + 1
      /\ \A k \in 1 .. n : t[k] = q[k + 1]
  <2>1. /\ t \in Seq(Packets) /\ Len(t) = Len(q) - 1 /\ Len(q) \in Nat
        /\ \A k \in 1 .. Len(t) : t[k] = q[k + 1]
    BY HeadTailProperties, LenProperties
  <2>2. Len(t) \in Nat BY <2>1, LenProperties
  <2> HIDE DEF t
  <2> QED BY <2>1, <2>2
<1>2. h \in Seq(Packets) /\ Len(h) = 1 /\ h[1] = q[1]
  <2>1. Head(q) \in Packets /\ Head(q) = q[1] BY HeadTailProperties
  <2> HIDE DEF Packets
  <2> QED BY <2>1
<1>3. Head(q).blocks # << >>
  <2>1. 1 \in 1 .. Len(q) /\ Head(q) = q[1] BY <1>1
  <2>2. Len(Head(q).blocks) >= 1 BY <2>1, SizesAssumption DEF Filling
  <2> QED BY <2>2
<1> HIDE DEF t, h, n
<1>4. \A k \in 1 .. n : k + 1 \in 1 .. Len(q) BY <1>1
<1>5. Filling(t) BY <1>1, <1>4 DEF Filling, n
<1>6. Once(t)
  <2> SUFFICES ASSUME NEW i \in 1 .. n, NEW j \in 1 .. Len(t[i].blocks),
                      NEW k \in 1 .. n, NEW l \in 1 .. Len(t[k].blocks),
                      t[i].blocks[j] = t[k].blocks[l]
               PROVE  i = k /\ j = l
    BY DEF Once, n
  <2>1. t[i] = q[i + 1] /\ t[k] = q[k + 1] BY <1>1
  <2>2. i + 1 = k + 1 /\ j = l BY <1>4, <2>1 DEF Once
  <2> QED BY <2>2
<1>7. 1 \in 1 .. Len(q) /\ \A i \in 1 .. Len(h) : i = 1 BY <1>1, <1>2
<1>8. Filling(h) BY <1>2, <1>7 DEF Filling
<1>9. Once(h) BY <1>2, <1>7 DEF Once
<1>10. ASSUME NEW x PROVE InChain(h, x) <=> Has(q[1].blocks, x)
  <2>1. 1 \in 1 .. Len(h) BY <1>2
  <2> QED BY <1>2, <1>7, <2>1 DEF InChain
<1>11. ASSUME NEW x PROVE InChain(t, x) <=> \E i \in 1 .. n : Has(q[i + 1].blocks, x)
  BY <1>1 DEF InChain, n
<1>12. ASSUME NEW x PROVE InChain(q, x) <=> InChain(t, x) \/ InChain(h, x)
  <2>1. ASSUME NEW i \in 1 .. Len(q), Has(q[i].blocks, x) PROVE InChain(t, x) \/ InChain(h, x)
    <3>1. CASE i = 1 BY <1>10, <2>1, <3>1
    <3>2. CASE i # 1
      <4>1. i - 1 \in 1 .. n /\ (i - 1) + 1 = i BY <1>1, <3>2
      <4> QED BY <1>11, <2>1, <4>1
    <3> QED BY <3>1, <3>2
  <2>2. InChain(t, x) => InChain(q, x) BY <1>4, <1>11 DEF InChain
  <2>3. InChain(h, x) => InChain(q, x) BY <1>7, <1>10 DEF InChain
  <2> QED BY <2>1, <2>2, <2>3 DEF InChain
<1>13. ASSUME NEW x, InChain(t, x), InChain(h, x) PROVE FALSE
  <2>1. PICK i \in 1 .. n : Has(q[i + 1].blocks, x) BY <1>11, <1>13
  <2>2. Has(q[1].blocks, x) BY <1>10, <1>13
  <2>3. i + 1 # 1 /\ i + 1 \in 1 .. Len(q) BY <1>4
  <2>4. PICK j \in 1 .. Len(q[i + 1].blocks) : q[i + 1].blocks[j] = x BY <2>1 DEF Has
  <2>5. PICK k \in 1 .. Len(q[1].blocks) : q[1].blocks[k] = x BY <2>2 DEF Has
  <2>6. q[i + 1].blocks[j] = q[1].blocks[k] BY <2>4, <2>5
  <2>7. i + 1 = 1 BY <1>7, <2>3, <2>6 DEF Once
  <2> QED BY <2>3, <2>7
<1> QED BY <1>1, <1>2, <1>3, <1>5, <1>6, <1>8, <1>9, <1>12, <1>13 DEF t, h

-----------------------------------------------------------------------------
(***************************************************************************)
(* No block is twice in a queue, and i_refcount is the number of outputs   *)
(* that have the block in theirs.                                          *)
(***************************************************************************)
Holders(qs, b) == {o \in Outputs : InChain(qs[o], b)}

Counts(qs, count) == \A b \in Blocks : count[b] = Cardinality(Holders(qs, b))

BlocksInv ==
  /\ \A o \in Outputs : Filling(queue[o]) /\ Once(queue[o])
  /\ Counts(queue, refcount)

LEMMA HoldersType ==
  ASSUME NEW qs, NEW b
  PROVE  /\ IsFiniteSet(Holders(qs, b))
         /\ Cardinality(Holders(qs, b)) \in Nat
         /\ Cardinality(Holders(qs, b)) = 0 <=> Holders(qs, b) = {}
<1>1. IsFiniteSet(Outputs)
  BY FS_Interval, SizesAssumption DEF Outputs
<1>2. Holders(qs, b) \in SUBSET Outputs
  BY DEF Holders
<1>3. IsFiniteSet(Holders(qs, b))
  BY <1>1, <1>2, FS_Subset
<1>4. QED
  BY <1>3, FS_CardinalityType, FS_EmptySet

\* What output_Put makes of a queue is the queue with the block behind it.
LEMMA FilledIsLonger ==
  ASSUME TypeOK, NEW o \in Outputs, NEW b \in Blocks, NEW d \in Nat, NEW hasPcr \in BOOLEAN
  PROVE  \E n \in Nat : Longer(queue[o], Filled(o, b, d, hasPcr), n, b)
<1> DEFINE q == queue[o]
           n == Len(q)
           new == [i_dts |-> IF hasPcr THEN d ELSE q[n].i_dts,
                   blocks |-> Append(q[n].blocks, b)]
           one == [i_dts |-> d, blocks |-> <<b>>]
<1>1. q \in Seq(Packets) /\ n \in Nat
  BY DEF TypeOK
<1>2. CASE Fits(o, d)
  <2>1. n \in 1 .. n /\ n - 1 \in Nat /\ (n - 1) + 1 = n
    BY <1>1, <1>2 DEF Fits, Pending
  <2>2. Filled(o, b, d, hasPcr) = [q EXCEPT ![n] = new]
    BY <1>2 DEF Filled
  <2>3. Len(q[n].blocks) < BlockCount
    BY <1>2 DEF Fits, LastPacket
  <2>4. new.blocks = Append(q[n].blocks, b)
    BY Zenon
  <2> DEFINE r == [q EXCEPT ![n] = new]
  <2> HIDE DEF q, new
  <2>5. Len(r) = n /\ r[n] = new /\ \A k \in 1 .. n - 1 : r[k] = q[k]
    BY <1>1, <2>1 DEF q
  <2> HIDE DEF r
  <2>6. r[n].blocks = Append(q[n].blocks, b)
    BY <2>4, <2>5
  <2>7. SameBlocks(q, r, n - 1)
    BY <2>5 DEF SameBlocks
  <2>8. Len(q) = n
    OBVIOUS
  <2> HIDE DEF n
  <2>9. Longer(q, r, n - 1, b)
    BY <2>1, <2>3, <2>5, <2>6, <2>7, <2>8 DEF Longer
  <2> QED
    BY <2>1, <2>2, <2>9 DEF q, r
<1>3. CASE ~ Fits(o, d)
  <2>1. Filled(o, b, d, hasPcr) = Append(q, one)
    BY <1>3 DEF Filled
  <2>2. one \in Packets /\ one.blocks = <<b>>
    BY DEF Packets
  <2> DEFINE r == Append(q, one)
  <2> HIDE DEF q, one
  <2>3. Len(r) = n + 1 /\ r[n + 1] = one /\ \A k \in 1 .. n : r[k] = q[k]
    BY <1>1, <2>2, AppendProperties
  <2> HIDE DEF r, n
  <2>4. Longer(q, r, n, b)
    BY <2>2, <2>3 DEF Longer, SameBlocks, n
  <2> QED
    BY <1>1, <2>1, <2>4 DEF q, r, one
<1> QED
  BY <1>2, <1>3

\* A free block joins the queues of some outputs.
LEMMA HandleBlocks ==
  ASSUME TypeOK, BlocksInv,
         NEW b \in Blocks, NEW outs \in SUBSET valid, NEW d \in Dates, NEW hasPcr \in BOOLEAN,
         Handle(b, outs, d, hasPcr)
  PROVE  /\ BlocksInv'
         /\ \A o \in outs : Line(queue'[o]) = Append(Line(queue[o]), b)
<1>1. outs \in SUBSET Outputs /\ d \in Nat
  BY DEF Dates, TypeOK
<1>2. \A o \in Outputs :
        queue'[o] = IF o \in outs THEN Filled(o, b, d, hasPcr) ELSE queue[o]
  BY DEF Handle
<1>3. \A o \in Outputs : ~ InChain(queue[o], b)
  <2>1. refcount[b] = 0
    BY DEF Handle
  <2>2. Cardinality(Holders(queue, b)) = 0
    BY <2>1 DEF BlocksInv, Counts
  <2>3. QED
    BY <2>2, HoldersType DEF Holders
<1>4. ASSUME NEW o \in outs
      PROVE  /\ Filling(queue'[o]) /\ Once(queue'[o])
             /\ Line(queue'[o]) = Append(Line(queue[o]), b)
             /\ \A x : InChain(queue'[o], x) <=> InChain(queue[o], x) \/ x = b
  <2> DEFINE q == queue[o]
             r == Filled(o, b, d, hasPcr)
  <2>1. o \in Outputs /\ queue'[o] = r
    BY <1>1, <1>2
  <2>2. r \in Seq(Packets)
    BY <1>1, <2>1, FilledType
  <2>3. PICK n \in Nat : Longer(q, r, n, b)
    BY <1>1, <2>1, FilledIsLonger
  <2>4. q \in Seq(Packets) /\ Filling(q) /\ Once(q) /\ ~ InChain(q, b)
    BY <1>3, <2>1 DEF TypeOK, BlocksInv
  <2> HIDE DEF q, r
  <2>5. Filling(r) /\ Once(r)
    BY <2>2, <2>3, <2>4, LongerOnce
  <2>6. Line(r) = Append(Line(q), b) /\ \A x : InChain(r, x) <=> InChain(q, x) \/ x = b
    BY <2>2, <2>3, <2>4, LongerLine
  <2> QED
    BY <2>1, <2>5, <2>6 DEF q
<1>5. \A o \in Outputs : Filling(queue'[o]) /\ Once(queue'[o])
  BY <1>2, <1>4 DEF BlocksInv
<1>6. Holders(queue', b) = outs
  BY <1>1, <1>2, <1>3, <1>4 DEF Holders
<1>7. \A x \in Blocks \ {b} : Holders(queue', x) = Holders(queue, x)
  BY <1>1, <1>2, <1>4 DEF Holders
<1>8. refcount' = [refcount EXCEPT ![b] = Cardinality(outs)]
  BY DEF Handle, Referenced
<1>9. ASSUME NEW x \in Blocks
      PROVE  refcount'[x] = Cardinality(Holders(queue', x))
  <2>1. CASE x = b
    BY <1>6, <1>8, <2>1 DEF TypeOK
  <2>2. CASE x # b
    BY <1>7, <1>8, <2>2 DEF TypeOK, BlocksInv, Counts
  <2>3. QED
    BY <2>1, <2>2
<1>10. QED
  BY <1>4, <1>5, <1>9 DEF BlocksInv, Counts

\* A part of the queue of an output is released.
LEMMA ReleaseBlocks ==
  ASSUME TypeOK, BlocksInv, NEW o \in Outputs,
         NEW c \in Seq(Packets), Filling(c), Once(c),
         NEW rest, Filling(rest), Once(rest),
         queue' = [queue EXCEPT ![o] = rest],
         Release(c),
         \A x : InChain(queue[o], x) <=> InChain(rest, x) \/ InChain(c, x),
         \A x : ~ (InChain(rest, x) /\ InChain(c, x))
  PROVE  BlocksInv'
<1>1. queue'[o] = rest /\ \A p \in Outputs \ {o} : queue'[p] = queue[p]
  BY DEF TypeOK
<1>2. \A p \in Outputs : Filling(queue'[p]) /\ Once(queue'[p])
  BY <1>1 DEF BlocksInv
<1>3. ASSUME NEW x \in Blocks
      PROVE  refcount'[x] = Cardinality(Holders(queue', x))
  <2>1. refcount'[x] = Cardinality(Holders(queue, x)) - Held(c, x)
    BY DEF Release, BlocksInv, Counts
  <2>2. Held(c, x) = IF InChain(c, x) THEN 1 ELSE 0
    BY OneReference
  <2>3. IsFiniteSet(Holders(queue, x)) /\ Cardinality(Holders(queue, x)) \in Nat
    BY HoldersType
  <2>4. CASE InChain(c, x)
    <3>1. o \in Holders(queue, x)
      BY <2>4 DEF Holders
    <3>2. Holders(queue', x) = Holders(queue, x) \ {o}
      BY <1>1, <2>4 DEF Holders
    <3>3. Cardinality(Holders(queue, x) \ {o}) = Cardinality(Holders(queue, x)) - 1
      BY <2>3, <3>1, FS_RemoveElement
    <3> QED
      BY <2>1, <2>2, <2>4, <3>2, <3>3
  <2>5. CASE ~ InChain(c, x)
    <3>1. Holders(queue', x) = Holders(queue, x)
      BY <1>1, <2>5 DEF Holders
    <3> QED
      BY <2>1, <2>2, <2>3, <2>5, <3>1
  <2> QED
    BY <2>4, <2>5
<1> QED
  BY <1>2, <1>3 DEF BlocksInv, Counts

LEMMA NothingInEmpty == Filling(<< >>) /\ Once(<< >>) /\ \A x : ~ InChain(<< >>, x)
BY DEF Filling, Once, InChain

\* A datagram leaves.
LEMMA FlushBlocks ==
  ASSUME TypeOK, BlocksInv, Flush
  PROVE  /\ BlocksInv'
         /\ cursor \in Outputs
         /\ \E n \in 1 .. Len(Line(queue[cursor])) :
              Line(queue'[cursor]) =
                SubSeq(Line(queue[cursor]), n + 1, Len(Line(queue[cursor])))
<1> DEFINE q == queue[cursor]
<1>1. /\ cursor \in Outputs
      /\ queue' = [queue EXCEPT ![cursor] = Tail(q)]
      /\ Release(<<Head(q)>>)
      /\ q # << >>
  BY SizesAssumption DEF Flush, IsDue, Pending, TypeOK, Outputs
<1>2. q \in Seq(Packets) /\ Filling(q) /\ Once(q)
  BY <1>1 DEF TypeOK, BlocksInv
<1>3. queue'[cursor] = Tail(q)
  BY <1>1 DEF TypeOK
<1> HIDE DEF q
<1>4. /\ Filling(Tail(q)) /\ Once(Tail(q))
      /\ <<Head(q)>> \in Seq(Packets) /\ Filling(<<Head(q)>>) /\ Once(<<Head(q)>>)
      /\ Head(q).blocks # << >>
      /\ \A x : InChain(q, x) <=> InChain(Tail(q), x) \/ InChain(<<Head(q)>>, x)
      /\ \A x : ~ (InChain(Tail(q), x) /\ InChain(<<Head(q)>>, x))
  BY <1>1, <1>2, HeadAndTail
<1> DEFINE t == Tail(q)
           h == <<Head(q)>>
<1>5. \A x : InChain(queue[cursor], x) <=> InChain(t, x) \/ InChain(h, x)
  BY <1>4 DEF q
<1>6. BlocksInv'
  <2> HIDE DEF t, h
  <2> QED
    BY <1>1, <1>4, <1>5, ReleaseBlocks DEF t, h
<1>7. \E n \in 1 .. Len(Line(q)) : Line(Tail(q)) = SubSeq(Line(q), n + 1, Len(Line(q)))
  BY <1>1, <1>2, <1>4, LineOfTail
<1> QED
  BY <1>1, <1>3, <1>6, <1>7 DEF q

LEMMA CloseBlocks ==
  ASSUME TypeOK, BlocksInv, NEW o \in Outputs, Close(o)
  PROVE  BlocksInv'
<1>1. queue' = [queue EXCEPT ![o] = << >>] /\ Release(queue[o])
  BY DEF Close
<1>2. queue[o] \in Seq(Packets) /\ Filling(queue[o]) /\ Once(queue[o])
  BY DEF TypeOK, BlocksInv
<1> QED
  BY <1>1, <1>2, NothingInEmpty, ReleaseBlocks

LEMMA BlocksStep ==
  ASSUME TypeOK, BlocksInv, [Next]_vars
  PROVE  BlocksInv'
<1>1. ASSUME NEW b \in Blocks, NEW outs \in SUBSET valid, NEW d \in Dates, NEW hasPcr \in BOOLEAN,
             Handle(b, outs, d, hasPcr)
      PROVE  BlocksInv'
  BY <1>1, HandleBlocks
<1>2. CASE Flush
  BY <1>2, FlushBlocks
<1>3. ASSUME NEW o \in Outputs, Close(o)
      PROVE  BlocksInv'
  BY <1>3, CloseBlocks
<1>4. CASE UNCHANGED <<queue, refcount>>
  BY <1>4 DEF BlocksInv
<1>5. TimerFires \/ NextOutput \/ SendAgain \/ SendDone \/ Tick => UNCHANGED <<queue, refcount>>
  BY DEF TimerFires, NextOutput, SendAgain, SendDone, Tick, blockVars
<1>6. \A o \in Outputs, l \in Latencies : Configure(o, l) => UNCHANGED <<queue, refcount>>
  BY DEF Configure, blockVars
<1>7. UNCHANGED vars => UNCHANGED <<queue, refcount>>
  BY DEF vars, blockVars
<1> QED
  BY <1>1, <1>2, <1>3, <1>4, <1>5, <1>6, <1>7 DEF Next, outputs_Send

LEMMA InitBlocks ==
  ASSUME Init
  PROVE  BlocksInv
<1>1. \A o \in Outputs : queue[o] = << >>
  BY DEF Init
<1>2. \A b \in Blocks : refcount[b] = 0 /\ Holders(queue, b) = {}
  BY <1>1, NothingInEmpty DEF Init, Holders
<1> QED
  BY <1>1, <1>2, NothingInEmpty, HoldersType DEF BlocksInv, Counts

\* The blocks with references are those of the lines.
LEMMA HeldBlocks ==
  ASSUME NEW qs \in [Outputs -> Seq(Packets)], NEW count, Counts(qs, count), NEW b \in Blocks
  PROVE  count[b] # 0 <=> \E o \in Outputs : Has(Line(qs[o]), b)
<1>1. count[b] # 0 <=> Holders(qs, b) # {}
  BY HoldersType DEF Counts
<1>2. \A o \in Outputs : InChain(qs[o], b) <=> Has(Line(qs[o]), b)
  BY LineHas
<1> QED
  BY <1>1, <1>2 DEF Holders

LEMMA BlocksReclaimed ==
  ASSUME TypeOK', BlocksInv'
  PROVE  Lines!Reclaimed
<1>1. queue' \in [Outputs -> Seq(Packets)] /\ Counts(queue', refcount')
  BY DEF TypeOK, BlocksInv
<1>2. \A b \in Blocks : refcount'[b] # 0 <=> \E o \in Outputs : Has(Line(queue'[o]), b)
  BY <1>1, HeldBlocks
<1> QED
  BY <1>2 DEF Lines!Reclaimed, Lines!InLine, Has

-----------------------------------------------------------------------------
(* The refinement.                                                         *)

LEMMA InitLines ==
  ASSUME Init
  PROVE  Lines!Init
BY LineOfNothing DEF Init, Lines!Init

LEMMA LinesStep ==
  ASSUME TypeOK, BlocksInv, TypeOK', BlocksInv', [Next]_vars
  PROVE  [Lines!Next]_(Lines!vars)
<1> DEFINE line == [o \in Outputs |-> Line(queue[o])]
<1>0. Lines!Reclaimed
  BY BlocksReclaimed
<1>1. ASSUME NEW b \in Blocks, NEW outs \in SUBSET valid, NEW d \in Dates, NEW hasPcr \in BOOLEAN,
             Handle(b, outs, d, hasPcr)
      PROVE  Lines!Join(b, outs) /\ outs \in SUBSET Outputs
  <2>1. outs \in SUBSET Outputs
    BY DEF TypeOK
  <2>2. refcount[b] = 0
    BY <1>1 DEF Handle
  <2>3. \A o \in outs : Line(queue'[o]) = Append(Line(queue[o]), b)
    BY <1>1, HandleBlocks
  <2>4. \A o \in Outputs \ outs : queue'[o] = queue[o]
    BY <1>1 DEF Handle
  <2> QED
    BY <1>0, <2>1, <2>2, <2>3, <2>4 DEF Lines!Join
<1>2. CASE Flush
  <2>1. PICK n \in 1 .. Len(Line(queue[cursor])) :
          Line(queue'[cursor]) = SubSeq(Line(queue[cursor]), n + 1, Len(Line(queue[cursor])))
    BY <1>2, FlushBlocks
  <2>2. cursor \in Outputs
    BY <1>2, FlushBlocks
  <2>3. \A o \in Outputs \ {cursor} : queue'[o] = queue[o]
    BY <1>2 DEF Flush, TypeOK
  <2>4. Lines!Leave(cursor, n)
    BY <1>0, <2>1, <2>2, <2>3 DEF Lines!Leave
  <2>5. n \in 1 .. Len(line[cursor])
    BY <2>2
  <2> QED
    BY <2>2, <2>4, <2>5 DEF Lines!Next
<1>3. ASSUME NEW o \in Outputs, Close(o)
      PROVE  Lines!Drop(o)
  <2>1. queue'[o] = << >> /\ \A p \in Outputs \ {o} : queue'[p] = queue[p]
    BY <1>3 DEF Close, TypeOK
  <2> QED
    BY <1>0, <2>1, LineOfNothing DEF Lines!Drop
<1>4. CASE UNCHANGED <<queue, refcount>>
  BY <1>4 DEF Lines!vars
<1>5. TimerFires \/ NextOutput \/ SendAgain \/ SendDone \/ Tick => UNCHANGED <<queue, refcount>>
  BY DEF TimerFires, NextOutput, SendAgain, SendDone, Tick, blockVars
<1>6. \A o \in Outputs, l \in Latencies : Configure(o, l) => UNCHANGED <<queue, refcount>>
  BY DEF Configure, blockVars
<1>7. UNCHANGED vars => UNCHANGED <<queue, refcount>>
  BY DEF vars, blockVars
<1> QED
  BY <1>1, <1>2, <1>3, <1>4, <1>5, <1>6, <1>7 DEF Next, outputs_Send, Lines!Next

(***************************************************************************)
(* Packets and reference counts implement OutputLine, for any number of    *)
(* outputs and blocks: blocks leave an output in the order output_Put took *)
(* them, and a block is free exactly while no output has it.               *)
(***************************************************************************)
THEOREM LinesImplemented == Spec => ImplementsLines
<1>1. Init => TypeOK /\ BlocksInv /\ Lines!Init
  BY InitTypeOK, InitBlocks, InitLines
<1>2. TypeOK /\ BlocksInv /\ [Next]_vars => (TypeOK /\ BlocksInv)'
  BY TypeStep, BlocksStep
<1>3. TypeOK /\ BlocksInv /\ (TypeOK /\ BlocksInv)' /\ [Next]_vars => [Lines!Next]_(Lines!vars)
  BY LinesStep
<1>4. QED
  BY <1>1, <1>2, <1>3, PTL DEF Spec, ImplementsLines, Lines!Spec
=============================================================================
