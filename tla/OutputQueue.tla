---------------------------- MODULE OutputQueue -----------------------------
(***************************************************************************)
(* The sending side of cLdvboutput: every output gathers TS blocks into    *)
(* datagrams, and one timer, shared by all outputs, sends them when they   *)
(* have waited for the latency of their output.                            *)
(*                                                                         *)
(* Blocks are shared between outputs and counted.  The loop is prompt: a   *)
(* timer fires at its time.  Only writev() takes time inside a callback,   *)
(* so outputs_Send is cut at its calls of output_Flush, and cursor is the  *)
(* output its loop looks at (0 when it is not running).                    *)
(***************************************************************************)
EXTENDS Integers, Sequences, FiniteSets

CONSTANTS
  MaxOutputs,  \* number of outputs; the first one is output_dup
  Blocks,      \* TS blocks; their number bounds the model
  BlockCount,  \* output_BlockCount: blocks in a datagram
  Latencies,   \* values config.i_output_latency can have
  Retention,   \* config.i_max_retention
  Never,       \* INT64_MAX in i_next_send; a timer that is not started
  MaxNow,      \* no block arrives after this time; bounds the model
  MaxWrite     \* the longest time one writev() takes; bounds the model

Outputs == 1 .. MaxOutputs

ASSUME SizesAssumption ==
  /\ MaxOutputs \in Nat \ {0}
  /\ BlockCount \in Nat \ {0}
  /\ Latencies \subseteq Nat \ {0}
  /\ Latencies # {}
  /\ Retention \in Nat
  /\ Never \notin Int
  /\ MaxNow \in Nat
  /\ MaxWrite \in Nat

VARIABLES
  now,          \* mdate()
  i_wallclock,  \* cLdvboutput::i_wallclock
  i_next_send,  \* when the next datagram is due
  timer,        \* when output_watcher expires
  cursor,       \* the output outputs_Send looks at
  started,      \* the time of the loop when outputs_Send was called
  valid,        \* outputs with OUTPUT_VALID
  latency,      \* output -> config.i_output_latency
  queue,        \* output -> its packet_t chain, p_packets first
  dts,          \* block -> i_dts
  last_dts,     \* i_dts of the block that arrived last, -1 before the first one
  refcount      \* block -> i_refcount

clockVars == <<now, i_wallclock, started>>
blockVars == <<dts, last_dts, refcount>>
vars == <<clockVars, i_next_send, timer, cursor, valid, latency, queue, blockVars>>

Packets == [i_dts : Nat, blocks : Seq(Blocks)]

TypeOK ==
  /\ now \in Nat
  /\ i_wallclock \in Nat
  /\ started \in Nat
  /\ i_next_send \in Nat \cup {Never}
  /\ timer \in Int \cup {Never}
  /\ cursor \in 0 .. MaxOutputs
  /\ valid \in SUBSET Outputs
  /\ latency \in [Outputs -> Latencies]
  /\ queue \in [Outputs -> Seq(Packets)]
  /\ dts \in [Blocks -> Nat]
  /\ last_dts \in Nat \cup {-1}
  /\ refcount \in [Blocks -> Int]
  /\ last_dts <= now
  /\ i_wallclock <= now
  /\ started <= now
  /\ \A o \in Outputs \ valid : queue[o] = << >>

-----------------------------------------------------------------------------
Pending(o) == queue[o] # << >>

LastPacket(o) == queue[o][Len(queue[o])]

\* When the first datagram of an output is to be sent.
Due(o) == Head(queue[o]).i_dts + latency[o]

\* How many references the packets in chain q have on block b.
Held(q, b) ==
  Cardinality({at \in (1 .. Len(q)) \X (1 .. BlockCount) :
                 at[2] <= Len(q[at[1]].blocks) /\ q[at[1]].blocks[at[2]] = b})

\* The references on the blocks of chain q are released; a block without
\* references goes back to the pool, where its time stamp means nothing.
Release(q) ==
  /\ refcount' = [b \in Blocks |-> refcount[b] - Held(q, b)]
  /\ dts' = [b \in Blocks |-> IF refcount'[b] = 0 THEN 0 ELSE dts[b]]
  /\ UNCHANGED last_dts

\* When a timer set to t expires: ev_now() plus the delay cLev_timer_set gets.
\* Mutant: the delay is not relative to i_wallclock.
Expiry_Absolute(ev_now, t) == ev_now + t
Expiry(ev_now, t) == ev_now + t - i_wallclock

Sooner(t) == i_next_send = Never \/ i_next_send > t

-----------------------------------------------------------------------------
Init ==
  /\ now = 0 /\ i_wallclock = 0 /\ started = 0
  /\ i_next_send = Never /\ timer = Never
  /\ cursor = 0
  /\ valid = {}
  /\ latency \in [Outputs -> Latencies] /\ \A o, q \in Outputs : latency[o] = latency[q]
  /\ queue = [o \in Outputs |-> << >>]
  /\ dts = [b \in Blocks |-> 0] /\ last_dts = -1
  /\ refcount = [b \in Blocks |-> 0]

(***************************************************************************)
(* demux_Handle passes a block to output_Put for each output that wants    *)
(* it, as OutputPSISection does for the blocks of a table.  SetDTS dates   *)
(* the first block now, and a later one between the last block and now.    *)
(***************************************************************************)
Dates == IF last_dts = -1 THEN {now} ELSE last_dts .. now

Fits(o, d) ==
  /\ Pending(o)
  /\ Len(LastPacket(o).blocks) < BlockCount
  /\ LastPacket(o).i_dts + Retention > d

Filled(o, b, d, hasPcr) ==
  IF Fits(o, d)
  THEN [queue[o] EXCEPT ![Len(queue[o])] =
          [i_dts |-> IF hasPcr THEN d ELSE @.i_dts, blocks |-> Append(@.blocks, b)]]
  ELSE Append(queue[o], [i_dts |-> d, blocks |-> <<b>>])

\* The time output_Put compares with i_next_send.
PutDue(o, d, hasPcr) ==
  (IF Fits(o, d) /\ ~ hasPcr THEN LastPacket(o).i_dts ELSE d) + latency[o]

\* A reference for each output_Put; the one the reader held is dropped.
\* Mutant: it is not.
Referenced_ByReader(outs) == Cardinality(outs) + 1
Referenced(outs) == Cardinality(outs)

Handle(b, outs, d, hasPcr) ==
  /\ cursor = 0 /\ now <= MaxNow
  /\ refcount[b] = 0
  /\ d \in Dates
  /\ outs # {} /\ outs \subseteq valid
  /\ queue' = [o \in Outputs |-> IF o \in outs THEN Filled(o, b, d, hasPcr) ELSE queue[o]]
  /\ refcount' = [refcount EXCEPT ![b] = Referenced(outs)]
  /\ dts' = [dts EXCEPT ![b] = d]
  /\ last_dts' = d
  /\ \E soonest \in {PutDue(o, d, hasPcr) : o \in outs} :
       /\ \A o \in outs : soonest <= PutDue(o, d, hasPcr)
       /\ i_next_send' = IF Sooner(soonest) THEN soonest ELSE i_next_send
       /\ timer' = IF Sooner(soonest) THEN Expiry(now, soonest) ELSE timer
  /\ UNCHANGED <<clockVars, cursor, valid, latency>>

-----------------------------------------------------------------------------
(* outputs_Send.                                                           *)

TimerFires ==
  /\ cursor = 0
  /\ timer # Never /\ timer <= now
  /\ cursor' = 1
  /\ i_wallclock' = now
  /\ started' = now
  /\ i_next_send' = Never
  /\ timer' = Never
  /\ UNCHANGED <<now, valid, latency, queue, blockVars>>

IsDue(o) == o \in valid /\ Pending(o) /\ Due(o) <= i_wallclock

\* output_Flush: one datagram is written and its blocks are released.
Flush ==
  /\ cursor # 0 /\ IsDue(cursor)
  /\ now' \in now .. now + MaxWrite
  /\ i_wallclock' = now'
  /\ queue' = [queue EXCEPT ![cursor] = Tail(@)]
  /\ Release(<<Head(queue[cursor])>>)
  /\ UNCHANGED <<started, i_next_send, timer, cursor, valid, latency>>

\* What i_next_send becomes when the loop leaves the output.
\* Mutant: the last output decides.
Accounted_Last == IF Pending(cursor) THEN Due(cursor) ELSE i_next_send

Accounted ==
  IF Pending(cursor) /\ Sooner(Due(cursor)) THEN Due(cursor) ELSE i_next_send

NextOutput ==
  /\ cursor \notin {0, MaxOutputs} /\ ~ IsDue(cursor)
  /\ i_next_send' = Accounted
  /\ cursor' = cursor + 1
  /\ UNCHANGED <<clockVars, timer, valid, latency, queue, blockVars>>

\* While one output was written, another one may have become due.
Overdue == Accounted # Never /\ Accounted <= i_wallclock

SendAgain ==
  /\ cursor = MaxOutputs /\ ~ IsDue(cursor) /\ Overdue
  /\ i_next_send' = Never
  /\ cursor' = 1
  /\ UNCHANGED <<clockVars, timer, valid, latency, queue, blockVars>>

\* Mutant: the timer is not started again.
SendDone_NoTimer ==
  /\ cursor = MaxOutputs /\ ~ IsDue(cursor) /\ ~ Overdue
  /\ i_next_send' = Accounted
  /\ cursor' = 0
  /\ UNCHANGED <<clockVars, timer, valid, latency, queue, blockVars>>

SendDone ==
  /\ cursor = MaxOutputs /\ ~ IsDue(cursor) /\ ~ Overdue
  /\ i_next_send' = Accounted
  /\ timer' = IF Accounted = Never THEN Never ELSE Expiry(started, Accounted)
  /\ cursor' = 0
  /\ UNCHANGED <<clockVars, valid, latency, queue, blockVars>>

-----------------------------------------------------------------------------
(* A reload of the configuration file, and time.                           *)

\* output_Create and output_Change: a new output, or a new latency.
Configure(o, l) ==
  /\ cursor = 0
  /\ valid' = valid \cup {o}
  /\ latency' = [latency EXCEPT ![o] = l]
  /\ UNCHANGED <<clockVars, i_next_send, timer, cursor, queue, blockVars>>

\* output_Close: neither i_next_send nor the timer follows.
Close(o) ==
  /\ cursor = 0
  /\ o \in valid
  /\ valid' = valid \ {o}
  /\ queue' = [queue EXCEPT ![o] = << >>]
  /\ Release(queue[o])
  /\ UNCHANGED <<clockVars, i_next_send, timer, cursor, latency>>

\* Nothing is due; time only runs on while something can still happen.
Tick ==
  /\ cursor = 0
  /\ IF timer = Never THEN now < MaxNow ELSE now < timer
  /\ now' = now + 1
  /\ UNCHANGED <<i_wallclock, started, i_next_send, timer, cursor, valid, latency,
                 queue, blockVars>>

-----------------------------------------------------------------------------
outputs_Send == TimerFires \/ Flush \/ NextOutput \/ SendAgain \/ SendDone

Next ==
  \/ \E b \in Blocks, outs \in SUBSET valid, d \in Dates, hasPcr \in BOOLEAN :
       Handle(b, outs, d, hasPcr)
  \/ outputs_Send
  \/ \E o \in Outputs, l \in Latencies : Configure(o, l)
  \/ \E o \in Outputs : Close(o)
  \/ Tick

\* Time goes on whatever arrives, and the loop runs what is due.
Fairness == SF_vars(Tick) /\ WF_vars(outputs_Send)

Spec == Init /\ [][Next]_vars /\ Fairness

-----------------------------------------------------------------------------
(* Properties.                                                             *)

(***************************************************************************)
(* While a datagram waits, the timer runs: output_Put re-arms it only when *)
(* a datagram is due sooner than i_next_send, and an output that is closed *)
(* or changed leaves both alone, so each must stay in step with the other. *)
(***************************************************************************)
PendingIsArmed ==
  cursor = 0 =>
    /\ i_next_send = Never <=> timer = Never
    /\ \A o \in valid : Pending(o) => timer # Never

(***************************************************************************)
(* i_next_send never passes over a waiting datagram, though the PCR of a   *)
(* later block moves its date and a reload its latency: at worst it is due *)
(* one latency, the longest one configured, after its date.                *)
(***************************************************************************)
NextSendCovers ==
  cursor = 0 =>
    \A o \in valid : Pending(o) =>
      \E l \in Latencies : i_next_send <= Head(queue[o]).i_dts + l

(***************************************************************************)
(* i_wallclock is only read from the clock when something is sent, so the  *)
(* timer output_Put starts is late; but never by more than the time since  *)
(* then.                                                                   *)
(***************************************************************************)
LateOnlyByIdle ==
  cursor = 0 /\ timer # Never => timer <= i_next_send + (now - i_wallclock)

(***************************************************************************)
(* Each block a configured output has taken is sent or dropped with the    *)
(* output: the timer always comes, and outputs_Send comes to an end even   *)
(* when outputs become due while it writes.                                *)
(***************************************************************************)
Waits(o, b) == Held(queue[o], b) > 0

EverySent == \A o \in Outputs, b \in Blocks : Waits(o, b) ~> ~ Waits(o, b)

-----------------------------------------------------------------------------
(***************************************************************************)
(* Packets and reference counts implement the lines of OutputLine: blocks  *)
(* leave each output in the order they came, and i_refcount frees a block  *)
(* exactly when the last output has sent or dropped it.                    *)
(***************************************************************************)
Line(q) ==
  LET line[n \in 0 .. Len(q)] == IF n = 0 THEN << >> ELSE line[n - 1] \o q[n].blocks
  IN  line[Len(q)]

Lines == INSTANCE OutputLine WITH
           line <- [o \in Outputs |-> Line(queue[o])],
           held <- {b \in Blocks : refcount[b] # 0}

ImplementsLines == Lines!Spec

=============================================================================
