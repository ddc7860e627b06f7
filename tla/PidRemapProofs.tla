--------------------------- MODULE PidRemapProofs ----------------------------
(***************************************************************************)
(* A block that outputs share stays as it came, for any outputs, maps and  *)
(* numbers of blocks.  A queue holds a block once at most, so an output    *)
(* that sends the block gives up its one reference with its one place.     *)
(* What the maps make of the PIDs does not matter there: output_Flush puts *)
(* the PID back before another output looks at the block.                  *)
(*                                                                         *)
(* The maps themselves are the work of a loop over the ESs of a PMT: after *)
(* k of them k PIDs are taken at most, so the next one finds a free PID.   *)
(***************************************************************************)
EXTENDS PidRemap, FiniteSetTheorems, SequenceTheorems, WellFoundedInduction,
        NaturalsInduction, TLAPS

Blocks == [pid : Pids, tmp_pid : Pids \cup {Unused}, i_refcount : Nat, origin : Pids]

\* The outputs that hold block b in the queues q.
Holders(q, b) == {o \in Slots : \E i \in DOMAIN q[o] : q[o][i] = b}

TypeBlocks ==
  /\ block \in [BlockIds -> Blocks \cup {None}]
  /\ queue \in [Slots -> Seq(BlockIds)]

HeldOnce ==
  \A o \in Slots : \A i, j \in DOMAIN queue[o] : queue[o][i] = queue[o][j] => i = j

Counted ==
  \A b \in BlockIds :
    IF block[b] = None THEN Holders(queue, b) = {}
    ELSE block[b].pid = block[b].origin /\ block[b].i_refcount = Cardinality(Holders(queue, b))

Inv == TypeBlocks /\ HeldOnce /\ Counted

LEMMA InitInv == Init => Inv
<1> SUFFICES ASSUME Init PROVE Inv OBVIOUS
<1>1. TypeBlocks BY DEF Init, TypeBlocks
<1>2. \A o \in Slots : DOMAIN queue[o] = {} BY DEF Init
<1>3. \A b \in BlockIds : Holders(queue, b) = {} BY <1>2 DEF Holders
<1> QED BY <1>1, <1>2, <1>3 DEF Inv, HeldOnce, Counted, Init

\* Sets of outputs can be counted.
LEMMA SomeSlots ==
  ASSUME NEW S, S \subseteq Slots
  PROVE  IsFiniteSet(S) /\ Cardinality(S) \in Nat
BY PidsAssumption, FS_Subset, FS_CardinalityType

-----------------------------------------------------------------------------
(* A packet that comes.                                                    *)

LEMMA HandleInv ==
  ASSUME Inv, NEW p \in Carried, NEW S \in SUBSET Slots, demux_Handle(p, S)
  PROVE  Inv'
<1>0. p \in Pids
  <2>1. PICK m \in Pmts : p \in {m.pcr} \cup {m.es[i].pid : i \in DOMAIN m.es}
    BY DEF Carried
  <2>2. m \in [es : Seq(Streams), pcr : Pids] BY PmtsAssumption
  <2>3. m.pcr \in Pids /\ m.es \in Seq(Streams) BY <2>2
  <2>4. \A i \in DOMAIN m.es : m.es[i] \in Streams BY <2>3
  <2> QED BY <2>1, <2>3, <2>4 DEF Streams
<1> DEFINE fresh == [pid |-> p, tmp_pid |-> Unused, i_refcount |-> Cardinality(S), origin |-> p]
<1>1. PICK b \in BlockIds :
        /\ block[b] = None
        /\ block' = [block EXCEPT ![b] = fresh]
        /\ queue' = [o \in Slots |-> IF o \in S THEN Append(queue[o], b) ELSE queue[o]]
  BY DEF demux_Handle
<1>2. fresh \in Blocks BY <1>0, SomeSlots DEF Blocks
<1>3. fresh # None BY <1>2, PidsAssumption DEF Blocks
<1>4. fresh.pid = p /\ fresh.origin = p /\ fresh.i_refcount = Cardinality(S) OBVIOUS
<1> HIDE DEF fresh
<1>5. TypeBlocks' BY <1>1, <1>2 DEF Inv, TypeBlocks
<1>6. \A o \in Slots : b \notin {queue[o][i] : i \in DOMAIN queue[o]}
  BY <1>1 DEF Inv, Counted, Holders
\* The places of a queue after the packet came.
<1>7. \A o \in Slots :
         /\ queue[o] \in Seq(BlockIds)
         /\ queue'[o] = IF o \in S THEN Append(queue[o], b) ELSE queue[o]
  BY <1>1 DEF Inv, TypeBlocks
<1>8. \A o \in S :
         /\ DOMAIN queue'[o] = 1 .. Len(queue[o]) + 1
         /\ DOMAIN queue[o] = 1 .. Len(queue[o]) /\ Len(queue[o]) \in Nat
         /\ queue'[o][Len(queue[o]) + 1] = b
         /\ \A i \in DOMAIN queue[o] : queue'[o][i] = queue[o][i]
  <2> SUFFICES ASSUME NEW o \in S
               PROVE  /\ DOMAIN queue'[o] = 1 .. Len(queue[o]) + 1
                      /\ DOMAIN queue[o] = 1 .. Len(queue[o]) /\ Len(queue[o]) \in Nat
                      /\ queue'[o][Len(queue[o]) + 1] = b
                      /\ \A i \in DOMAIN queue[o] : queue'[o][i] = queue[o][i]
    OBVIOUS
  <2> DEFINE q == queue[o]
             r == Append(q, b)
  <2>1. q \in Seq(BlockIds) /\ queue'[o] = r BY <1>7
  <2> HIDE DEF q
  <2>2. r \in Seq(BlockIds) /\ Len(r) = Len(q) + 1 /\ Len(q) \in Nat BY <2>1
  <2>3. r[Len(q) + 1] = b /\ \A i \in 1 .. Len(q) : r[i] = q[i] BY <2>1
  <2>4. DOMAIN q = 1 .. Len(q) BY <2>1
  <2> HIDE DEF r
  <2>5. DOMAIN r = 1 .. Len(r) BY <2>2
  <2> QED BY <2>1, <2>2, <2>3, <2>4, <2>5 DEF q
<1>9. HeldOnce'
  <2> SUFFICES ASSUME NEW o \in Slots, NEW i \in DOMAIN queue'[o], NEW j \in DOMAIN queue'[o],
                      queue'[o][i] = queue'[o][j]
               PROVE  i = j
    BY DEF HeldOnce
  <2>1. CASE o \notin S BY <1>7, <2>1 DEF Inv, HeldOnce
  <2>2. CASE o \in S
    <3> DEFINE l == Len(queue[o])
    <3>1. /\ i \in 1 .. l + 1 /\ j \in 1 .. l + 1 /\ l \in Nat
          /\ DOMAIN queue[o] = 1 .. l /\ queue'[o][l + 1] = b
          /\ \A k \in 1 .. l : queue'[o][k] = queue[o][k] /\ queue[o][k] # b
      BY <1>6, <1>8, <2>2
    <3> HIDE DEF l
    <3>2. CASE i \in 1 .. l /\ j \in 1 .. l BY <3>1, <3>2 DEF Inv, HeldOnce
    <3>3. CASE i \notin 1 .. l \/ j \notin 1 .. l BY <3>1, <3>3
    <3> QED BY <3>2, <3>3
  <2> QED BY <2>1, <2>2
<1>10. Holders(queue', b) = S
  <2>1. \A o \in Slots : o \notin S => ~ \E i \in DOMAIN queue'[o] : queue'[o][i] = b
    BY <1>6, <1>7
  <2>2. \A o \in S : Len(queue[o]) + 1 \in DOMAIN queue'[o] BY <1>8
  <2>3. \A o \in S : \E i \in DOMAIN queue'[o] : queue'[o][i] = b BY <1>8, <2>2
  <2> QED BY <2>1, <2>3 DEF Holders
<1>11. \A c \in BlockIds : c # b => Holders(queue', c) = Holders(queue, c)
  <2> SUFFICES ASSUME NEW c \in BlockIds, c # b, NEW o \in Slots
               PROVE  (\E i \in DOMAIN queue'[o] : queue'[o][i] = c)
                        <=> (\E i \in DOMAIN queue[o] : queue[o][i] = c)
    BY DEF Holders
  <2>1. CASE o \notin S BY <1>7, <2>1
  <2>2. CASE o \in S
    <3> DEFINE l == Len(queue[o])
    <3>1. /\ l \in Nat /\ DOMAIN queue'[o] = 1 .. l + 1 /\ DOMAIN queue[o] = 1 .. l
          /\ queue'[o][l + 1] = b
          /\ \A k \in 1 .. l : queue'[o][k] = queue[o][k]
      BY <1>8, <2>2
    <3> HIDE DEF l
    <3>2. \A k \in 1 .. l + 1 : k \in 1 .. l \/ k = l + 1 BY <3>1
    <3>3. \A k \in 1 .. l : k \in 1 .. l + 1 BY <3>1
    <3> QED BY <3>1, <3>2, <3>3
  <2> QED BY <2>1, <2>2
<1>12. Counted'
  <2> SUFFICES ASSUME NEW c \in BlockIds
               PROVE  IF block'[c] = None THEN Holders(queue', c) = {}
                      ELSE /\ block'[c].pid = block'[c].origin
                           /\ block'[c].i_refcount = Cardinality(Holders(queue', c))
    BY DEF Counted
  <2>1. CASE c = b
    <3>1. block'[c] = fresh BY <1>1, <2>1 DEF Inv, TypeBlocks
    <3> QED BY <1>3, <1>4, <1>10, <2>1, <3>1
  <2>2. CASE c # b
    <3>1. block'[c] = block[c] BY <1>1, <2>2 DEF Inv, TypeBlocks
    <3> QED BY <1>11, <2>2, <3>1 DEF Inv, Counted
  <2> QED BY <2>1, <2>2
<1> QED BY <1>5, <1>9, <1>12 DEF Inv

-----------------------------------------------------------------------------
(* A datagram that goes.                                                   *)

\* What an output leaves of a block that others hold.
LEMMA ReleasedKeeps ==
  ASSUME NEW o \in Slots, NEW x \in Blocks, x.i_refcount > 1
  PROVE  LET y == Released(o, x)
         IN  /\ y \in Blocks
             /\ y.pid = x.pid /\ y.origin = x.origin /\ y.i_refcount = x.i_refcount - 1
<1> DEFINE r == Restored(o, Rewritten(o, x))
           n == x.i_refcount - 1
<1>0. /\ x.pid \in Pids /\ x.tmp_pid \in Pids \cup {Unused} /\ x.i_refcount \in Nat
      /\ Unused \notin Pids
  BY DEF Blocks, Pids, Unused
<1>1. /\ r \in Blocks
      /\ r.pid = x.pid /\ r.origin = x.origin /\ r.i_refcount = x.i_refcount
  <2>1. CASE ~ Remaps(conf[o])
    <3>1. r = x BY <2>1 DEF Rewritten, Restored
    <3> QED BY <3>1
  <2>2. CASE Remaps(conf[o]) /\ newpids[o][x.pid] = Unused
    <3> DEFINE w == [x EXCEPT !.tmp_pid = Unused]
    <3>1. Rewritten(o, x) = w BY <2>2 DEF Rewritten
    <3>2. w \in Blocks /\ w.tmp_pid = Unused /\ w.pid = x.pid /\ w.origin = x.origin
          /\ w.i_refcount = x.i_refcount
      BY DEF Blocks
    <3> HIDE DEF w
    <3>3. r = w BY <3>1, <3>2 DEF Restored
    <3> QED BY <3>2, <3>3
  <2>3. CASE Remaps(conf[o]) /\ newpids[o][x.pid] # Unused
    <3> DEFINE to == newpids[o][x.pid]
               from == x.pid
               w == [x EXCEPT !.pid = to, !.tmp_pid = from]
    <3>1. Rewritten(o, x) = w BY <2>3 DEF Rewritten
    <3>2. from \in Pids /\ from # Unused /\ from = x.pid BY <1>0
    <3> HIDE DEF to, from
    <3>3. w \in [pid : {to}, tmp_pid : Pids, i_refcount : Nat, origin : Pids]
      BY <3>2 DEF Blocks
    <3>4. w.tmp_pid = from /\ w.origin = x.origin /\ w.i_refcount = x.i_refcount
      BY DEF Blocks
    <3> HIDE DEF w
    <3>5. r = [w EXCEPT !.pid = from] BY <2>3, <3>1, <3>2, <3>4 DEF Restored
    <3> DEFINE v == [w EXCEPT !.pid = from]
    <3>6. /\ v \in Blocks
          /\ v.pid = from /\ v.origin = w.origin /\ v.i_refcount = w.i_refcount
      BY <3>2, <3>3 DEF Blocks
    <3> QED BY <3>2, <3>4, <3>5, <3>6
  <2> QED BY <2>1, <2>2, <2>3
<1> HIDE DEF r
<1>2. n \in Nat BY <1>0
<1>3. Released(o, x) = [r EXCEPT !.i_refcount = n]
  BY <1>0, <1>1 DEF Released, r
<1> HIDE DEF n
<1>4. /\ [r EXCEPT !.i_refcount = n] \in Blocks
      /\ [r EXCEPT !.i_refcount = n].pid = r.pid
      /\ [r EXCEPT !.i_refcount = n].origin = r.origin
      /\ [r EXCEPT !.i_refcount = n].i_refcount = n
  BY <1>1, <1>2 DEF Blocks
<1> QED BY <1>1, <1>3, <1>4 DEF n

LEMMA FlushInv ==
  ASSUME Inv, NEW o \in Slots, NEW n \in 1 .. Len(queue[o]), output_Flush(o, n)
  PROVE  Inv'
<1> DEFINE q == queue[o]
           sent == {q[i] : i \in 1 .. n}
           rest == SubSeq(q, n + 1, Len(q))
<1>0. /\ queue' = [queue EXCEPT ![o] = rest]
      /\ block' = [b \in BlockIds |-> IF b \in sent THEN Released(o, block[b]) ELSE block[b]]
  BY DEF output_Flush
<1>1. /\ q \in Seq(BlockIds) /\ Len(q) \in Nat /\ DOMAIN q = 1 .. Len(q)
      /\ n \in Nat /\ n >= 1 /\ n <= Len(q)
      /\ \A i \in DOMAIN q : q[i] \in BlockIds
  BY DEF Inv, TypeBlocks
<1>2. \A i, j \in DOMAIN q : q[i] = q[j] => i = j BY DEF Inv, HeldOnce
<1>3. /\ rest \in Seq(BlockIds)
      /\ DOMAIN rest = 1 .. Len(q) - n
      /\ \A i \in 1 .. Len(q) - n : rest[i] = q[i + n] /\ i + n \in DOMAIN q
  <2> HIDE DEF q
  <2>1. rest \in Seq(BlockIds) /\ Len(rest) = Len(q) - n
    <3>1. \A i \in n + 1 .. Len(q) : q[i] \in BlockIds BY <1>1
    <3>2. n + 1 \in Int /\ Len(q) \in Int BY <1>1
    <3>3. /\ rest \in Seq(BlockIds)
          /\ Len(rest) = IF n + 1 <= Len(q) THEN Len(q) - (n + 1) + 1 ELSE 0
      BY <3>1, <3>2, SubSeqProperties
    <3> DEFINE l == Len(q)
               r == Len(rest)
    <3>4. /\ l \in Nat /\ n \in Nat /\ n <= l
          /\ r = IF n + 1 <= l THEN l - (n + 1) + 1 ELSE 0
      BY <1>1, <3>3
    <3> HIDE DEF l, r
    <3>5. r = l - n BY <3>4
    <3> USE DEF l, r
    <3> HIDE DEF rest
    <3>6. Len(rest) = Len(q) - n BY <3>5
    <3> QED BY <3>3, <3>6
  <2>2. \A i \in 1 .. Len(q) - n : rest[i] = q[i + n]
    <3>1. \A i \in n + 1 .. Len(q) : q[i] \in BlockIds BY <1>1
    <3>2. n + 1 \in Int /\ Len(q) \in Int BY <1>1
    <3>3. \A i \in 1 .. Len(q) - (n + 1) + 1 : rest[i] = q[(n + 1) + i - 1]
      BY <3>1, <3>2, SubSeqProperties
    <3> HIDE DEF rest
    <3>4. Len(q) - (n + 1) + 1 = Len(q) - n BY <1>1
    <3>5. \A i \in 1 .. Len(q) - n : (n + 1) + i - 1 = i + n BY <1>1
    <3> QED BY <3>3, <3>4, <3>5
  <2>3. \A i \in 1 .. Len(q) - n : i + n \in DOMAIN q BY <1>1
  <2> HIDE DEF rest
  <2>4. DOMAIN rest = 1 .. Len(rest) BY <2>1
  <2> QED BY <2>1, <2>2, <2>3, <2>4
<1> HIDE DEF rest
<1>4. \A s \in Slots : queue'[s] = IF s = o THEN rest ELSE queue[s]
  BY <1>0 DEF Inv, TypeBlocks
<1>5. HeldOnce'
  <2> SUFFICES ASSUME NEW s \in Slots, NEW i \in DOMAIN queue'[s], NEW j \in DOMAIN queue'[s],
                      queue'[s][i] = queue'[s][j]
               PROVE  i = j
    BY DEF HeldOnce
  <2>1. CASE s # o BY <1>4, <2>1 DEF Inv, HeldOnce
  <2>2. CASE s = o
    <3>1. /\ i \in 1 .. Len(q) - n /\ j \in 1 .. Len(q) - n /\ rest[i] = rest[j]
      BY <1>3, <1>4, <2>2
    <3>2. i + n = j + n BY <1>2, <1>3, <3>1
    <3> QED BY <1>1, <3>1, <3>2
  <2> QED BY <2>1, <2>2
\* A block that is sent leaves the queue, another one stays.
<1>6. \A b \in sent : b \in BlockIds /\ o \in Holders(queue, b)
  BY <1>1 DEF Holders
<1>7. \A b \in sent : Holders(queue', b) = Holders(queue, b) \ {o}
  <2> SUFFICES ASSUME NEW b \in sent PROVE Holders(queue', b) = Holders(queue, b) \ {o}
    OBVIOUS
  <2>1. ~ \E i \in DOMAIN rest : rest[i] = b
    <3> SUFFICES ASSUME NEW i \in DOMAIN rest, rest[i] = b PROVE FALSE OBVIOUS
    <3>1. PICK j \in 1 .. n : b = q[j] OBVIOUS
    <3>2. j \in DOMAIN q BY <1>1
    <3>3. i \in 1 .. Len(q) - n /\ rest[i] = q[i + n] BY <1>3
    <3>4. i + n \in DOMAIN q BY <1>1, <3>3
    <3>5. q[i + n] = q[j] BY <3>1, <3>3
    <3>6. i + n = j BY <1>2, <3>2, <3>4, <3>5
    <3> QED BY <1>1, <3>3, <3>6
  <2> QED BY <1>4, <2>1 DEF Holders
<1>8. \A b \in BlockIds : b \notin sent => Holders(queue', b) = Holders(queue, b)
  <2> SUFFICES ASSUME NEW b \in BlockIds, b \notin sent
               PROVE  (\E i \in DOMAIN rest : rest[i] = b) <=> (\E i \in DOMAIN q : q[i] = b)
    BY <1>4 DEF Holders
  <2>1. ASSUME NEW i \in DOMAIN q, q[i] = b PROVE \E j \in DOMAIN rest : rest[j] = b
    <3>1. i \notin 1 .. n BY <2>1
    <3>2. i - n \in 1 .. Len(q) - n /\ (i - n) + n = i BY <1>1, <2>1, <3>1
    <3>3. i - n \in DOMAIN rest BY <1>3, <3>2
    <3>4. rest[i - n] = q[(i - n) + n] BY <1>3, <3>2
    <3>5. rest[i - n] = b BY <2>1, <3>2, <3>4
    <3> QED BY <3>3, <3>5
  <2>2. ASSUME NEW i \in DOMAIN rest, rest[i] = b PROVE \E j \in DOMAIN q : q[j] = b
    BY <1>3, <2>2
  <2> QED BY <2>1, <2>2
<1>9. \A b \in sent :
         /\ block[b] \in Blocks /\ block[b].pid = block[b].origin
         /\ block[b].i_refcount = Cardinality(Holders(queue, b))
         /\ block[b].i_refcount \in Nat /\ block[b].i_refcount # 0
         /\ block[b].i_refcount - 1 = Cardinality(Holders(queue, b) \ {o})
  <2> SUFFICES ASSUME NEW b \in sent
               PROVE  /\ block[b] \in Blocks /\ block[b].pid = block[b].origin
                      /\ block[b].i_refcount = Cardinality(Holders(queue, b))
                      /\ block[b].i_refcount \in Nat /\ block[b].i_refcount # 0
                      /\ block[b].i_refcount - 1 = Cardinality(Holders(queue, b) \ {o})
    OBVIOUS
  <2> DEFINE H == Holders(queue, b)
  <2>1. b \in BlockIds /\ o \in H BY <1>6
  <2>2. block[b] # None BY <2>1 DEF Inv, Counted
  <2>3. block[b] \in Blocks BY <2>1, <2>2 DEF Inv, TypeBlocks
  <2>4. block[b].pid = block[b].origin /\ block[b].i_refcount = Cardinality(H)
    BY <2>1, <2>2 DEF Inv, Counted
  <2>5. IsFiniteSet(H) /\ Cardinality(H) \in Nat BY SomeSlots DEF Holders
  <2> HIDE DEF H
  <2>6. Cardinality(H \ {o}) = Cardinality(H) - 1 BY <2>1, <2>5, FS_RemoveElement
  <2>7. Cardinality(H) # 0 BY <2>1, <2>5, FS_EmptySet
  <2> QED BY <2>3, <2>4, <2>5, <2>6, <2>7 DEF H
<1> HIDE DEF sent, q
\* What is left of a block that is sent.
<1>10. \A b \in sent :
          IF block[b].i_refcount = 1
          THEN block'[b] = None /\ Holders(queue', b) = {}
          ELSE /\ block'[b] \in Blocks /\ block'[b].pid = block'[b].origin
               /\ block'[b].i_refcount = Cardinality(Holders(queue', b))
  <2> SUFFICES ASSUME NEW b \in sent
               PROVE  IF block[b].i_refcount = 1
                      THEN block'[b] = None /\ Holders(queue', b) = {}
                      ELSE /\ block'[b] \in Blocks /\ block'[b].pid = block'[b].origin
                           /\ block'[b].i_refcount = Cardinality(Holders(queue', b))
    OBVIOUS
  <2>1. block'[b] = Released(o, block[b]) BY <1>0, <1>6
  <2>2. CASE block[b].i_refcount = 1
    <3>1. block'[b] = None BY <2>1, <2>2 DEF Released
    <3>2. Cardinality(Holders(queue', b)) = 0 BY <1>7, <1>9, <2>2
    <3>3. IsFiniteSet(Holders(queue', b)) BY SomeSlots DEF Holders
    <3>4. Holders(queue', b) = {} BY <3>2, <3>3, FS_EmptySet
    <3> QED BY <2>2, <3>1, <3>4
  <2>3. CASE block[b].i_refcount # 1
    <3>1. block[b] \in Blocks /\ block[b].i_refcount > 1
      <4> DEFINE c == block[b].i_refcount
      <4>1. block[b] \in Blocks /\ c \in Nat /\ c # 0 /\ c # 1 BY <1>9, <2>3
      <4> HIDE DEF c
      <4>2. c > 1 BY <4>1
      <4> QED BY <4>1, <4>2 DEF c
    <3>2. /\ block'[b] \in Blocks /\ block'[b].pid = block[b].pid
          /\ block'[b].origin = block[b].origin
          /\ block'[b].i_refcount = block[b].i_refcount - 1
      BY <2>1, <3>1, ReleasedKeeps
    <3> QED BY <1>7, <1>9, <2>3, <3>2
  <2> QED BY <2>2, <2>3
<1>11. TypeBlocks'
  <2>1. queue' \in [Slots -> Seq(BlockIds)] BY <1>0, <1>3 DEF Inv, TypeBlocks
  <2>2. \A b \in BlockIds : block'[b] \in Blocks \cup {None}
    BY <1>0, <1>10 DEF Inv, TypeBlocks
  <2>3. block' \in [BlockIds -> Blocks \cup {None}] BY <1>0, <2>2
  <2> QED BY <2>1, <2>3 DEF TypeBlocks
<1>12. Counted'
  <2> SUFFICES ASSUME NEW b \in BlockIds
               PROVE  IF block'[b] = None THEN Holders(queue', b) = {}
                      ELSE /\ block'[b].pid = block'[b].origin
                           /\ block'[b].i_refcount = Cardinality(Holders(queue', b))
    BY DEF Counted
  <2>1. CASE b \in sent
    <3>1. block'[b] \in Blocks => block'[b] # None BY PidsAssumption DEF Blocks
    <3> QED BY <1>10, <2>1, <3>1
  <2>2. CASE b \notin sent
    <3>1. block'[b] = block[b] BY <1>0, <2>2
    <3> QED BY <1>8, <2>2, <3>1 DEF Inv, Counted
  <2> QED BY <2>1, <2>2
<1> QED BY <1>5, <1>11, <1>12 DEF Inv

-----------------------------------------------------------------------------
(* The theorem.                                                            *)

LEMMA NextInv == Inv /\ [Next]_vars => Inv'
<1> SUFFICES ASSUME Inv, [Next]_vars PROVE Inv' OBVIOUS
<1>1. CASE UNCHANGED <<block, queue>>
  <2>1. TypeBlocks' /\ HeldOnce' BY <1>1 DEF Inv, TypeBlocks, HeldOnce
  <2>2. block' = block /\ queue' = queue BY <1>1
  <2>3. Counted' BY <2>2 DEF Inv, Counted
  <2> QED BY <2>1, <2>3 DEF Inv
<1>2. CASE \E p \in Pmts \cup {None} : HandlePMT(p) BY <1>1, <1>2 DEF HandlePMT
<1>3. CASE \E o \in Slots, l \in Lines : demux_Change(o, l) BY <1>1, <1>3 DEF demux_Change
<1>4. CASE \E p \in Carried, S \in SUBSET Slots : demux_Handle(p, S) BY <1>4, HandleInv
<1>5. CASE \E o \in Slots : \E n \in 1 .. Len(queue[o]) : output_Flush(o, n)
  BY <1>5, FlushInv
<1>6. CASE UNCHANGED vars BY <1>1, <1>6 DEF vars
<1> QED BY <1>2, <1>3, <1>4, <1>5, <1>6 DEF Next

\* A block that waits has the PID it came with, and a reference for each queue
\* that holds it, in whatever order output_Flush sends it for the outputs that
\* share it and whatever their maps become in the meantime.
THEOREM SharedIntact == Spec => []SharedIsIntact
<1>1. Inv => SharedIsIntact
  <2>1. \A b \in BlockIds : {o \in Slots : b \in Range(queue[o])} = Holders(queue, b)
    BY DEF Range, Holders
  <2> QED BY <2>1 DEF Inv, Counted, SharedIsIntact
<1> QED BY <1>1, InitInv, NextInv, PTL DEF Spec

-----------------------------------------------------------------------------
(* Counting up to n, and the first member of a set.                        *)

LEMMA FirstMember ==
  ASSUME NEW S \in SUBSET Nat, S # {}
  PROVE  Min(S) \in S /\ \A m \in S : Min(S) <= m
<1> DEFINE less == OpToRel(<, Nat)
<1>1. IsWellFoundedOn(less, Nat) BY NatLessThanWellFounded
<1>2. \A m, n \in Nat : m < n => <<m, n>> \in less BY DEF OpToRel
<1> HIDE DEF less
<1>3. PICK n \in S : \A m \in S : ~ (<<m, n>> \in less) BY <1>1, WFMin
<1>4. \A m \in S : ~ (m < n) BY <1>2, <1>3
<1>5. \A m \in S : n <= m BY <1>4
<1> QED BY <1>5 DEF Min

LEMMA CountUp ==
  ASSUME NEW n \in Nat, NEW S, 0 \in S, \A k \in 1 .. n : k - 1 \in S => k \in S
  PROVE  \A k \in 0 .. n : k \in S
<1> DEFINE out == (0 .. n) \ S
<1> SUFFICES ASSUME out # {} PROVE FALSE OBVIOUS
<1>1. out \in SUBSET Nat OBVIOUS
<1> DEFINE k == Min(out)
<1>2. k \in out /\ \A m \in out : k <= m
  <2> HIDE DEF out
  <2> QED BY <1>1, FirstMember
<1> HIDE DEF k
<1>3. k \in 1 .. n BY <1>2
<1>4. k - 1 \in 0 .. n /\ ~ (k <= k - 1) BY <1>3
<1>5. k - 1 \in S BY <1>2, <1>4
<1> QED BY <1>2, <1>3, <1>5

-----------------------------------------------------------------------------
(* The maps.                                                               *)

Maps == [free : [Pids -> Pids \cup {Unused}], new : [Pids -> Pids \cup {Unused}],
         es : SUBSET Announcements]

\* The maps m of configuration c after ESs with the PIDs T.
Sound(c, m, T) ==
  /\ m \in Maps
  /\ ~ Remaps(c) => m.new = Unmapped
  /\ \A a \in m.es : a.from \in T /\ a.to = Leaves(m.new, a.from)
  /\ \A p \in Pids : m.new[p] # Unused => p \in T /\ m.free[m.new[p]] = p

Taken(m) == {p \in Pids : m.free[p] # Unused}

LEMMA PidsType == /\ Pids = 1 .. MaxPid /\ Pids \in SUBSET Nat /\ Unused \notin Pids
                  /\ MaxPid \in Nat /\ Unused = 0
BY PidsAssumption DEF Pids, Unused

LEMMA TakenType ==
  ASSUME NEW m
  PROVE  IsFiniteSet(Taken(m)) /\ Cardinality(Taken(m)) \in Nat
<1>1. IsFiniteSet(Pids) BY FS_Interval, PidsType
<1>2. Taken(m) \subseteq Pids BY DEF Taken
<1> QED BY <1>1, <1>2, FS_Subset, FS_CardinalityType

\* Fewer than k ESs took a PID, and there are k of them from the wanted one on.
LEMMA FreeIsFound ==
  ASSUME NEW m \in Maps, NEW k \in Nat, NEW base \in Pids,
         Cardinality(Taken(m)) < k, base + k <= MaxPid + 1
  PROVE  NextFree(m.free, base) \in Pids /\ m.free[NextFree(m.free, base)] = Unused
<1> DEFINE S == {p \in Pids : p >= base /\ m.free[p] = Unused}
<1>0. base \in Nat /\ MaxPid \in Nat BY PidsType
<1>1. S # {}
  <2> SUFFICES ASSUME S = {} PROVE FALSE OBVIOUS
  <2>1. base .. MaxPid \subseteq Taken(m) BY <1>0, PidsType DEF Taken
  <2>3. IsFiniteSet(Taken(m)) /\ Cardinality(Taken(m)) \in Nat BY TakenType
  <2>4. Cardinality(base .. MaxPid) <= Cardinality(Taken(m)) BY <2>1, <2>3, FS_Subset
  <2>5. base <= MaxPid BY PidsType
  <2>6. Cardinality(base .. MaxPid) = MaxPid - base + 1 BY <1>0, <2>5, FS_Interval
  <2> QED BY <1>0, <2>3, <2>4, <2>6
<1>2. S \in SUBSET Nat BY PidsType
<1> HIDE DEF S
<1>3. Min(S) \in S BY <1>1, <1>2, FirstMember
<1> QED BY <1>3 DEF NextFree, S

LEMMA BaseType ==
  ASSUME NEW l \in Lines, NEW e \in Streams
  PROVE  Base(Parsed(l), e) \in Pids \cup {0}
<1>1. e.pid \in Pids /\ e.kind \in Kinds \cup {"other"} BY DEF Streams
<1>2. GlobalMap \in [Kinds -> Pids \cup {0}] BY LinesAssumption DEF Bases
<1>3. \A k \in Kinds : Parsed(l).confpids[k] \in Pids \cup {0}
  <2>1. l.pidmap \in Seq(Pids) BY LinesAssumption
  <2>2. l.pidmap # <<>> => l.pidmap[1] \in Pids BY <2>1
  <2> QED BY <2>2 DEF Parsed, Unused
<1> QED BY <1>1, <1>2, <1>3 DEF Base

\* One ES more.
LEMMA OneMore ==
  ASSUME NEW l \in Lines, NEW m, NEW T, Sound(Parsed(l), m, T),
         NEW e \in Streams, e.pid \notin T,
         NEW k \in Nat, Cardinality(Taken(m)) < k, Base(Parsed(l), e) + k <= MaxPid + 1
  PROVE  LET n == map_es_pid(Parsed(l), m, e)
         IN  Sound(Parsed(l), n, T \cup {e.pid}) /\ Cardinality(Taken(n)) <= k
<1> DEFINE c == Parsed(l)
           to == NextFree(m.free, Base(c, e))
           n == map_es_pid(c, m, e)
           ep == e.pid
<1>0. /\ m \in Maps /\ ep \in Pids /\ ep # Unused /\ ep \notin T
      /\ Cardinality(Taken(m)) \in Nat
      /\ IsFiniteSet(Taken(m))
  <2>1. m \in Maps /\ ep \in Pids BY DEF Sound, Streams
  <2> QED BY <2>1, TakenType, PidsType
<1>1. m.new[ep] = Unused BY <1>0 DEF Sound
<1>2. CASE ~ Remaps(c) \/ Base(c, e) = 0
  <2> DEFINE a == [from |-> ep, to |-> ep]
             es == m.es \cup {a}
  <2>1. n = [m EXCEPT !.es = es] BY <1>2 DEF map_es_pid
  <2>2. a \in Announcements /\ a.from = ep /\ a.to = Leaves(m.new, ep)
    BY <1>0, <1>1 DEF Announcements, Leaves
  <2> HIDE DEF a, n
  <2>3. n \in Maps /\ n.free = m.free /\ n.new = m.new /\ n.es = es
    BY <1>0, <2>1, <2>2 DEF Maps
  <2>4. Taken(n) = Taken(m) BY <2>3 DEF Taken
  <2> HIDE DEF c, ep
  <2>5. Sound(c, n, T \cup {ep}) BY <2>2, <2>3 DEF Sound, c
  <2> QED BY <1>0, <2>4, <2>5 DEF n, c, ep
<1>3. CASE Remaps(c) /\ Base(c, e) # 0
  <2> DEFINE a == [from |-> ep, to |-> to]
             es == m.es \cup {a}
             free == [m.free EXCEPT ![to] = ep]
             new == [m.new EXCEPT ![ep] = to]
  <2>1. to \in Pids /\ m.free[to] = Unused
    <3>1. Base(c, e) \in Pids BY <1>3, BaseType
    <3> QED BY <1>0, <3>1, FreeIsFound
  <2>2. n = [free |-> free, new |-> new, es |-> es] BY <1>3 DEF map_es_pid
  <2> HIDE DEF to, n, c, ep
  <2>3. free \in [Pids -> Pids \cup {Unused}] /\ new \in [Pids -> Pids \cup {Unused}]
    BY <1>0, <2>1 DEF Maps
  <2>4. a \in Announcements /\ a.from = ep /\ a.to = to BY <1>0, <2>1 DEF Announcements
  <2>5. /\ free[to] = ep /\ \A p \in Pids : p # to => free[p] = m.free[p]
        /\ new[ep] = to /\ \A p \in Pids : p # ep => new[p] = m.new[p]
    BY <1>0, <2>1 DEF Maps
  <2>6. n.free = free /\ n.new = new /\ n.es = es BY <2>2
  <2> HIDE DEF free, new, a
  <2>7. n \in Maps BY <1>0, <2>2, <2>3, <2>4 DEF Maps
  <2>8. \A b \in n.es : b.from \in T \cup {ep} /\ b.to = Leaves(n.new, b.from)
    <3> SUFFICES ASSUME NEW b \in es PROVE b.from \in T \cup {ep} /\ b.to = Leaves(new, b.from)
      BY <2>6
    <3>1. CASE b = a
      BY <2>1, <2>4, <2>5, <3>1, PidsType DEF Leaves
    <3>2. CASE b \in m.es
      <4>1. b.from \in T /\ b.to = Leaves(m.new, b.from) BY <3>2 DEF Sound
      <4>2. b.from \in Pids /\ b.from # ep BY <1>0, <3>2, <4>1 DEF Maps, Announcements
      <4> QED BY <2>5, <4>1, <4>2 DEF Leaves
    <3> QED BY <3>1, <3>2
  <2>9. \A p \in Pids : n.new[p] # Unused => p \in T \cup {ep} /\ n.free[n.new[p]] = p
    <3> SUFFICES ASSUME NEW p \in Pids, new[p] # Unused
                 PROVE  p \in T \cup {ep} /\ free[new[p]] = p
      BY <2>6
    <3>1. CASE p = ep BY <2>5, <3>1
    <3>2. CASE p # ep
      <4>1. new[p] = m.new[p] BY <2>5, <3>2
      <4>2. p \in T /\ m.free[m.new[p]] = p BY <4>1 DEF Sound
      <4>3. m.new[p] \in Pids BY <1>0, <4>1 DEF Maps
      <4>4. m.new[p] # to BY <2>1, <4>2, PidsType
      <4> QED BY <2>5, <4>1, <4>2, <4>3, <4>4
    <3> QED BY <3>1, <3>2
  <2>10. Taken(n) = Taken(m) \cup {to} /\ to \notin Taken(m)
    <3>1. \A p \in Pids : free[p] # Unused <=> (p = to \/ m.free[p] # Unused)
      BY <1>0, <2>1, <2>5
    <3> QED BY <2>1, <2>6, <3>1 DEF Taken
  <2>11. Cardinality(Taken(n)) = Cardinality(Taken(m)) + 1
    BY <1>0, <2>10, FS_AddElement
  <2>12. Sound(c, n, T \cup {ep}) BY <1>3, <2>7, <2>8, <2>9 DEF Sound, c
  <2>13. Cardinality(Taken(n)) <= k BY <1>0, <2>11 DEF c
  <2> QED BY <2>12, <2>13 DEF n, c, ep
<1> QED BY <1>2, <1>3

\* What the loop of NewPMT makes of f, the maps after each number of ESs.
Loop(c, p, n, f) ==
  [k \in 0 .. n |->
     IF k = 0 THEN [free |-> Unmapped, new |-> Unmapped, es |-> {}]
     ELSE IF Streamed(c, p.es[k]) THEN map_es_pid(c, f[k - 1], p.es[k]) ELSE f[k - 1]]

\* The loop has a result.
LEMMA LoopExists ==
  ASSUME NEW c, NEW p, NEW n \in Nat
  PROVE  \E f : f = Loop(c, p, n, f)
<1> DEFINE S == {k \in 0 .. n : \E f : f = Loop(c, p, k, f)}
<1>1. 0 \in S
  <2> DEFINE f == [k \in 0 .. 0 |-> [free |-> Unmapped, new |-> Unmapped, es |-> {}]]
  <2>1. f = Loop(c, p, 0, f) BY DEF Loop
  <2> QED BY <2>1
<1>2. ASSUME NEW k \in 1 .. n, k - 1 \in S PROVE k \in S
  <2>1. PICK f : f = Loop(c, p, k - 1, f) BY <1>2
  <2> DEFINE last == IF Streamed(c, p.es[k]) THEN map_es_pid(c, f[k - 1], p.es[k])
                     ELSE f[k - 1]
             g == [j \in 0 .. k |-> IF j = k THEN last ELSE f[j]]
  <2>2. /\ k \in Nat /\ k # 0 /\ k - 1 \in 0 .. k
        /\ \A j \in 0 .. k : j # k => j \in 0 .. k - 1
        /\ \A j \in 0 .. k : j # 0 => j - 1 \in 0 .. k /\ j - 1 # k
    OBVIOUS
  <2> HIDE DEF last
  <2>3. g[k] = last /\ \A j \in 0 .. k : j # k => g[j] = f[j] BY <2>2
  <2>4. g[k - 1] = f[k - 1] BY <2>2, <2>3
  <2> HIDE DEF g
  <2>5. ASSUME NEW j \in 0 .. k PROVE Loop(c, p, k, g)[j] = g[j]
    <3>1. CASE j = k
      <4>1. Loop(c, p, k, g)[j] = last BY <2>2, <2>4, <3>1 DEF Loop, last
      <4> QED BY <2>3, <3>1, <4>1
    <3>2. CASE j # k
      <4>1. j \in 0 .. k - 1 BY <2>2, <3>2
      <4>2. f[j] = Loop(c, p, k - 1, f)[j] BY <2>1
      <4>3. j # 0 => g[j - 1] = f[j - 1] BY <2>2, <2>3
      <4>4. Loop(c, p, k - 1, f)[j] = Loop(c, p, k, g)[j] BY <4>1, <4>3 DEF Loop
      <4> QED BY <2>3, <3>2, <4>2, <4>4
    <3> QED BY <3>1, <3>2
  <2>6. g = [j \in 0 .. k |-> g[j]] BY DEF g
  <2>7. Loop(c, p, k, g) = [j \in 0 .. k |-> Loop(c, p, k, g)[j]] BY DEF Loop
  <2>8. g = Loop(c, p, k, g) BY <2>5, <2>6, <2>7
  <2> QED BY <2>8
<1> HIDE DEF S
<1>3. \A k \in 0 .. n : k \in S BY <1>1, <1>2, CountUp
<1>4. n \in S BY <1>3
<1> QED BY <1>4 DEF S

LEMMA MapPmtIsLoop ==
  ASSUME NEW c, NEW p, Len(p.es) \in Nat
  PROVE  \E f : f = Loop(c, p, Len(p.es), f) /\ MapPmt(c, p) = f[Len(p.es)]
<1> DEFINE n == Len(p.es)
           f == CHOOSE g : g = Loop(c, p, n, g)
<1>1. f = Loop(c, p, n, f) BY LoopExists
<1>2. MapPmt(c, p) = f[n] BY DEF MapPmt, Loop
<1> QED BY <1>1, <1>2

\* The PIDs of the first k ESs.
PidsBefore(p, k) == {p.es[i].pid : i \in 1 .. k}

LEMMA MapPmtMakes ==
  ASSUME NEW l \in Lines, NEW p \in Pmts
  PROVE  Sound(Parsed(l), MapPmt(Parsed(l), p), PidsBefore(p, Len(p.es)))
<1> DEFINE c == Parsed(l)
           n == Len(p.es)
           start == [free |-> Unmapped, new |-> Unmapped, es |-> {}]
<1>1. /\ n \in Nat /\ DOMAIN p.es = 1 .. n
      /\ \A i \in 1 .. n : p.es[i] \in Streams
      /\ \A i, j \in 1 .. n : i # j => p.es[i].pid # p.es[j].pid
  <2>1. p.es \in Seq(Streams) BY PmtsAssumption
  <2> QED BY <2>1, PmtsAssumption
<1>2. PICK f : f = Loop(c, p, n, f) /\ MapPmt(c, p) = f[n] BY <1>1, MapPmtIsLoop
<1> DEFINE S == {k \in 0 .. n : Sound(c, f[k], PidsBefore(p, k)) /\ Cardinality(Taken(f[k])) <= k}
<1>3. 0 \in S
  <2>1. f[0] = start
    <3>1. Loop(c, p, n, f)[0] = start BY <1>1 DEF Loop
    <3> QED BY <1>2, <3>1
  <2>2. start.free = Unmapped /\ start.new = Unmapped /\ start.es = {} OBVIOUS
  <2>3. Unmapped \in [Pids -> Pids \cup {Unused}] /\ \A q \in Pids : Unmapped[q] = Unused
    BY DEF Unmapped
  <2>4. start \in Maps BY <2>3 DEF Maps
  <2> HIDE DEF start, c
  <2>5. Sound(c, start, PidsBefore(p, 0)) BY <2>2, <2>3, <2>4 DEF Sound
  <2>6. Taken(start) = {} BY <2>2, <2>3 DEF Taken
  <2>7. Cardinality(Taken(start)) <= 0 BY <2>6, FS_EmptySet
  <2> QED BY <1>1, <2>1, <2>5, <2>7
<1>4. ASSUME NEW k \in 1 .. n, k - 1 \in S PROVE k \in S
  <2> DEFINE e == p.es[k]
             m == f[k - 1]
             T == PidsBefore(p, k - 1)
  <2>1. Sound(c, m, T) /\ Cardinality(Taken(m)) <= k - 1 BY <1>4
  <2>2. e \in Streams /\ e.pid \notin T BY <1>1 DEF PidsBefore
  <2>3. PidsBefore(p, k) = T \cup {e.pid} BY <1>1 DEF PidsBefore
  <2>4. f[k] = IF Streamed(c, e) THEN map_es_pid(c, m, e) ELSE m
    <3>1. Loop(c, p, n, f)[k] = IF Streamed(c, e) THEN map_es_pid(c, m, e) ELSE m
      BY <1>1 DEF Loop
    <3> QED BY <1>2, <3>1
  <2>5. k \in Nat /\ Base(c, e) + k <= MaxPid + 1 BY <1>1, RoomAssumption
  <2>6. k \in 0 .. n /\ Cardinality(Taken(m)) \in Nat BY TakenType
  <2> HIDE DEF c, e, m, T
  <2>7. CASE Streamed(c, e)
    <3>1. Cardinality(Taken(m)) < k BY <2>1, <2>5, <2>6
    <3>2. Sound(c, f[k], T \cup {e.pid}) /\ Cardinality(Taken(f[k])) <= k
      BY <2>1, <2>2, <2>4, <2>5, <2>7, <3>1, OneMore DEF c
    <3> QED BY <2>3, <2>6, <3>2
  <2>8. CASE ~ Streamed(c, e)
    <3>1. f[k] = m BY <2>4, <2>8
    <3>2. Sound(c, m, T \cup {e.pid}) BY <2>1 DEF Sound
    <3>3. Cardinality(Taken(m)) <= k BY <2>1, <2>5, <2>6
    <3> QED BY <2>3, <2>6, <3>1, <3>2, <3>3
  <2> QED BY <2>7, <2>8
<1> HIDE DEF S, c, n
<1>5. \A k \in 0 .. n : k \in S BY <1>1, <1>3, <1>4, CountUp
<1>6. n \in S BY <1>1, <1>5
<1> QED BY <1>2, <1>6 DEF S, c, n

-----------------------------------------------------------------------------
(* What the outputs announce, and where their packets go.                  *)

Sections == [es : SUBSET Announcements, pcr : Announcements]
PidMaps == [Pids -> Pids \cup {Unused}]

\* Where an output with configuration c and the map new sends PID p.
Goes(c, new, p) == IF Remaps(c) THEN Leaves(new, p) ELSE p

\* A PID that is taken was taken by the one that is mapped to it.
Paired(new, free) == \A p \in Pids : new[p] # Unused => free[new[p]] = p

Announces(s, c, new) == \A a \in s.es \cup {s.pcr} : a.to = Goes(c, new, a.from)

MapInv ==
  /\ conf \in [Slots -> {Parsed(l) : l \in Lines}]
  /\ pmt \in Pmts \cup {None}
  /\ newpids \in [Slots -> PidMaps]
  /\ freepids \in [Slots -> PidMaps]
  /\ section \in [Slots -> Sections \cup {None}]
  /\ \A o \in Slots :
       /\ Paired(newpids[o], freepids[o])
       /\ section[o] # None => Announces(section[o], conf[o], newpids[o])

\* A section that is made, with the maps it is made with.
LEMMA MadeAnnounces ==
  ASSUME NEW l \in Lines, NEW p \in Pmts
  PROVE  LET m == MapPmt(Parsed(l), p)
             s == NewPMT(Parsed(l), p)
         IN  /\ m.new \in PidMaps /\ m.free \in PidMaps /\ Paired(m.new, m.free)
             /\ s \in Sections /\ Announces(s, Parsed(l), m.new)
<1> DEFINE c == Parsed(l)
           m == MapPmt(c, p)
           s == NewPMT(c, p)
           pcr == [from |-> p.pcr, to |-> Leaves(m.new, p.pcr)]
<1>1. Sound(c, m, PidsBefore(p, Len(p.es))) BY MapPmtMakes
<1>2. s = [es |-> m.es, pcr |-> pcr] BY DEF NewPMT
<1> HIDE DEF c, m, s
<1>3. m.new \in PidMaps /\ m.free \in PidMaps /\ m.es \subseteq Announcements
  BY <1>1 DEF Sound, Maps, PidMaps
<1>4. Paired(m.new, m.free) BY <1>1 DEF Sound, Paired
<1>5. p.pcr \in Pids BY PmtsAssumption
<1>6. pcr \in Announcements BY <1>3, <1>5 DEF Announcements, Leaves, PidMaps
<1>7. s \in Sections BY <1>2, <1>3, <1>6 DEF Sections
<1>8. \A a \in s.es \cup {s.pcr} : a.from \in Pids /\ a.to = Leaves(m.new, a.from)
  <2>1. \A a \in m.es : a.from \in Pids /\ a.to = Leaves(m.new, a.from)
    BY <1>1, <1>3 DEF Sound, Announcements
  <2>2. pcr.from \in Pids /\ pcr.to = Leaves(m.new, pcr.from) BY <1>5
  <2>3. s.es = m.es /\ s.pcr = pcr BY <1>2
  <2> HIDE DEF pcr
  <2> QED BY <2>1, <2>2, <2>3
<1>9. ~ Remaps(c) => \A q \in Pids : Leaves(m.new, q) = q
  BY <1>1 DEF Sound, Leaves, Unmapped
<1>10. Announces(s, c, m.new) BY <1>8, <1>9 DEF Announces, Goes
<1> QED BY <1>3, <1>4, <1>7, <1>10 DEF c, m, s

LEMMA MapInvInit == Init => MapInv
<1> SUFFICES ASSUME Init PROVE MapInv OBVIOUS
<1>1. Unmapped \in PidMaps /\ \A p \in Pids : Unmapped[p] = Unused
  BY DEF Unmapped, PidMaps
<1>2. Paired(Unmapped, Unmapped) BY <1>1 DEF Paired
<1> QED BY <1>1, <1>2 DEF Init, MapInv

\* NewPMT for one output, and for all outputs of the program.
LEMMA RemadeKeeps ==
  ASSUME MapInv, NEW o \in Slots, NEW l \in Lines, conf'[o] = Parsed(l),
         NEW p \in Pmts \cup {None},
         section'[o] = IF Made(conf'[o], p) THEN NewPMT(conf'[o], p) ELSE None,
         newpids'[o] = IF Made(conf'[o], p) THEN MapPmt(conf'[o], p).new ELSE newpids[o],
         freepids'[o] = IF Made(conf'[o], p) THEN MapPmt(conf'[o], p).free ELSE freepids[o]
  PROVE  /\ newpids'[o] \in PidMaps /\ freepids'[o] \in PidMaps
         /\ section'[o] \in Sections \cup {None}
         /\ Paired(newpids'[o], freepids'[o])
         /\ section'[o] # None => Announces(section'[o], conf'[o], newpids'[o])
<1>1. CASE Made(conf'[o], p)
  <2>1. p \in Pmts BY <1>1 DEF Made
  <2> QED BY <1>1, <2>1, MadeAnnounces
<1>2. CASE ~ Made(conf'[o], p) BY <1>2 DEF MapInv
<1> QED BY <1>1, <1>2

LEMMA MapInvNext == MapInv /\ [Next]_vars => MapInv'
<1> SUFFICES ASSUME MapInv, [Next]_vars PROVE MapInv' OBVIOUS
<1>1. CASE UNCHANGED <<conf, newpids, freepids, section, pmt>> BY <1>1 DEF MapInv
<1>2. ASSUME NEW p \in Pmts \cup {None}, HandlePMT(p) PROVE MapInv'
  <2>1. \A o \in Slots :
           /\ newpids'[o] \in PidMaps /\ freepids'[o] \in PidMaps
           /\ section'[o] \in Sections \cup {None}
           /\ Paired(newpids'[o], freepids'[o])
           /\ section'[o] # None => Announces(section'[o], conf'[o], newpids'[o])
    <3> TAKE o \in Slots
    <3>1. conf' = conf BY <1>2 DEF HandlePMT
    <3>2. /\ section'[o] = IF conf[o].program
                           THEN IF p # None THEN NewPMT(conf[o], p) ELSE None ELSE section[o]
          /\ newpids'[o] = IF Made(conf[o], p) THEN MapPmt(conf[o], p).new ELSE newpids[o]
          /\ freepids'[o] = IF Made(conf[o], p) THEN MapPmt(conf[o], p).free ELSE freepids[o]
      BY <1>2 DEF HandlePMT
    <3>3. CASE conf[o].program
      <4>1. PICK l \in Lines : conf[o] = Parsed(l) BY DEF MapInv
      <4>2. section'[o] = IF Made(conf[o], p) THEN NewPMT(conf[o], p) ELSE None
        BY <3>2, <3>3 DEF Made
      <4> QED BY <3>1, <3>2, <4>1, <4>2, RemadeKeeps
    <3>4. CASE ~ conf[o].program
      <4>1. section'[o] = section[o] /\ newpids'[o] = newpids[o] /\ freepids'[o] = freepids[o]
        BY <3>2, <3>4 DEF Made
      <4> QED BY <3>1, <4>1 DEF MapInv
    <3> QED BY <3>3, <3>4
  <2>2. /\ DOMAIN newpids' = Slots /\ newpids' = [o \in Slots |-> newpids'[o]]
        /\ DOMAIN freepids' = Slots /\ freepids' = [o \in Slots |-> freepids'[o]]
        /\ DOMAIN section' = Slots /\ section' = [o \in Slots |-> section'[o]]
        /\ pmt' = p /\ conf' = conf
    BY <1>2 DEF HandlePMT
  <2> QED BY <2>1, <2>2 DEF MapInv
<1>3. ASSUME NEW o \in Slots, NEW l \in Lines, demux_Change(o, l) PROVE MapInv'
  <2>1. /\ conf' = [conf EXCEPT ![o] = Parsed(l)] /\ pmt' = pmt
        /\ Rebuilt(o, Parsed(l), pmt)
    BY <1>3 DEF demux_Change
  <2>2. conf' \in [Slots -> {Parsed(x) : x \in Lines}] /\ conf'[o] = Parsed(l)
        /\ \A q \in Slots : q # o => conf'[q] = conf[q]
    BY <2>1 DEF MapInv
  <2>3. /\ section'[o] = IF Made(conf'[o], pmt) THEN NewPMT(conf'[o], pmt) ELSE None
        /\ newpids'[o] = IF Made(conf'[o], pmt) THEN MapPmt(conf'[o], pmt).new ELSE newpids[o]
        /\ freepids'[o] = IF Made(conf'[o], pmt) THEN MapPmt(conf'[o], pmt).free
                          ELSE freepids[o]
    BY <2>1, <2>2 DEF MapInv, Rebuilt
  <2>4. pmt \in Pmts \cup {None} BY DEF MapInv
  <2>5. /\ newpids'[o] \in PidMaps /\ freepids'[o] \in PidMaps
        /\ section'[o] \in Sections \cup {None}
        /\ Paired(newpids'[o], freepids'[o])
        /\ section'[o] # None => Announces(section'[o], conf'[o], newpids'[o])
    BY <2>2, <2>3, <2>4, RemadeKeeps
  <2>6. /\ \E x : section' = [section EXCEPT ![o] = x]
        /\ \E x : newpids' = [newpids EXCEPT ![o] = x]
        /\ \E x : freepids' = [freepids EXCEPT ![o] = x]
    BY <2>1 DEF Rebuilt
  <2>7. \A q \in Slots : q # o =>
           section'[q] = section[q] /\ newpids'[q] = newpids[q] /\ freepids'[q] = freepids[q]
    BY <2>6 DEF MapInv
  <2>8. /\ newpids' \in [Slots -> PidMaps] /\ freepids' \in [Slots -> PidMaps]
        /\ section' \in [Slots -> Sections \cup {None}]
    BY <2>5, <2>6 DEF MapInv
  <2>9. \A q \in Slots :
           /\ Paired(newpids'[q], freepids'[q])
           /\ section'[q] # None => Announces(section'[q], conf'[q], newpids'[q])
    BY <2>2, <2>5, <2>7 DEF MapInv
  <2> QED BY <2>1, <2>2, <2>4, <2>8, <2>9 DEF MapInv
<1>4. CASE \E p \in Carried, S \in SUBSET Slots : demux_Handle(p, S)
  BY <1>1, <1>4 DEF demux_Handle
<1>5. CASE \E o \in Slots : \E n \in 1 .. Len(queue[o]) : output_Flush(o, n)
  BY <1>1, <1>5 DEF output_Flush
<1>6. CASE UNCHANGED vars BY <1>1, <1>6 DEF vars
<1> QED BY <1>2, <1>3, <1>4, <1>5, <1>6 DEF Next

\* Two PIDs are never mapped to one: the maps hold an inverse of each other.
THEOREM MappedStayApart == Spec => []MappedApart
<1>1. MapInv => MappedApart
  <2> SUFFICES ASSUME MapInv, NEW o \in Slots, NEW p \in Pids, NEW q \in Pids,
                      p # q, newpids[o][p] # Unused, newpids[o][p] = newpids[o][q]
               PROVE  FALSE
    BY DEF MappedApart
  <2>1. Paired(newpids[o], freepids[o]) BY DEF MapInv
  <2> QED BY <2>1 DEF Paired
<1> QED BY <1>1, MapInvInit, MapInvNext, PTL DEF Spec

\* The blocks an output sends go where its PMT says, for any PMTs, lines and
\* outputs that share them.
THEOREM WireIsAsAnnounced == Spec => []WireAsAnnounced
<1>1. Init => WireAsAnnounced BY DEF Init, WireAsAnnounced
<1>2. Inv /\ MapInv /\ WireAsAnnounced /\ [Next]_vars => WireAsAnnounced'
  <2> SUFFICES ASSUME Inv, MapInv, WireAsAnnounced, [Next]_vars PROVE WireAsAnnounced'
    OBVIOUS
  <2>1. CASE wire' = {} BY <2>1 DEF WireAsAnnounced
  <2>2. CASE UNCHANGED vars BY <2>2 DEF vars, WireAsAnnounced
  <2>3. ASSUME NEW o \in Slots, NEW n \in 1 .. Len(queue[o]), output_Flush(o, n)
        PROVE  WireAsAnnounced'
    <3> SUFFICES ASSUME NEW w \in wire', section'[w.out] # None,
                        NEW a \in section'[w.out].es \cup {section'[w.out].pcr},
                        a.from = w.from
                 PROVE  a.to = w.pid
      BY DEF WireAsAnnounced
    <3>1. section' = section BY <2>3 DEF output_Flush
    <3>2. PICK i \in 1 .. n :
             w = [out |-> o, from |-> block[queue[o][i]].origin,
                  pid |-> Rewritten(o, block[queue[o][i]]).pid]
      BY <2>3 DEF output_Flush
    <3> DEFINE b == queue[o][i]
               x == block[b]
    <3>3. b \in BlockIds /\ i \in DOMAIN queue[o]
      <4>1. queue[o] \in Seq(BlockIds) BY DEF Inv, TypeBlocks
      <4> QED BY <4>1
    <3>4. x \in Blocks /\ x.pid = x.origin
      <4>1. o \in Holders(queue, b) BY <3>3 DEF Holders
      <4>2. x # None BY <3>3, <4>1 DEF Inv, Counted
      <4> QED BY <3>3, <4>2 DEF Inv, Counted, TypeBlocks
    <3>5. w.out = o /\ w.from = x.origin /\ w.pid = Rewritten(o, x).pid BY <3>2
    <3> HIDE DEF b, x
    <3>6. Rewritten(o, x).pid = Goes(conf[o], newpids[o], x.pid)
      BY <3>4 DEF Rewritten, Goes, Leaves, Blocks
    <3>7. Announces(section[o], conf[o], newpids[o]) BY <3>1, <3>5 DEF MapInv
    <3>8. a.to = Goes(conf[o], newpids[o], a.from) BY <3>1, <3>5, <3>7 DEF Announces
    <3> QED BY <3>4, <3>5, <3>6, <3>8
  <2>4. CASE \E p \in Pmts \cup {None} : HandlePMT(p) BY <2>1, <2>4 DEF HandlePMT
  <2>5. CASE \E o \in Slots, l \in Lines : demux_Change(o, l)
    BY <2>1, <2>5 DEF demux_Change
  <2>6. CASE \E p \in Carried, S \in SUBSET Slots : demux_Handle(p, S)
    BY <2>1, <2>6 DEF demux_Handle
  <2> QED BY <2>2, <2>3, <2>4, <2>5, <2>6 DEF Next
<1> QED BY <1>1, <1>2, InitInv, NextInv, MapInvInit, MapInvNext, PTL DEF Spec
=============================================================================
