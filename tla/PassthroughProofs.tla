-------------------------- MODULE PassthroughProofs --------------------------
(***************************************************************************)
(* What Passthrough promises of the EIT counters and of the EMM PIDs holds *)
(* for any sections, CATs, outputs and sizes.  For the counters: the next  *)
(* packet of an output has the counter after the last one it got, and      *)
(* i_eit_cc is past the packet that waits.  For the EMM PIDs: every PID is *)
(* referenced at least once for each descriptor of the CAT and each output *)
(* that streams it.                                                        *)
(***************************************************************************)
EXTENDS Passthrough, WellFoundedInduction, NaturalsInduction, TLAPS

-----------------------------------------------------------------------------
(* Counters modulo CcMod.                                                  *)

LEMMA DivMod ==
  ASSUME NEW M \in Nat \ {0}, NEW a \in Nat
  PROVE  a \div M \in Nat /\ a % M \in 0 .. M - 1 /\ a = M * (a \div M) + (a % M)
OBVIOUS

LEMMA ModUnique ==
  ASSUME NEW M \in Nat \ {0}, NEW a \in Nat, NEW q \in Nat, NEW r \in 0 .. M - 1,
         a = M * q + r
  PROVE  a % M = r
OBVIOUS

LEMMA ModAdd ==
  ASSUME NEW M \in Nat \ {0}, NEW a \in Nat, NEW b \in Nat
  PROVE  ((a % M) + b) % M = (a + b) % M
<1> DEFINE q == a \div M
           r == a % M
           p == (r + b) \div M
           s == (r + b) % M
<1>1. q \in Nat /\ r \in 0 .. M - 1 /\ a = M * q + r BY DivMod
<1> HIDE DEF q, r
<1>2. p \in Nat /\ s \in 0 .. M - 1 /\ r + b = M * p + s
  <2> DEFINE n == r + b
  <2>1. n \in Nat BY <1>1
  <2> HIDE DEF n
  <2>2. n \div M \in Nat /\ n % M \in 0 .. M - 1 /\ n = M * (n \div M) + (n % M)
    BY <2>1, DivMod
  <2> QED BY <2>2 DEF n
<1> HIDE DEF p, s
<1>3. a + b = M * (q + p) + s BY <1>1, <1>2
<1>4. q + p \in Nat /\ a + b \in Nat BY <1>1, <1>2
<1>5. (a + b) % M = s BY <1>2, <1>3, <1>4, ModUnique
<1> QED BY <1>5 DEF s, r

LEMMA ModSmall ==
  ASSUME NEW M \in Nat \ {0}, NEW a \in 0 .. M - 1
  PROVE  a % M = a
<1>1. a = M * 0 + a /\ a \in Nat /\ 0 \in Nat OBVIOUS
<1> QED BY <1>1, ModUnique

LEMMA CountersType ==
  /\ CcMod \in Nat \ {0}
  /\ \A n \in Nat : n % CcMod \in Counters
  /\ \A c \in Counters : c \in Nat /\ c % CcMod = c /\ Succ(c) \in Counters
<1>1. CcMod \in Nat \ {0} BY SizesAssumption
<1>2. \A n \in Nat : n % CcMod \in Counters BY <1>1, DivMod DEF Counters
<1>3. \A c \in Counters : c \in Nat /\ c % CcMod = c
  BY <1>1, ModSmall DEF Counters
<1>4. \A c \in Counters : Succ(c) \in Counters BY <1>2, <1>3 DEF Succ
<1> QED BY <1>1, <1>2, <1>3, <1>4

LEMMA SuccMod ==
  ASSUME NEW n \in Nat
  PROVE  Succ(n % CcMod) = (n + 1) % CcMod
BY CountersType, ModAdd DEF Succ

-----------------------------------------------------------------------------
(* The packets a section takes.                                            *)

LEMMA OutputType ==
  ASSUME NEW x \in Outputs
  PROVE  /\ x.conf \in Configs
         /\ x.i_eit_cc \in Counters
         /\ x.tail \in Tails \cup {None}
         /\ x.last_cc \in Counters \cup {-1}
         /\ FirstCc(x) \in Counters
         /\ Offset(x) \in Nat
         /\ x # None
<1>1. /\ x.conf \in Configs /\ x.i_eit_cc \in Counters /\ x.tail \in Tails \cup {None}
      /\ x.last_cc \in Counters \cup {-1}
  BY DEF Outputs
<1>2. x.tail # None => x.tail.cc \in Counters /\ x.tail.offset \in Nat
  <2> SUFFICES ASSUME x.tail # None PROVE x.tail.cc \in Counters /\ x.tail.offset \in Nat
    OBVIOUS
  <2>1. x.tail \in Tails BY <1>1
  <2> QED BY <2>1 DEF Tails
<1>3. x # None BY NoneAssumption
<1> QED BY <1>1, <1>2, <1>3 DEF FirstCc, Offset

LEMMA PacketsType ==
  ASSUME NEW x \in Outputs, NEW n \in Nat \ {0}
  PROVE  /\ Full(x, n) \in Nat
         /\ Over(x, n) \in Nat
         /\ Packets(x, n) \in Nat \ {0}
         /\ Leaving(x, n) \in Nat
         /\ TailWaits(x, n) => Packets(x, n) = Full(x, n) + 1 /\ Leaving(x, n) = Full(x, n)
         /\ ~ TailWaits(x, n) => Leaving(x, n) = Packets(x, n)
         /\ NewPackets(x, n) \in Nat
<1> DEFINE a == Offset(x) + n
<1>0. Room \in Nat \ {0} BY SizesAssumption
<1>1. a \in Nat /\ a # 0 BY OutputType
<1>2. /\ a \div Room \in Nat /\ a % Room \in 0 .. Room - 1
      /\ a = Room * (a \div Room) + (a % Room)
  BY <1>0, <1>1, DivMod
<1>3. Full(x, n) \in Nat /\ Over(x, n) \in Nat BY <1>0, <1>2 DEF Full, Over
<1>4. Full(x, n) # 0 \/ Over(x, n) # 0
  <2> SUFFICES ASSUME Full(x, n) = 0, Over(x, n) = 0 PROVE FALSE OBVIOUS
  <2>1. a = Room * 0 + 0 BY <1>2 DEF Full, Over
  <2> QED BY <1>0, <1>1, <2>1
<1> QED BY <1>3, <1>4 DEF Packets, Leaving, TailWaits, NewPackets

-----------------------------------------------------------------------------
(* The counters.                                                           *)

\* The next packet of x continues the last one; i_eit_cc is past the one that waits.
CcFollows(x) ==
  /\ x.last_cc # -1 => FirstCc(x) = Succ(x.last_cc)
  /\ x.tail # None => x.i_eit_cc = Succ(x.tail.cc)

LEMMA AfterPackets ==
  ASSUME NEW x \in Outputs, NEW n \in Nat \ {0}, CcFollows(x)
  PROVE  (x.i_eit_cc + NewPackets(x, n)) % CcMod = (FirstCc(x) + Packets(x, n)) % CcMod
<1> DEFINE k == Packets(x, n)
<1>0. k \in Nat \ {0} BY PacketsType
<1>1. CASE x.tail = None BY <1>0, <1>1 DEF FirstCc, NewPackets
<1>2. CASE x.tail # None
  <2> DEFINE c == x.tail.cc
  <2>1. c \in Nat /\ FirstCc(x) = c BY <1>2, OutputType, CountersType DEF FirstCc
  <2>2. x.i_eit_cc = (c + 1) % CcMod BY <1>2 DEF CcFollows, Succ
  <2>3. NewPackets(x, n) = k - 1 BY <1>2 DEF NewPackets
  <2> HIDE DEF k, c
  <2>4. c + 1 \in Nat /\ k - 1 \in Nat /\ (c + 1) + (k - 1) = c + k BY <1>0, <2>1
  <2>5. (((c + 1) % CcMod) + (k - 1)) % CcMod = (c + k) % CcMod
    BY <2>4, CountersType, ModAdd
  <2> QED BY <2>1, <2>2, <2>3, <2>5 DEF k
<1> QED BY <1>1, <1>2

LEMMA OlderType ==
  /\ 0 \in 0 .. Retention + 1
  /\ \A n \in 0 .. Retention + 1 : Older(n) \in 0 .. Retention + 1
BY SizesAssumption DEF Older

LEMMA PackedFollows ==
  ASSUME NEW x \in Outputs, NEW n \in Nat \ {0}, CcFollows(x)
  PROVE  Packed(x, n) \in Outputs /\ CcFollows(Packed(x, n)) /\ Packed(x, n).conf = x.conf
<1> DEFINE f == FirstCc(x)
           waits == [cc |-> (f + Full(x, n)) % CcMod, offset |-> Over(x, n), age |-> Age(x, n)]
           i == (x.i_eit_cc + NewPackets(x, n)) % CcMod
           t == IF TailWaits(x, n) THEN waits ELSE None
           l == IF Leaving(x, n) = 0 THEN x.last_cc ELSE (f + Leaving(x, n) - 1) % CcMod
           y == Packed(x, n)
<1>0. /\ f \in Nat /\ f \in Counters /\ f % CcMod = f
      /\ Full(x, n) \in Nat /\ Packets(x, n) \in Nat \ {0} /\ Leaving(x, n) \in Nat
      /\ Over(x, n) \in Nat
  BY OutputType, CountersType, PacketsType
<1>1. i = (f + Packets(x, n)) % CcMod /\ i \in Counters
  BY <1>0, AfterPackets, CountersType
<1>2. waits \in Tails
  <2>1. Age(x, n) \in 0 .. Retention + 1
    <3>1. CASE Full(x, n) = 0 /\ x.tail # None
      <4>1. x.tail \in Tails BY <3>1, OutputType
      <4> QED BY <3>1, <4>1 DEF Age, Tails
    <3>2. CASE ~ (Full(x, n) = 0 /\ x.tail # None)
      BY <3>2, OlderType DEF Age
    <3> QED BY <3>1, <3>2
  <2>2. (f + Full(x, n)) % CcMod \in Counters BY <1>0, CountersType
  <2> QED BY <1>0, <2>1, <2>2 DEF Tails
<1>3. waits # None BY <1>2, NoneAssumption
<1>4. t \in Tails \cup {None} BY <1>2
<1>5. l \in Counters \cup {-1}
  <2>1. Leaving(x, n) # 0 => f + Leaving(x, n) - 1 \in Nat BY <1>0
  <2> QED BY <2>1, OutputType, CountersType
<1>6. y = [x EXCEPT !.i_eit_cc = i, !.tail = t, !.last_cc = l] BY DEF Packed
<1>7. waits.cc = (f + Full(x, n)) % CcMod OBVIOUS
<1> HIDE DEF i, t, l, y, f, waits
<1>8. y \in Outputs BY <1>1, <1>4, <1>5, <1>6 DEF Outputs
<1>9. y.conf = x.conf /\ y.i_eit_cc = i /\ y.tail = t /\ y.last_cc = l
  BY <1>6 DEF Outputs
<1>10. y.tail # None => y.i_eit_cc = Succ(y.tail.cc)
  <2> SUFFICES ASSUME t # None PROVE i = Succ(t.cc) BY <1>9
  <2>1. TailWaits(x, n) /\ t = waits BY DEF t
  <2>2. Packets(x, n) = Full(x, n) + 1 BY <2>1, PacketsType
  <2>3. Succ((f + Full(x, n)) % CcMod) = (f + Full(x, n) + 1) % CcMod
    <3>1. f + Full(x, n) \in Nat BY <1>0
    <3> QED BY <3>1, SuccMod
  <2>4. f + Packets(x, n) = f + Full(x, n) + 1 BY <1>0, <2>2
  <2> QED BY <1>1, <1>7, <2>1, <2>3, <2>4
\* The packet after those that leave.
<1>11. FirstCc(y) = (f + Leaving(x, n)) % CcMod
  <2>1. CASE TailWaits(x, n)
    <3>1. t = waits /\ Leaving(x, n) = Full(x, n) BY <2>1, PacketsType DEF t
    <3> QED BY <1>3, <1>7, <1>9, <3>1 DEF FirstCc
  <2>2. CASE ~ TailWaits(x, n)
    <3>1. t = None /\ Leaving(x, n) = Packets(x, n) BY <2>2, PacketsType DEF t
    <3> QED BY <1>1, <1>9, <3>1 DEF FirstCc
  <2> QED BY <2>1, <2>2
<1>12. y.last_cc # -1 => FirstCc(y) = Succ(y.last_cc)
  <2>1. CASE Leaving(x, n) = 0
    <3>1. l = x.last_cc BY <2>1 DEF l
    <3>2. FirstCc(y) = f BY <1>0, <1>11, <2>1
    <3> QED BY <1>9, <3>1, <3>2 DEF CcFollows, f
  <2>2. CASE Leaving(x, n) # 0
    <3> DEFINE m == f + Leaving(x, n) - 1
    <3>1. m \in Nat /\ m + 1 = f + Leaving(x, n) BY <1>0, <2>2
    <3>2. l = m % CcMod BY <2>2 DEF l
    <3>3. Succ(m % CcMod) = (m + 1) % CcMod BY <3>1, SuccMod
    <3> QED BY <1>9, <1>11, <3>1, <3>2, <3>3
  <2> QED BY <2>1, <2>2
<1> QED BY <1>8, <1>9, <1>10, <1>12 DEF CcFollows, y

-----------------------------------------------------------------------------
(* The invariant.                                                          *)

\* Every PID has a reference for each output that streams it and for each
\* descriptor of the CAT, and what the CAT lists is an EMM PID.
EmmPidsHeld ==
  \A p \in Pids : refs[p] >= users[p] + cat[p] /\ (cat[p] > 0 => b_emm[p])

EmmGiven ==
  \A p \in step.packet : p \in Pids /\ cat[p] > 0 =>
    step.emm = {o \in Valid : ~ output[o].conf.passthrough}

Inv ==
  /\ TypeOK
  /\ \A o \in Valid : CcFollows(output[o])
  /\ EmmPidsHeld
  /\ EmmGiven

\* What TypeOK says of the outputs and of the CATs.
OutputsOK ==
  /\ output \in [Slots -> Outputs \cup {None}]
  /\ \A o \in Valid : CcFollows(output[o])

PidsOK ==
  /\ cat \in [Pids -> Nat]
  /\ cat \in Cats \cup {NoPids}
  /\ refs \in [Pids -> Nat]
  /\ b_emm \in [Pids -> BOOLEAN]
  /\ users \in [Pids -> 0 .. MaxUsers]
  /\ EmmPidsHeld

LEMMA InvParts == Inv <=> OutputsOK /\ PidsOK /\ EmmGiven
<1>1. \A c \in Cats \cup {NoPids} : c \in [Pids -> Nat]
  BY InputsAssumption DEF NoPids
<1> QED BY <1>1 DEF Inv, OutputsOK, PidsOK, TypeOK

LEMMA InitInv == Init => Inv
<1> SUFFICES ASSUME Init PROVE Inv OBVIOUS
<1>1. OutputsOK BY DEF Init, OutputsOK, Valid
<1>2. PidsOK BY SizesAssumption DEF Init, PidsOK, EmmPidsHeld, NoPids
<1>3. EmmGiven BY DEF Init, EmmGiven, Idle
<1> QED BY <1>1, <1>2, <1>3, InvParts

-----------------------------------------------------------------------------
(* The outputs.                                                            *)

LEMMA UnitsType == \A e \in Sections : e.units \in Nat \ {0}
BY InputsAssumption

LEMMA EitOutputs ==
  ASSUME OutputsOK, NEW e \in Sections, HandleEIT(e)
  PROVE  OutputsOK'
<1> SUFFICES ASSUME NEW o \in Slots
             PROVE  /\ output'[o] \in Outputs \cup {None}
                    /\ output'[o] # None => CcFollows(output'[o])
  BY DEF HandleEIT, OutputsOK, Valid
<1>1. CASE Gets(o, e.sid)
  <2>1. output[o] \in Outputs /\ CcFollows(output[o]) BY <1>1 DEF Gets, OutputsOK, Valid
  <2>2. output'[o] = Packed(output[o], e.units) BY <1>1 DEF HandleEIT
  <2> QED BY <2>1, <2>2, UnitsType, PackedFollows
<1>2. CASE ~ Gets(o, e.sid)
  BY <1>2 DEF HandleEIT, OutputsOK, Valid
<1> QED BY <1>1, <1>2

\* The packet that waits is sent.
LEMMA FlushedFollows ==
  ASSUME NEW x \in Outputs, CcFollows(x), x.tail # None
  PROVE  LET y == [x EXCEPT !.tail = None, !.last_cc = x.tail.cc]
         IN y \in Outputs /\ CcFollows(y) /\ y.conf = x.conf
<1> DEFINE l == x.tail.cc
           y == [x EXCEPT !.tail = None, !.last_cc = l]
<1>1. x.tail \in Tails BY OutputType
<1>2. l \in Counters BY <1>1 DEF Tails
<1>3. x.i_eit_cc = Succ(l) BY DEF CcFollows
<1> HIDE DEF l
<1>4. y \in Outputs BY <1>2 DEF Outputs
<1>5. y.conf = x.conf /\ y.i_eit_cc = x.i_eit_cc /\ y.tail = None /\ y.last_cc = l
  BY DEF Outputs
<1> HIDE DEF y
<1>6. CcFollows(y) BY <1>3, <1>5 DEF CcFollows, FirstCc
<1> QED BY <1>4, <1>5, <1>6 DEF y, l

LEMMA PacketOutputs ==
  ASSUME OutputsOK, NEW p \in Pids, NEW S, demux_Handle(p, S)
  PROVE  /\ OutputsOK'
         /\ Valid' = Valid
         /\ \A o \in Valid : output'[o].conf = output[o].conf
<1>1. \A o \in Slots : o \in S /\ Overdue(o) =>
         /\ output'[o] = [output[o] EXCEPT !.tail = None, !.last_cc = output[o].tail.cc]
         /\ output[o] \in Outputs /\ CcFollows(output[o]) /\ output[o].tail # None
  BY DEF demux_Handle, Overdue, OutputsOK, Valid
<1>2. \A o \in Slots : ~ (o \in S /\ Overdue(o)) => output'[o] = output[o]
  BY DEF demux_Handle
<1>3. \A o \in Slots :
         /\ output'[o] \in Outputs \cup {None}
         /\ output'[o] = None <=> output[o] = None
         /\ output[o] # None => CcFollows(output'[o]) /\ output'[o].conf = output[o].conf
  <2> SUFFICES ASSUME NEW o \in Slots
               PROVE  /\ output'[o] \in Outputs \cup {None}
                      /\ output'[o] = None <=> output[o] = None
                      /\ output[o] # None => CcFollows(output'[o])
                                             /\ output'[o].conf = output[o].conf
    OBVIOUS
  <2>1. CASE o \in S /\ Overdue(o)
    <3> DEFINE x == output[o]
               y == [x EXCEPT !.tail = None, !.last_cc = x.tail.cc]
    <3>1. output'[o] = y /\ x \in Outputs /\ CcFollows(x) /\ x.tail # None
      BY <1>1, <2>1
    <3> HIDE DEF x
    <3>2. y \in Outputs /\ CcFollows(y) /\ y.conf = x.conf
      BY <3>1, FlushedFollows
    <3> HIDE DEF y
    <3>3. x # None /\ y # None
      BY <3>1, <3>2, OutputType
    <3> QED BY <3>1, <3>2, <3>3 DEF x
  <2>2. CASE ~ (o \in S /\ Overdue(o))
    BY <1>2, <2>2 DEF OutputsOK, Valid
  <2> QED BY <2>1, <2>2
<1>4. output' = [o \in Slots |-> output'[o]] BY DEF demux_Handle
<1> QED BY <1>3, <1>4 DEF OutputsOK, Valid

LEMMA LineOutputs ==
  ASSUME OutputsOK, NEW o \in Slots, NEW c \in Configs,
         output_Create(o, c) \/ demux_Change(o, c) \/ output_Close(o)
  PROVE  OutputsOK'
<1>1. CASE output_Create(o, c)
  <2>1. PICK n \in Counters :
          output' = [output EXCEPT ![o] = [conf |-> c, i_eit_cc |-> n, tail |-> None,
                                           last_cc |-> -1]]
    BY <1>1 DEF output_Create
  <2> DEFINE y == [conf |-> c, i_eit_cc |-> n, tail |-> None, last_cc |-> -1]
  <2>2. y \in Outputs BY DEF Outputs
  <2>3. CcFollows(y) BY DEF CcFollows
  <2> HIDE DEF y
  <2> QED BY <2>1, <2>2, <2>3 DEF OutputsOK, Valid, y
<1>2. CASE demux_Change(o, c)
  <2> DEFINE x == output[o]
             y == [x EXCEPT !.conf = c]
  <2>1. x \in Outputs /\ CcFollows(x) BY <1>2 DEF demux_Change, OutputsOK, Valid
  <2>2. output' = [output EXCEPT ![o] = y] BY <1>2 DEF demux_Change
  <2> HIDE DEF x
  <2>3. y \in Outputs /\ y.i_eit_cc = x.i_eit_cc /\ y.tail = x.tail /\ y.last_cc = x.last_cc
    BY <2>1 DEF Outputs
  <2> HIDE DEF y
  <2>4. CcFollows(y) BY <2>1, <2>3 DEF CcFollows, FirstCc
  <2> QED BY <2>2, <2>3, <2>4 DEF OutputsOK, Valid
<1>3. CASE output_Close(o)
  BY <1>3 DEF output_Close, OutputsOK, Valid
<1> QED BY <1>1, <1>2, <1>3

\* A packet that waits gets older.
LEMMA AgedFollows ==
  ASSUME NEW x \in Outputs, CcFollows(x), x.tail # None
  PROVE  LET y == [x EXCEPT !.tail.age = Older(@)]
         IN y \in Outputs /\ CcFollows(y)
<1> DEFINE a == Older(x.tail.age)
           t == [x.tail EXCEPT !.age = a]
           y == [x EXCEPT !.tail = t]
<1>1. x.tail \in Tails BY OutputType
<1>2. a \in 0 .. Retention + 1 BY <1>1, OlderType DEF Tails
<1> HIDE DEF a
<1>3. t \in Tails /\ t.cc = x.tail.cc BY <1>1, <1>2 DEF Tails
<1>4. [x EXCEPT !.tail.age = Older(@)] = y BY DEF a
<1> HIDE DEF t
<1>5. y \in Outputs /\ y.i_eit_cc = x.i_eit_cc /\ y.tail = t /\ y.last_cc = x.last_cc
  BY <1>3 DEF Outputs
<1>6. t # None BY <1>3, NoneAssumption
<1> HIDE DEF y
<1>7. CcFollows(y) BY <1>3, <1>5, <1>6 DEF CcFollows, FirstCc
<1> QED BY <1>4, <1>5, <1>7

LEMMA TickOutputs ==
  ASSUME OutputsOK, Tick
  PROVE  OutputsOK'
<1> SUFFICES ASSUME NEW o \in Slots
             PROVE  /\ output'[o] \in Outputs \cup {None}
                    /\ output'[o] # None => CcFollows(output'[o])
  BY DEF Tick, OutputsOK, Valid
<1>1. CASE output[o] # None /\ output[o].tail # None
  <2>1. output'[o] = [output[o] EXCEPT !.tail.age = Older(@)] BY <1>1 DEF Tick
  <2>2. output[o] \in Outputs /\ CcFollows(output[o]) BY <1>1 DEF OutputsOK, Valid
  <2> QED BY <1>1, <2>1, <2>2, AgedFollows
<1>2. CASE ~ (output[o] # None /\ output[o].tail # None)
  BY <1>2 DEF Tick, OutputsOK, Valid
<1> QED BY <1>1, <1>2

-----------------------------------------------------------------------------
(* The EMM PIDs.                                                           *)

LEMMA CatPids ==
  ASSUME PidsOK, NEW next \in Cats, HandleCAT(next)
  PROVE  PidsOK'
<1>0. next \in [Pids -> Nat] BY InputsAssumption
<1>1. cat' = next /\ users' = users BY DEF HandleCAT
<1>2. \A p \in Pids :
         refs'[p] = refs[p] + next[p] - (IF next[p] = 0 THEN cat[p] ELSE 0)
  BY DEF HandleCAT
<1>3. \A p \in Pids : /\ refs'[p] \in Nat
                      /\ refs'[p] >= users[p] + next[p]
  <2> SUFFICES ASSUME NEW p \in Pids
               PROVE  refs'[p] \in Nat /\ refs'[p] >= users[p] + next[p]
    OBVIOUS
  <2>1. /\ refs[p] \in Nat /\ cat[p] \in Nat /\ next[p] \in Nat /\ users[p] \in Nat
        /\ refs[p] >= users[p] + cat[p]
    BY <1>0, SizesAssumption DEF PidsOK, EmmPidsHeld
  <2>2. CASE next[p] = 0 BY <1>2, <2>1, <2>2
  <2>3. CASE next[p] # 0 BY <1>2, <2>1, <2>3
  <2> QED BY <2>2, <2>3
<1>4. refs' \in [Pids -> Nat]
  <2>1. refs' = [p \in Pids |-> refs'[p]] BY DEF HandleCAT
  <2> QED BY <1>3, <2>1
<1>5. b_emm' \in [Pids -> BOOLEAN] /\ \A p \in Pids : next[p] > 0 => b_emm'[p]
  BY DEF HandleCAT
<1> QED BY <1>0, <1>1, <1>3, <1>4, <1>5 DEF PidsOK, EmmPidsHeld

LEMMA SetPids ==
  ASSUME PidsOK, NEW p \in Pids, SetPID(p)
  PROVE  PidsOK'
<1>1. refs[p] \in Nat /\ users[p] \in 0 .. MaxUsers /\ users[p] < MaxUsers
  BY DEF SetPID, PidsOK
<1>2. refs' = [refs EXCEPT ![p] = @ + 1] /\ users' = [users EXCEPT ![p] = @ + 1]
      /\ cat' = cat /\ b_emm' = b_emm
  BY DEF SetPID
<1>3. refs' \in [Pids -> Nat] /\ users' \in [Pids -> 0 .. MaxUsers]
  BY <1>1, <1>2, SizesAssumption DEF PidsOK
<1>4. EmmPidsHeld' BY <1>2, SizesAssumption DEF PidsOK, EmmPidsHeld
<1> QED BY <1>2, <1>3, <1>4 DEF PidsOK

\* With a user besides the CAT the PID has two references at least.
LEMMA UnsetPids ==
  ASSUME PidsOK, NEW p \in Pids, UnsetPID(p)
  PROVE  PidsOK'
<1>0. /\ refs[p] \in Nat /\ users[p] \in Nat /\ users[p] > 0 /\ users[p] <= MaxUsers
      /\ cat[p] \in Nat /\ refs[p] >= users[p] + cat[p]
  BY SizesAssumption DEF UnsetPID, PidsOK, EmmPidsHeld
<1>1. refs' = [refs EXCEPT ![p] = @ - 1] /\ users' = [users EXCEPT ![p] = @ - 1]
      /\ cat' = cat /\ b_emm' = [b_emm EXCEPT ![p] = StillEmm(p)]
  BY DEF UnsetPID
<1>2. refs' \in [Pids -> Nat] /\ users' \in [Pids -> 0 .. MaxUsers]
  BY <1>0, <1>1, SizesAssumption DEF PidsOK
<1>3. b_emm' \in [Pids -> BOOLEAN] BY <1>1 DEF PidsOK, StillEmm
<1>4. cat[p] > 0 => StillEmm(p) BY <1>0 DEF StillEmm, PidsOK, EmmPidsHeld
<1>5. EmmPidsHeld'
  <2> SUFFICES ASSUME NEW q \in Pids
               PROVE  refs'[q] >= users'[q] + cat[q] /\ (cat[q] > 0 => b_emm'[q])
    BY <1>1 DEF EmmPidsHeld
  <2>1. CASE q = p
    <3>1. refs'[q] = refs[p] - 1 /\ users'[q] = users[p] - 1 BY <1>1, <2>1 DEF PidsOK
    <3>2. b_emm'[q] = StillEmm(p) BY <1>1, <2>1 DEF PidsOK
    <3> QED BY <1>0, <1>4, <2>1, <3>1, <3>2
  <2>2. CASE q # p
    <3>1. refs'[q] = refs[q] /\ users'[q] = users[q] /\ b_emm'[q] = b_emm[q]
      BY <1>1, <2>2 DEF PidsOK
    <3> QED BY <3>1 DEF PidsOK, EmmPidsHeld
  <2> QED BY <2>1, <2>2
<1> QED BY <1>1, <1>2, <1>3, <1>5 DEF PidsOK

LEMMA SamePids ==
  ASSUME PidsOK, UNCHANGED <<cat, refs, b_emm, users>>
  PROVE  PidsOK'
BY DEF PidsOK, EmmPidsHeld

\* A step without a packet gives no EMM.
LEMMA NoPacket ==
  ASSUME step'.packet = {}
  PROVE  EmmGiven'
BY DEF EmmGiven

LEMMA PacketGiven ==
  ASSUME OutputsOK, PidsOK, NEW p \in Pids, NEW S, demux_Handle(p, S)
  PROVE  EmmGiven'
<1>1. /\ step'.packet = {p}
      /\ b_emm[p] => step'.emm = {o \in Valid : ~ output[o].conf.passthrough}
      /\ cat' = cat
  BY DEF demux_Handle, Idle
<1>2. Valid' = Valid /\ \A o \in Valid : output'[o].conf = output[o].conf
  BY PacketOutputs
<1>3. {o \in Valid : ~ output[o].conf.passthrough}
        = {o \in Valid' : ~ output'[o].conf.passthrough}
  BY <1>2
<1>4. cat[p] > 0 => b_emm[p] BY DEF PidsOK, EmmPidsHeld
<1> QED BY <1>1, <1>3, <1>4 DEF EmmGiven

-----------------------------------------------------------------------------
(* The theorems.                                                           *)

LEMMA NextInv == Inv /\ [Next]_vars => Inv'
<1> SUFFICES ASSUME OutputsOK, PidsOK, EmmGiven, [Next]_vars
             PROVE  OutputsOK' /\ PidsOK' /\ EmmGiven'
  <2>1. (Inv <=> OutputsOK /\ PidsOK /\ EmmGiven)' BY InvParts, PTL
  <2> QED BY <2>1, InvParts
<1>1. ASSUME NEW e \in Sections, HandleEIT(e) PROVE OutputsOK' /\ PidsOK' /\ EmmGiven'
  <2>1. step'.packet = {} BY <1>1 DEF HandleEIT, Idle
  <2> QED BY <1>1, <2>1, EitOutputs, SamePids, NoPacket DEF HandleEIT
<1>2. ASSUME NEW next \in Cats, HandleCAT(next) PROVE OutputsOK' /\ PidsOK' /\ EmmGiven'
  BY <1>2, CatPids, NoPacket DEF HandleCAT, Idle, OutputsOK, Valid
<1>3. ASSUME NEW p \in Pids, SetPID(p) PROVE OutputsOK' /\ PidsOK' /\ EmmGiven'
  BY <1>3, SetPids, NoPacket DEF SetPID, Idle, OutputsOK, Valid
<1>4. ASSUME NEW p \in Pids, UnsetPID(p) PROVE OutputsOK' /\ PidsOK' /\ EmmGiven'
  BY <1>4, UnsetPids, NoPacket DEF UnsetPID, Idle, OutputsOK, Valid
<1>5. ASSUME NEW p \in Pids, NEW S, demux_Handle(p, S)
      PROVE  OutputsOK' /\ PidsOK' /\ EmmGiven'
  <2>1. UNCHANGED <<cat, refs, b_emm, users>> BY <1>5 DEF demux_Handle
  <2> QED BY <1>5, <2>1, PacketOutputs, SamePids, PacketGiven
<1>6. ASSUME NEW o \in Slots, NEW c \in Configs, output_Create(o, c) \/ demux_Change(o, c)
      PROVE  OutputsOK' /\ PidsOK' /\ EmmGiven'
  <2>1. UNCHANGED <<cat, refs, b_emm, users>> /\ step' = Idle
    BY <1>6 DEF output_Create, demux_Change
  <2> QED BY <1>6, <2>1, LineOutputs, SamePids, NoPacket DEF Idle
<1>7. ASSUME NEW o \in Slots, output_Close(o) PROVE OutputsOK' /\ PidsOK' /\ EmmGiven'
  <2>1. UNCHANGED <<cat, refs, b_emm, users>> /\ step' = Idle BY <1>7 DEF output_Close
  <2>2. OutputsOK' BY <1>7 DEF output_Close, OutputsOK, Valid
  <2> QED BY <2>1, <2>2, SamePids, NoPacket DEF Idle
<1>8. CASE Tick
  <2>1. UNCHANGED <<cat, refs, b_emm, users>> /\ step' = Idle BY <1>8 DEF Tick
  <2> QED BY <1>8, <2>1, TickOutputs, SamePids, NoPacket DEF Idle
<1>9. CASE UNCHANGED vars
  BY <1>9 DEF vars, OutputsOK, PidsOK, EmmPidsHeld, EmmGiven, Valid
<1> QED BY <1>1, <1>2, <1>3, <1>4, <1>5, <1>6, <1>7, <1>8, <1>9 DEF Next

LEMMA InvHolds == Spec => []Inv
BY InitInv, NextInv, PTL DEF Spec

\* Outputs, references and EMM marks keep their types: no reference count gets
\* below zero, for any CATs and outputs.
THEOREM TypeCorrect == Spec => []TypeOK
<1>1. Inv => TypeOK BY DEF Inv
<1> QED BY <1>1, InvHolds, PTL

\* Whatever CATs come and whoever streams a PID as an ES and stops (HandleCAT,
\* SetPID, UnsetPID), the packets of the EMM PIDs of the current CAT are received
\* and go to all outputs but the passthrough ones.
THEOREM EmmReceived == Spec => []EmmIsReceived
<1>1. Inv => EmmIsReceived
  <2> SUFFICES ASSUME OutputsOK, PidsOK, EmmGiven PROVE EmmIsReceived BY InvParts
  <2> SUFFICES ASSUME NEW p \in Pids, cat[p] > 0
               PROVE  /\ Open(p)
                      /\ b_emm[p]
                      /\ p \in step.packet =>
                           step.emm = {o \in Valid : ~ output[o].conf.passthrough}
    BY DEF EmmIsReceived
  <2>1. /\ refs[p] \in Nat /\ users[p] \in Nat /\ cat[p] \in Nat
        /\ refs[p] >= users[p] + cat[p] /\ b_emm[p]
    BY SizesAssumption DEF PidsOK, EmmPidsHeld
  <2>2. Open(p) BY <2>1 DEF Open
  <2> QED BY <2>1, <2>2 DEF EmmGiven
<1> QED BY <1>1, InvHolds, PTL

\* The EIT packets of an output have consecutive counters, for any sections and
\* sizes of packets, however OutputPSISection, FlushEIT and changes of the line
\* take turns.
THEOREM EitContinuous == Spec => EitCcContinuous
<1> DEFINE A == \A o \in Slots :
                  LET sent == step'.eit[o]
                  IN  output[o] # None /\ sent # <<>> =>
                        /\ output[o].last_cc # -1 => sent[1] = Succ(output[o].last_cc)
                        /\ \A i \in DOMAIN sent : i > 1 => sent[i] = Succ(sent[i - 1])
<1>1. Inv /\ [Next]_vars => [A]_vars
  <2> SUFFICES ASSUME OutputsOK, Next, NEW o \in Slots, output[o] # None,
                      step'.eit[o] # <<>>
               PROVE  LET sent == step'.eit[o]
                      IN  /\ output[o].last_cc # -1 => sent[1] = Succ(output[o].last_cc)
                          /\ \A i \in DOMAIN sent : i > 1 => sent[i] = Succ(sent[i - 1])
    BY InvParts
  <2> DEFINE x == output[o]
             f == FirstCc(x)
  <2>0. /\ x \in Outputs /\ CcFollows(x) /\ f \in Nat /\ f % CcMod = f
    BY OutputType, CountersType DEF OutputsOK, Valid
  <2>1. ASSUME step' = Idle PROVE FALSE BY <2>1 DEF Idle, Nothing
  <2>2. ASSUME NEW e \in Sections, HandleEIT(e)
        PROVE  LET sent == step'.eit[o]
               IN  /\ x.last_cc # -1 => sent[1] = Succ(x.last_cc)
                   /\ \A i \in DOMAIN sent : i > 1 => sent[i] = Succ(sent[i - 1])
    <3> DEFINE n == Leaving(x, e.units)
               sent == step'.eit[o]
    <3>1. n \in Nat BY <2>0, UnitsType, PacketsType
    <3>2. sent = [i \in 1 .. n |-> (f + i - 1) % CcMod]
      BY <2>2 DEF HandleEIT, Idle
    <3> HIDE DEF n, sent, f, x
    <3>3. n > 0
      <4>1. n = 0 => sent = [i \in {} |-> (f + i - 1) % CcMod] BY <3>2
      <4>2. [i \in {} |-> (f + i - 1) % CcMod] = <<>> OBVIOUS
      <4>3. sent # <<>> BY DEF sent
      <4> QED BY <3>1, <4>1, <4>2, <4>3
    <3>4. sent[1] = f
      <4>1. sent[1] = (f + 1 - 1) % CcMod BY <3>1, <3>2, <3>3
      <4>2. f + 1 - 1 = f BY <2>0
      <4> QED BY <2>0, <4>1, <4>2
    <3>5. ASSUME NEW i \in DOMAIN sent, i > 1 PROVE sent[i] = Succ(sent[i - 1])
      <4> DEFINE m == f + (i - 1) - 1
      <4>1. i \in 1 .. n /\ i - 1 \in 1 .. n BY <3>1, <3>2, <3>5
      <4>2. m \in Nat /\ m + 1 = f + i - 1 BY <2>0, <3>5, <4>1
      <4>3. sent[i] = (f + i - 1) % CcMod /\ sent[i - 1] = m % CcMod BY <3>2, <4>1
      <4>4. Succ(m % CcMod) = (m + 1) % CcMod BY <4>2, SuccMod
      <4> QED BY <4>2, <4>3, <4>4
    <3>6. x.last_cc # -1 => f = Succ(x.last_cc) BY <2>0 DEF CcFollows, f
    <3> QED BY <3>4, <3>5, <3>6 DEF sent
  <2>3. ASSUME NEW p \in Pids, NEW S, demux_Handle(p, S)
        PROVE  LET sent == step'.eit[o]
               IN  /\ x.last_cc # -1 => sent[1] = Succ(x.last_cc)
                   /\ \A i \in DOMAIN sent : i > 1 => sent[i] = Succ(sent[i - 1])
    <3> DEFINE sent == step'.eit[o]
    <3>1. sent = IF o \in S /\ Overdue(o) THEN <<x.tail.cc>> ELSE <<>>
      BY <2>3 DEF demux_Handle, Idle
    <3>2. sent = <<x.tail.cc>> /\ x.tail # None BY <3>1 DEF Overdue
    <3> HIDE DEF sent, x
    <3>3. sent[1] = f /\ \A i \in DOMAIN sent : ~ (i > 1)
      BY <3>2 DEF FirstCc
    <3> QED BY <2>0, <3>3 DEF CcFollows, sent
  <2>4. CASE \E next \in Cats : HandleCAT(next) BY <2>1, <2>4 DEF HandleCAT
  <2>5. CASE \E p \in Pids : SetPID(p) \/ UnsetPID(p) BY <2>1, <2>5 DEF SetPID, UnsetPID
  <2>6. CASE \/ \E q \in Slots, c \in Configs : output_Create(q, c) \/ demux_Change(q, c)
             \/ \E q \in Slots : output_Close(q)
    BY <2>1, <2>6 DEF output_Create, demux_Change, output_Close
  <2>7. CASE Tick BY <2>1, <2>7 DEF Tick
  <2> QED BY <2>2, <2>3, <2>4, <2>5, <2>6, <2>7 DEF Next
<1> QED BY <1>1, InvHolds, PTL DEF Spec, EitCcContinuous

-----------------------------------------------------------------------------
(* The numbers of the sections.                                            *)

\* What an output leaves in the section is the network id of the input.
LEMMA OnidLeftIsInput ==
  ASSUME NEW e, NEW x
  PROVE  OnidLeft(x, e, e.onid) = e.onid
BY DEF OnidLeft

\* SendEIT's loop over the outputs: whoever had the section before output o, it
\* finds the network id of the input in it.
LEMMA OnidAtIsInput ==
  ASSUME NEW e, NEW o \in Slots
  PROVE  OnidAt(e)[o] = e.onid
<1> DEFINE Step(at) ==
             [q \in Slots |->
                IF q = 1 THEN e.onid
                ELSE IF Gets(q - 1, e.sid) THEN OnidLeft(output[q - 1], e, at[q - 1])
                     ELSE at[q - 1]]
           all == [q \in Slots |-> e.onid]
           at == CHOOSE f : f = Step(f)
<1>0. Slots \in SUBSET Nat /\ \A q \in Slots : q # 1 => q - 1 \in Slots
  BY SizesAssumption DEF Slots
<1>1. all = Step(all)
  <2>1. \A q \in Slots : all[q] = e.onid OBVIOUS
  <2>2. \A q \in Slots : Step(all)[q] = e.onid BY <1>0, <2>1, OnidLeftIsInput
  <2> QED BY <2>2
<1>2. at = Step(at)
  <2> HIDE DEF all, Step
  <2> QED BY <1>1
<1>3. OnidAt(e) = at BY DEF OnidAt
<1> HIDE DEF at
<1>4. \A q \in Slots : at[q] = e.onid
  <2> DEFINE wrong == {q \in Slots : at[q] # e.onid}
             less == OpToRel(<, Nat)
  <2> SUFFICES ASSUME wrong # {} PROVE FALSE OBVIOUS
  <2>1. IsWellFoundedOn(less, Nat) BY NatLessThanWellFounded
  <2>2. \A m, n \in Nat : m < n => <<m, n>> \in less BY DEF OpToRel
  <2> HIDE DEF less
  <2>3. wrong \subseteq Nat BY <1>0
  <2>4. PICK q \in wrong : \A m \in wrong : ~ (<<m, q>> \in less)
    <3> HIDE DEF wrong
    <3> QED BY <2>1, <2>3, WFMin
  <2>5. q \in Slots /\ at[q] # e.onid OBVIOUS
  <2>6. q # 1
    <3>1. q = 1 => Step(at)[q] = e.onid BY <2>5
    <3> QED BY <1>2, <2>5, <3>1
  <2>7. q - 1 \in Slots BY <1>0, <2>5, <2>6
  <2>8. at[q - 1] = e.onid
    <3>1. q - 1 < q /\ q \in Nat /\ q - 1 \in Nat BY <1>0, <2>5, <2>7
    <3>2. q - 1 \notin wrong BY <2>2, <2>4, <3>1
    <3> QED BY <2>7, <3>2
  <2>9. Step(at)[q] = e.onid BY <2>5, <2>6, <2>8, OnidLeftIsInput
  <2> QED BY <1>2, <2>5, <2>9
<1> QED BY <1>3, <1>4

\* An output gets every section with the numbers of its own line or of the
\* input, for any number of outputs and any lines.
THEOREM EitOwn == Spec => []EitIsOwn
<1>1. Init => EitIsOwn BY DEF Init, EitIsOwn, Idle, Nothing
<1>2. Inv /\ EitIsOwn /\ [Next]_vars => EitIsOwn'
  <2> SUFFICES ASSUME Inv, EitIsOwn, [Next]_vars PROVE EitIsOwn' OBVIOUS
  <2>1. ASSUME step' = Idle PROVE EitIsOwn'
    BY <2>1 DEF EitIsOwn, Idle, Nothing
  <2>2. CASE UNCHANGED vars BY <2>2 DEF vars, EitIsOwn
  <2>3. ASSUME NEW e \in Sections, HandleEIT(e) PROVE EitIsOwn'
    <3> SUFFICES ASSUME NEW o \in Slots, NEW i \in DOMAIN step'.told[o]
                 PROVE  LET c == output'[o].conf
                            t == step'.told[o][i]
                        IN  /\ t.stamped.tsid = c.tsid
                            /\ t.stamped.sid \in {c.new_sid, c.sid} \ {0}
                            /\ t.stamped.onid = IF c.onid # 0 THEN c.onid ELSE t.onid
      BY DEF EitIsOwn
    <3>1. step'.told[o] = IF Gets(o, e.sid)
                          THEN <<[stamped |-> Stamped(o, e), onid |-> e.onid]>> ELSE <<>>
      BY <2>3 DEF HandleEIT, Idle
    <3>2. Gets(o, e.sid) BY <3>1
    <3>3. i = 1 /\ step'.told[o][i] = [stamped |-> Stamped(o, e), onid |-> e.onid]
      BY <3>1, <3>2
    <3>4. output'[o].conf = output[o].conf
      <4>1. output[o] \in Outputs BY <3>2 DEF Inv, TypeOK, Gets, Valid
      <4>2. output'[o] = Packed(output[o], e.units) BY <2>3, <3>2 DEF HandleEIT
      <4>3. Packed(output[o], e.units).conf = output[o].conf BY <4>1 DEF Packed, Outputs
      <4> QED BY <4>2, <4>3
    <3>5. output[o].conf.sid = e.sid /\ e.sid # 0
      BY <2>3, <3>2, ProgramsAssumption DEF Gets, HandleEIT
    <3>6. OnidAt(e)[o] = e.onid BY OnidAtIsInput
    <3> QED BY <3>3, <3>4, <3>5, <3>6 DEF Stamped
  <2>4. ASSUME NEW p \in Pids, NEW S, demux_Handle(p, S) PROVE EitIsOwn'
    <3>1. step'.told = Nothing BY <2>4 DEF demux_Handle, Idle
    <3> QED BY <3>1 DEF EitIsOwn, Nothing
  <2>5. CASE \E next \in Cats : HandleCAT(next) BY <2>1, <2>5 DEF HandleCAT
  <2>6. CASE \E p \in Pids : SetPID(p) \/ UnsetPID(p) BY <2>1, <2>6 DEF SetPID, UnsetPID
  <2>7. CASE \/ \E q \in Slots, c \in Configs : output_Create(q, c) \/ demux_Change(q, c)
             \/ \E q \in Slots : output_Close(q)
    BY <2>1, <2>7 DEF output_Create, demux_Change, output_Close
  <2>8. CASE Tick BY <2>1, <2>8 DEF Tick
  <2> QED BY <2>2, <2>3, <2>4, <2>5, <2>6, <2>7, <2>8 DEF Next
<1> QED BY <1>1, <1>2, InvHolds, PTL DEF Spec
=============================================================================
