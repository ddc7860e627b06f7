---------------------------- MODULE DeviceProofs ----------------------------
(***************************************************************************)
(* Theorems about the two parts of the device, proved by TLAPS: CamLink,   *)
(* for any number of slots and sessions and any resources, and Frontend,   *)
(* for all durations.  The two share no state.                             *)
(***************************************************************************)
EXTENDS CamLink, Frontend, FiniteSetTheorems, SequenceTheorems, TLAPS


-----------------------------------------------------------------------------
(***************************************************************************)
(* What a callback has still to do, and in which order: the replies to the *)
(* module come before the end of TPDURecv, which asks for data last; the   *)
(* calls of a poll are among themselves.                                   *)
(***************************************************************************)
\* The members of a sequence.
Members(q) == {q[n] : n \in 1 .. Len(q)}

PollCalls == {"Slot", "Poll"}
EndCalls == {"Write", "SessionOpenCb", "T_RCV"}

\* Call d may come after call c.
Follows(c, d) ==
  /\ c.do \in PollCalls <=> d.do \in PollCalls
  /\ d.do # "Response"
  /\ c.do # "T_RCV"
  /\ c.do \in EndCalls /\ d.do \in EndCalls => c.slot = d.slot
  /\ c.do = "SessionOpenCb" => d.do \notin {"SessionOpenCb", "Write"}
  /\ c.do = "Write" => d.do # "Write"

Ordered(q) == \A m, n \in 1 .. Len(q) : m < n => Follows(q[m], q[n])

\* The call at hand and those after it.
LEMMA Pop ==
  ASSUME NEW q \in Seq(Calls), q # << >>, Ordered(q)
  PROVE  /\ Head(q) \in Calls
         /\ Tail(q) \in Seq(Calls) /\ Ordered(Tail(q))
         /\ Members(q) = {Head(q)} \cup Members(Tail(q))
         /\ \A c \in Members(Tail(q)) : Follows(Head(q), c)
<1> DEFINE t == Tail(q)
           n == Len(t)
<1>1. /\ t \in Seq(Calls) /\ n \in Nat /\ Len(q) = n + 1
      /\ \A k \in 1 .. n : t[k] = q[k + 1]
      /\ Head(q) = q[1] /\ Head(q) \in Calls
  <2>1. /\ t \in Seq(Calls) /\ Len(t) = Len(q) - 1 /\ Len(q) \in Nat
        /\ \A k \in 1 .. Len(t) : t[k] = q[k + 1]
        /\ Head(q) = q[1] /\ Head(q) \in Calls
    BY HeadTailProperties, LenProperties
  <2>2. Len(t) \in Nat BY <2>1, LenProperties
  <2> HIDE DEF t
  <2> QED BY <2>1, <2>2
<1> HIDE DEF t, n
<1>2. 1 \in 1 .. Len(q) /\ \A k \in 1 .. n : k + 1 \in 1 .. Len(q) /\ 1 < k + 1
  BY <1>1
<1>3. Ordered(t)
  <2> SUFFICES ASSUME NEW m \in 1 .. n, NEW k \in 1 .. n, m < k
               PROVE  Follows(t[m], t[k])
    BY DEF Ordered, n
  <2>1. m + 1 < k + 1 OBVIOUS
  <2> QED BY <1>1, <1>2, <2>1 DEF Ordered
<1>4. Members(t) = {q[k + 1] : k \in 1 .. n} BY <1>1 DEF Members, n
<1>5. \A i \in 1 .. Len(q) : i = 1 \/ (i - 1 \in 1 .. n /\ (i - 1) + 1 = i) BY <1>1
<1>6. Members(q) = {q[1]} \cup Members(t) BY <1>2, <1>4, <1>5 DEF Members
<1>7. \A c \in Members(t) : Follows(q[1], c) BY <1>2, <1>4 DEF Ordered
<1> QED BY <1>1, <1>3, <1>6, <1>7 DEF t

LEMMA Joins ==
  ASSUME NEW p \in Seq(Calls), NEW q \in Seq(Calls), Ordered(p), Ordered(q),
         \A c \in Members(p), d \in Members(q) : Follows(c, d)
  PROVE  p \o q \in Seq(Calls) /\ Ordered(p \o q) /\ Members(p \o q) = Members(p) \cup Members(q)
<1> DEFINE n == Len(p)
           m == Len(q)
           u == p \o q
<1>1. /\ u \in Seq(Calls) /\ n \in Nat /\ m \in Nat /\ Len(u) = n + m
      /\ \A i \in 1 .. n + m : u[i] = IF i <= n THEN p[i] ELSE q[i - n]
  BY ConcatProperties, LenProperties
<1> HIDE DEF u
<1>2. /\ \A i \in 1 .. n : p[i] \in Members(p)
      /\ \A i \in 1 .. m : q[i] \in Members(q)
  BY DEF Members
<1>3. /\ \A i, k \in 1 .. n : i < k => Follows(p[i], p[k])
      /\ \A i, k \in 1 .. m : i < k => Follows(q[i], q[k])
  BY DEF Ordered
<1> HIDE DEF n, m
<1>4. Ordered(u)
  <2> SUFFICES ASSUME NEW i \in 1 .. n + m, NEW k \in 1 .. n + m, i < k
               PROVE  Follows(u[i], u[k])
    BY <1>1 DEF Ordered
  <2>1. CASE k <= n
    <3>1. i \in 1 .. n /\ k \in 1 .. n /\ u[i] = p[i] /\ u[k] = p[k] BY <1>1, <2>1
    <3> QED BY <1>3, <3>1
  <2>2. CASE i <= n /\ ~ (k <= n)
    <3>1. i \in 1 .. n /\ k - n \in 1 .. m /\ u[i] = p[i] /\ u[k] = q[k - n] BY <1>1, <2>2
    <3> QED BY <1>2, <3>1
  <2>3. CASE ~ (i <= n)
    <3>1. /\ i - n \in 1 .. m /\ k - n \in 1 .. m /\ i - n < k - n
          /\ u[i] = q[i - n] /\ u[k] = q[k - n]
      BY <1>1, <2>3
    <3> QED BY <1>3, <3>1
  <2> QED BY <1>1, <2>1, <2>2, <2>3
<1>5. Members(u) = {u[i] : i \in 1 .. n + m} BY <1>1 DEF Members
<1>6. \A i \in 1 .. n + m : u[i] \in Members(p) \cup Members(q)
  <2> TAKE i \in 1 .. n + m
  <2>1. i <= n => i \in 1 .. n BY <1>1
  <2>2. ~ (i <= n) => i - n \in 1 .. m BY <1>1
  <2> QED BY <1>1, <1>2, <2>1, <2>2
<1>7. \A i \in 1 .. n : p[i] \in Members(u)
  <2> TAKE i \in 1 .. n
  <2>1. i \in 1 .. n + m /\ u[i] = p[i] BY <1>1
  <2> QED BY <1>5, <2>1
<1>8. \A i \in 1 .. m : q[i] \in Members(u)
  <2> TAKE i \in 1 .. m
  <2>1. n + i \in 1 .. n + m /\ ~ (n + i <= n) /\ (n + i) - n = i BY <1>1
  <2>2. u[n + i] = q[i] BY <1>1, <2>1
  <2> QED BY <1>5, <2>1, <2>2
<1>9. Members(p) = {p[i] : i \in 1 .. n} /\ Members(q) = {q[i] : i \in 1 .. m}
  BY DEF Members, n, m
<1>10. Members(u) \subseteq Members(p) \cup Members(q) BY <1>5, <1>6
<1>11. Members(p) \subseteq Members(u) /\ Members(q) \subseteq Members(u) BY <1>7, <1>8, <1>9
<1> QED BY <1>1, <1>4, <1>10, <1>11 DEF u

LEMMA NoCalls == << >> \in Seq(Calls) /\ Ordered(<< >>) /\ Members(<< >>) = {}
BY DEF Ordered, Members

LEMMA OneCall ==
  ASSUME NEW c \in Calls
  PROVE  <<c>> \in Seq(Calls) /\ Ordered(<<c>>) /\ Members(<<c>>) = {c}
BY DEF Ordered, Members

\* The end of TPDURecv.
EndOf(s, hasData) ==
  {Call("Write", s), Call("SessionOpenCb", s)}
    \cup (IF hasData THEN {Call("T_RCV", s)} ELSE {})

LEMMA TailCallsAre ==
  ASSUME NEW s \in Slots, NEW hasData \in BOOLEAN
  PROVE  /\ TailCalls(s, hasData) \in Seq(Calls) /\ Ordered(TailCalls(s, hasData))
         /\ Members(TailCalls(s, hasData)) = EndOf(s, hasData)
<1> DEFINE w == Call("Write", s)
           o == Call("SessionOpenCb", s)
           r == Call("T_RCV", s)
<1>1. /\ w \in Calls /\ o \in Calls /\ r \in Calls
      /\ w.do = "Write" /\ o.do = "SessionOpenCb" /\ r.do = "T_RCV"
      /\ w.slot = s /\ o.slot = s /\ r.slot = s
  BY DEF Call, Calls
<1> HIDE DEF w, o, r
<1>3. <<w, o>> \in Seq(Calls) /\ Ordered(<<w, o>>) /\ Members(<<w, o>>) = {w, o}
  <2> DEFINE q == <<w, o>>
  <2>1. q \in Seq(Calls) /\ Len(q) = 2 /\ q[1] = w /\ q[2] = o BY <1>1
  <2>2. Follows(w, o) BY <1>1 DEF Follows, PollCalls, EndCalls
  <2> HIDE DEF q
  <2>3. \A i \in 1 .. 2 : i = 1 \/ i = 2 OBVIOUS
  <2>4. Ordered(q) BY <2>1, <2>2, <2>3 DEF Ordered
  <2>5. Members(q) = {w, o} BY <2>1, <2>3 DEF Members
  <2> QED BY <2>1, <2>4, <2>5 DEF q
<1>4. CASE hasData
  <2>1. TailCalls(s, hasData) = <<w, o>> \o <<r>> BY <1>4 DEF TailCalls, w, o, r
  <2>2. Follows(w, r) /\ Follows(o, r) BY <1>1 DEF Follows, PollCalls, EndCalls
  <2> DEFINE p == <<w, o>>
             q == <<r>>
  <2>3. p \in Seq(Calls) /\ Ordered(p) /\ Members(p) = {w, o} BY <1>3
  <2>4. q \in Seq(Calls) /\ Ordered(q) /\ Members(q) = {r} BY <1>1, OneCall
  <2> HIDE DEF p, q
  <2>5. \A c \in Members(p), d \in Members(q) : Follows(c, d) BY <2>2, <2>3, <2>4
  <2>6. p \o q \in Seq(Calls) /\ Ordered(p \o q) /\ Members(p \o q) = Members(p) \cup Members(q)
    BY <2>3, <2>4, <2>5, Joins
  <2>7. TailCalls(s, hasData) = p \o q BY <2>1 DEF p, q
  <2>8. EndOf(s, hasData) = {w, o} \cup {r} BY <1>4 DEF EndOf, w, o, r
  <2> QED BY <2>3, <2>4, <2>6, <2>7, <2>8
<1>5. CASE ~ hasData
  <2>1. TailCalls(s, hasData) = <<w, o>> BY <1>5 DEF TailCalls, w, o
  <2> QED BY <1>3, <1>5, <2>1 DEF EndOf, w, o, r
<1> QED BY <1>4, <1>5

\* All of TPDURecv.
LEMMA RecvCalls ==
  ASSUME NEW s \in Slots, NEW hasData \in BOOLEAN,
         NEW replies \in Seq(Calls), Ordered(replies),
         \A c \in Members(replies) : c.do \in {"APDU", "Response"}
  PROVE  LET q == replies \o TailCalls(s, hasData)
         IN  q \in Seq(Calls) /\ Ordered(q) /\ Members(q) = Members(replies) \cup EndOf(s, hasData)
<1>1. \A c \in Members(replies), d \in EndOf(s, hasData) : Follows(c, d)
  <2> TAKE c \in Members(replies), d \in EndOf(s, hasData)
  <2>1. d.do \in EndCalls BY DEF EndOf, Call, EndCalls
  <2>2. c.do \in {"APDU", "Response"} OBVIOUS
  <2> QED BY <2>1, <2>2 DEF Follows, PollCalls, EndCalls
<1> QED BY <1>1, TailCallsAre, Joins

\* A set of sessions has a sequence, and its APDUs are calls.
LEMMA SetToSeqType ==
  ASSUME NEW C \in SUBSET Sessions
  PROVE  Cardinality(C) \in Nat /\ SetToSeq(C) \in [1 .. Cardinality(C) -> C]
<1>1. IsFiniteSet(Sessions)
  BY FS_Interval, SlotsAssumption DEF Sessions
<1>2. IsFiniteSet(C)
  BY <1>1, FS_Subset
<1>3. Cardinality(C) \in Nat /\ ExistsBijection(1 .. Cardinality(C), C)
  BY <1>2, FS_CardinalityType
<1>4. \E f \in [1 .. Cardinality(C) -> C] : IsInjective(f)
  BY <1>3 DEF ExistsBijection, Bijection, Injection, IsInjective
<1>5. SetToSeq(C) \in [1 .. Cardinality(C) -> C]
  BY <1>4 DEF SetToSeq
<1> QED
  BY <1>3, <1>5

LEMMA ApduType ==
  ASSUME TypeOK, NEW i \in Sessions
  PROVE  APDU(i) \in Calls /\ APDU(i).do = "APDU" /\ APDU(i).slot = i_slot[i]
BY DEF TypeOK, APDU, Calls

LEMMA ApdusType ==
  ASSUME TypeOK, NEW C \in SUBSET Sessions
  PROVE  /\ APDUs(C) \in Seq(Calls) /\ Ordered(APDUs(C))
         /\ \A c \in Members(APDUs(C)) : \E i \in C : c = APDU(i)
<1> DEFINE n == Cardinality(C)
           f == SetToSeq(C)
           q == APDUs(C)
<1>1. n \in Nat /\ \A k \in 1 .. n : f[k] \in C
  BY SetToSeqType
<1>2. q = [k \in 1 .. n |-> APDU(f[k])]
  BY DEF APDUs
<1> HIDE DEF n, f, q
<1>3. \A k \in 1 .. n : q[k] = APDU(f[k]) /\ q[k] \in Calls /\ q[k].do = "APDU"
  BY <1>1, <1>2, ApduType
<1>4. q \in Seq(Calls) /\ Len(q) = n
  BY <1>1, <1>2, <1>3
<1>5. Ordered(q)
  BY <1>3, <1>4 DEF Ordered, Follows, PollCalls, EndCalls
<1>6. \A c \in Members(q) : \E i \in C : c = APDU(i)
  BY <1>1, <1>3, <1>4 DEF Members
<1> QED
  BY <1>4, <1>5, <1>6 DEF q

\* A poll looks at the slots, and then polls them.
LEMMA PollType ==
  ASSUME NEW do \in PollCalls
  PROVE  LET q == [s \in Slots |-> Call(do, s)]
         IN  q \in Seq(Calls) /\ Ordered(q) /\ \A c \in Members(q) : c.do \in PollCalls
<1> DEFINE q == [s \in Slots |-> Call(do, s)]
<1>1. NbSlots \in Nat /\ Slots = 1 .. NbSlots
  BY SlotsAssumption DEF Slots
<1>2. \A s \in Slots : q[s] \in Calls /\ q[s].do = do
  BY DEF Call, Calls, PollCalls
<1>3. q \in Seq(Calls) /\ Len(q) = NbSlots
  BY <1>1, <1>2
<1> HIDE DEF q
<1>4. Ordered(q) /\ \A c \in Members(q) : c.do \in PollCalls
  BY <1>1, <1>2, <1>3 DEF Ordered, Follows, Members, PollCalls, EndCalls
<1> QED
  BY <1>3, <1>4 DEF q

-----------------------------------------------------------------------------
(***************************************************************************)
(* The inductive invariant.  Between two callbacks calls is empty, and the *)
(* parts of it that speak of calls become the properties.                  *)
(***************************************************************************)
OpenedInv == \A i \in opened : resource[i] \notin {"none", "HC"}

\* Only slots with a connection have sessions, TPDUs and calls, but for those
\* of a poll.
ActiveInv ==
  /\ connected \subseteq b_active
  /\ \A s \in Slots \ b_active : p_send[s] = << >>
  /\ \A i \in Sessions : resource[i] # "none" => i_slot[i] \in b_active
  /\ \A c \in Members(calls) : c.do \notin PollCalls => c.slot \in b_active

\* A queue is awaited, or its next TPDU is about to be written.
AwaitedInv ==
  \A s \in Slots \ failed : p_send[s] # << >> =>
    s \in b_expect_answer \/ Call("Write", s) \in Members(calls)

\* T_RCV is never queued, and not asked while a session is to be opened.
AskedInv ==
  \A s \in Slots \ failed :
    /\ "RCV" \notin Members(p_send[s])
    /\ pending[s] # 0 => asked[s] # "RCV"

RcvInv ==
  \A c \in Members(calls) :
    c.do = "T_RCV" /\ (\A d \in Members(calls) : d.do # "SessionOpenCb") => ~ MayOpen(c.slot)

ResponseInv ==
  \A c \in Members(calls) :
    c.do = "Response" =>
      c.slot \in failed \/ (pending[c.slot] = 0 /\ asked[c.slot] = "none")

HalfOpen(i) ==
  \/ pending[i_slot[i]] = i
  \/ i_slot[i] \in failed
  \/ Response(i_slot[i], i) \in Members(calls)

HalfInv == \A i \in Sessions : resource[i] # "none" => i \in opened \/ HalfOpen(i)

LinkInv ==
  /\ Ordered(calls)
  /\ OpenedInv
  /\ ActiveInv
  /\ AwaitedInv
  /\ AskedInv
  /\ RcvInv
  /\ ResponseInv
  /\ HalfInv
  /\ SysFollowsSession

LEMMA InitLink ==
  ASSUME Init
  PROVE  TypeOK /\ LinkInv
<1>1. NbSlots \in Nat \ {0} /\ MaxSessions \in Nat /\ 1 \in Slots /\ 0 \in 0 .. MaxSessions
  BY SlotsAssumption DEF Slots
<1>2. << >> \in Seq(Tags) /\ << >> \in Seq(Calls)
  OBVIOUS
<1>3. TypeOK
  BY <1>1, <1>2 DEF Init, TypeOK
<1>4. Ordered(calls) /\ Members(calls) = {}
  BY NoCalls DEF Init
<1>5. Members(<< >>) = {}
  BY DEF Members
<1>6. SysFollowsSession
  BY DEF Init, SysFollowsSession, HasSys
<1>7. ActiveInv /\ OpenedInv /\ HalfInv
  BY <1>4 DEF Init, ActiveInv, OpenedInv, HalfInv
<1>8. AwaitedInv /\ AskedInv /\ RcvInv /\ ResponseInv
  BY <1>4, <1>5 DEF Init, AwaitedInv, AskedInv, RcvInv, ResponseInv
<1> QED
  BY <1>3, <1>4, <1>6, <1>7, <1>8 DEF LinkInv

-----------------------------------------------------------------------------
(* Sending.                                                                *)

\* What sending one of T to slot s, or its queue, does.
Sent(s, T) ==
  /\ p_send' \in [Slots -> Seq(Tags)]
  /\ asked' \in [Slots -> Tags \cup {"none"}]
  /\ b_expect_answer \subseteq b_expect_answer'
  /\ b_expect_answer' \subseteq b_expect_answer \cup {s}
  /\ failed \subseteq failed'
  /\ failed' \subseteq failed \cup {s}
  /\ s \in b_expect_answer' \cup failed'
  /\ \A t \in Slots \ {s} : p_send'[t] = p_send[t] /\ asked'[t] = asked[t]
  /\ Members(p_send'[s]) \subseteq Members(p_send[s]) \cup T
  /\ asked'[s] \in {asked[s]} \cup Members(p_send[s]) \cup T
  /\ s \notin b_expect_answer /\ p_send[s] = << >> => p_send'[s] = << >>

LEMMA WriteSends ==
  ASSUME TypeOK, NEW s \in Slots, NEW ok \in BOOLEAN,
         NEW q \in Seq(Tags), q # << >>, NEW T \in SUBSET Tags,
         Members(q) \subseteq Members(p_send[s]) \cup T,
         p_send[s] = << >> => Tail(q) = << >>,
         TPDUWrite(s, q, ok)
  PROVE  Sent(s, T) /\ (ok => s \in b_expect_answer') /\ (~ ok => s \in failed')
<1>1. Tail(q) \in Seq(Tags) /\ Head(q) \in Tags /\ Len(Tail(q)) = Len(q) - 1
      /\ \A k \in 1 .. Len(Tail(q)) : Tail(q)[k] = q[k + 1]
      /\ Head(q) = q[1] /\ Len(q) \in Nat
  BY HeadTailProperties, LenProperties
<1>2. Head(q) \in Members(q)
  <2>1. 1 \in 1 .. Len(q) BY EmptySeq, LenProperties
  <2> QED BY <1>1, <2>1 DEF Members
<1>3. Members(Tail(q)) \subseteq Members(q)
  <2>1. \A k \in 1 .. Len(Tail(q)) : k + 1 \in 1 .. Len(q) BY <1>1
  <2> QED BY <1>1, <2>1 DEF Members
<1>4. /\ p_send' = [p_send EXCEPT ![s] = Tail(q)]
      /\ b_expect_answer' = IF ok THEN b_expect_answer \cup {s} ELSE b_expect_answer
      /\ asked' = IF ok THEN [asked EXCEPT ![s] = Head(q)] ELSE asked
      /\ failed' = IF ok THEN failed ELSE failed \cup {s}
  BY DEF TPDUWrite
<1> DEFINE r == Tail(q)
           x == Head(q)
<1>5. r \in Seq(Tags) /\ x \in Tags /\ x \in Members(p_send[s]) \cup T
      /\ Members(r) \subseteq Members(p_send[s]) \cup T
  BY <1>1, <1>2, <1>3
<1> HIDE DEF r, x
<1>6. /\ p_send' = [p_send EXCEPT ![s] = r]
      /\ asked' = IF ok THEN [asked EXCEPT ![s] = x] ELSE asked
  BY <1>4 DEF r, x
<1>7. p_send' \in [Slots -> Seq(Tags)] /\ p_send'[s] = r
      /\ \A t \in Slots \ {s} : p_send'[t] = p_send[t]
  BY <1>5, <1>6 DEF TypeOK
<1>8. asked' \in [Slots -> Tags \cup {"none"}] /\ asked'[s] \in {asked[s], x}
      /\ \A t \in Slots \ {s} : asked'[t] = asked[t]
  BY <1>5, <1>6 DEF TypeOK
<1> QED
  BY <1>4, <1>5, <1>7, <1>8 DEF Sent, r

\* Whatever ok is, the slot waits for an answer or has failed.
LEMMA TpduSends ==
  ASSUME TypeOK, NEW s \in Slots, NEW tag \in Tags, NEW ok \in BOOLEAN, TPDUSend(s, tag, ok)
  PROVE  Sent(s, {tag}) /\ (ok => s \in b_expect_answer') /\ (~ ok => s \in failed')
<1> DEFINE p == p_send[s]
           q == Append(p, tag)
<1>1. p \in Seq(Tags)
  BY DEF TypeOK
<1> HIDE DEF p
<1>2. q \in Seq(Tags) /\ Len(q) = Len(p) + 1 /\ q[Len(p) + 1] = tag /\ Len(p) \in Nat
      /\ \A k \in 1 .. Len(p) : q[k] = p[k]
  BY <1>1, AppendProperties, LenProperties
<1>3. q # << >> /\ (p = << >> => Tail(q) = << >>)
  <2>1. Len(q) # 0 BY <1>2
  <2>2. p = << >> => Len(Tail(q)) = 0 /\ Tail(q) \in Seq(Tags)
    BY <1>2, <2>1, HeadTailProperties
  <2> QED BY <2>1, <2>2, EmptySeq
<1> HIDE DEF q
<1>4. Members(q) \subseteq Members(p) \cup {tag}
  <2>1. \A k \in 1 .. Len(q) : k \in 1 .. Len(p) \/ k = Len(p) + 1 BY <1>2
  <2> QED BY <1>2, <2>1 DEF Members
<1>5. CASE s \in b_expect_answer
  <2>1. /\ ok /\ p_send' = [p_send EXCEPT ![s] = q]
        /\ UNCHANGED <<b_expect_answer, asked, failed>>
    BY <1>5 DEF TPDUSend, q, p
  <2>2. p_send' \in [Slots -> Seq(Tags)] /\ p_send'[s] = q
        /\ \A t \in Slots \ {s} : p_send'[t] = p_send[t]
    BY <1>2, <2>1 DEF TypeOK
  <2>3. asked' \in [Slots -> Tags \cup {"none"}]
    BY <2>1 DEF TypeOK
  <2> QED
    BY <1>4, <1>5, <2>1, <2>2, <2>3 DEF Sent, p
<1>6. CASE s \notin b_expect_answer
  <2>1. TPDUWrite(s, q, ok)
    BY <1>6 DEF TPDUSend, q, p
  <2>2. {tag} \in SUBSET Tags
    OBVIOUS
  <2> QED
    BY <1>2, <1>3, <1>4, <2>1, <2>2, WriteSends DEF p
<1> QED
  BY <1>5, <1>6

\* The call at hand is done, and another one is never in its place.
LEMMA PopCalls ==
  ASSUME TypeOK, LinkInv, calls # << >>, calls' = Tail(calls)
  PROVE  /\ Now \in Calls
         /\ calls' \in Seq(Calls) /\ Ordered(calls')
         /\ Members(calls) = {Now} \cup Members(calls')
         /\ \A c \in Members(calls') : Follows(Now, c)
BY Pop DEF TypeOK, LinkInv, Now

\* SessionOpen remembers the session whose response is on its way.
Remembers(s, i) ==
  \/ UNCHANGED pending /\ s \in failed'
  \/ pending' = [pending EXCEPT ![s] = i] /\ s \in b_expect_answer'

LEMMA SendStep ==
  ASSUME TypeOK, LinkInv, calls # << >>, calls' = Tail(calls),
         NEW T \in SUBSET Tags, Sent(Now.slot, T),
         UNCHANGED <<ready, connected, b_active, init_watcher, sessionVars>>,
         Now.do # "SessionOpenCb",
         Now.slot \in b_active \/ Now.slot \notin b_expect_answer,
         "RCV" \in T => /\ Now.do = "T_RCV" /\ Now.slot \notin b_expect_answer
                        /\ Now.slot \in failed \/ p_send[Now.slot] = << >>,
         IF Now.do = "Response" THEN Remembers(Now.slot, Now.session) ELSE UNCHANGED pending
  PROVE  TypeOK' /\ LinkInv'
<1> DEFINE s == Now.slot
<1>1. /\ Now \in Calls /\ calls' \in Seq(Calls) /\ Ordered(calls')
      /\ Members(calls) = {Now} \cup Members(calls')
      /\ \A c \in Members(calls') : Follows(Now, c)
  BY PopCalls
<1>2. s \in Slots /\ (Now.do = "Response" => Now.session \in Sessions)
  BY <1>1 DEF Calls
<1>3. \A c \in Members(calls') : c.do # "Response" /\ c \in Calls
  <2>1. \A n \in 1 .. Len(calls') : calls'[n] \in Calls BY <1>1, ElementOfSeq
  <2> QED BY <1>1, <2>1 DEF Follows, Members
<1>4. /\ p_send' \in [Slots -> Seq(Tags)]
      /\ asked' \in [Slots -> Tags \cup {"none"}]
      /\ b_expect_answer \subseteq b_expect_answer'
      /\ b_expect_answer' \subseteq b_expect_answer \cup {s}
      /\ failed \subseteq failed'
      /\ failed' \subseteq failed \cup {s}
      /\ s \in b_expect_answer' \cup failed'
      /\ \A t \in Slots \ {s} : p_send'[t] = p_send[t] /\ asked'[t] = asked[t]
      /\ Members(p_send'[s]) \subseteq Members(p_send[s]) \cup T
      /\ asked'[s] \in {asked[s]} \cup Members(p_send[s]) \cup T
      /\ s \notin b_expect_answer /\ p_send[s] = << >> => p_send'[s] = << >>
  BY DEF Sent
<1>5. /\ \A t \in Slots \ {s} : pending'[t] = pending[t]
      /\ pending' \in [Slots -> 0 .. MaxSessions]
      /\ Now.do # "Response" => pending' = pending
      /\ Now.do = "Response" => s \in failed' \/ (pending'[s] = Now.session /\ s \in b_expect_answer')
      /\ pending' # pending => s \in b_expect_answer'
  <2>1. pending \in [Slots -> 0 .. MaxSessions] /\ MaxSessions \in Nat
    BY SlotsAssumption DEF TypeOK
  <2>2. CASE Now.do = "Response"
    <3>1. Now.session \in 0 .. MaxSessions BY <1>2, <2>1, <2>2 DEF Sessions
    <3> QED BY <1>2, <2>1, <2>2, <3>1 DEF Remembers
  <2>3. CASE Now.do # "Response" BY <2>1, <2>3
  <2> QED BY <2>2, <2>3
<1>6. UNCHANGED <<ready, connected, b_active, init_watcher, resource, i_slot, opened, p_sys>>
  BY DEF sessionVars
<1>7. TypeOK'
  BY <1>1, <1>2, <1>4, <1>5, <1>6 DEF TypeOK
<1>8. OpenedInv' /\ SysFollowsSession'
  BY <1>6 DEF LinkInv, OpenedInv, SysFollowsSession, HasSys
<1>9. ActiveInv'
  <2>1. ActiveInv BY DEF LinkInv
  <2>2. \A t \in Slots \ b_active : p_send'[t] = << >>
    BY <1>2, <1>4, <2>1 DEF ActiveInv
  <2> QED BY <1>1, <1>6, <2>1, <2>2 DEF ActiveInv
<1>10. AwaitedInv'
  <2>1. AwaitedInv BY DEF LinkInv
  <2> SUFFICES ASSUME NEW t \in Slots \ failed', p_send'[t] # << >>, t \notin b_expect_answer'
               PROVE  Call("Write", t) \in Members(calls')
    BY DEF AwaitedInv
  <2>2. t # s BY <1>4
  <2>3. Call("Write", t) \in Members(calls) BY <1>4, <2>1, <2>2 DEF AwaitedInv
  <2>4. Now # Call("Write", t) BY <2>2 DEF Call
  <2> QED BY <1>1, <2>3, <2>4
<1>11. AskedInv'
  <2>1. AskedInv /\ ResponseInv /\ RcvInv BY DEF LinkInv
  <2> SUFFICES ASSUME NEW t \in Slots, t \notin failed'
               PROVE  "RCV" \notin Members(p_send'[t]) /\ (pending'[t] # 0 => asked'[t] # "RCV")
    BY DEF AskedInv
  <2>2. "RCV" \notin Members(p_send[t]) /\ (pending[t] # 0 => asked[t] # "RCV")
    BY <1>4, <2>1 DEF AskedInv
  <2>3. CASE t # s
    BY <1>4, <1>5, <2>2, <2>3
  <2>4. CASE t = s /\ "RCV" \notin T
    <3>1. "RCV" \notin Members(p_send'[t]) /\ (asked'[t] = "RCV" => asked[t] = "RCV")
      BY <1>4, <2>2, <2>4
    <3>2. Now.do = "Response" => asked[s] = "none"
      BY <1>1, <1>4, <2>1, <2>4 DEF ResponseInv
    <3> QED BY <1>5, <2>2, <2>4, <3>1, <3>2
  <2>5. CASE t = s /\ "RCV" \in T
    <3>1. /\ Now.do = "T_RCV" /\ s \notin b_expect_answer /\ p_send[s] = << >>
      BY <1>4, <2>5
    <3>2. p_send'[s] = << >> /\ Members(<< >>) = {}
      BY <1>4, <3>1 DEF Members
    <3>3. \A d \in Members(calls) : d.do # "SessionOpenCb"
      BY <1>1, <3>1 DEF Follows
    <3>4. pending[s] = 0
      BY <1>1, <2>1, <3>1, <3>3 DEF RcvInv, MayOpen
    <3>5. pending'[s] = 0
      BY <1>5, <3>1, <3>4
    <3> QED BY <2>5, <3>2, <3>5
  <2> QED BY <2>3, <2>4, <2>5
<1>12. RcvInv'
  <2>1. RcvInv BY DEF LinkInv
  <2> SUFFICES ASSUME NEW c \in Members(calls'), c.do = "T_RCV",
                      \A d \in Members(calls') : d.do # "SessionOpenCb"
               PROVE  c.slot \in b_expect_answer' \/ pending'[c.slot] = 0
    BY DEF RcvInv, MayOpen
  <2>2. c.slot \in b_expect_answer \/ pending[c.slot] = 0
    BY <1>1, <2>1 DEF RcvInv, MayOpen
  <2>3. c.slot \in Slots
    BY <1>3 DEF Calls
  <2> QED BY <1>4, <1>5, <2>2, <2>3
<1>13. ResponseInv'
  BY <1>3 DEF ResponseInv
<1>14. HalfInv'
  <2>1. HalfInv /\ ResponseInv BY DEF LinkInv
  <2> SUFFICES ASSUME NEW i \in Sessions, resource[i] # "none", i \notin opened
               PROVE  HalfOpen(i)'
    BY <1>6 DEF HalfInv
  <2>2. HalfOpen(i) BY <2>1 DEF HalfInv
  <2>3. i_slot[i] \in Slots /\ i # 0 BY SlotsAssumption DEF TypeOK, Sessions
  <2>4. CASE i_slot[i] \in failed BY <1>4, <1>6, <2>4 DEF HalfOpen
  <2>5. CASE pending[i_slot[i]] = i
    <3>1. CASE pending'[i_slot[i]] = pending[i_slot[i]] BY <1>6, <2>5, <3>1 DEF HalfOpen
    <3>2. CASE pending'[i_slot[i]] # pending[i_slot[i]]
      <4>1. i_slot[i] = s /\ Now.do = "Response" BY <1>5, <2>3, <3>2
      <4>2. s \in failed BY <1>1, <2>1, <2>3, <2>5, <4>1 DEF ResponseInv
      <4> QED BY <2>4, <4>1, <4>2
    <3> QED BY <3>1, <3>2
  <2>6. CASE Response(i_slot[i], i) \in Members(calls)
    <3>1. Response(i_slot[i], i).do = "Response" /\ Response(i_slot[i], i).slot = i_slot[i]
          /\ Response(i_slot[i], i).session = i
      BY DEF Response
    <3>2. Now = Response(i_slot[i], i) BY <1>1, <1>3, <2>6, <3>1
    <3>3. i_slot[i] \in failed' \/ pending'[i_slot[i]] = i BY <1>5, <3>1, <3>2
    <3> QED BY <1>6, <3>3 DEF HalfOpen
  <2> QED BY <2>2, <2>4, <2>5, <2>6 DEF HalfOpen
<1> QED
  BY <1>1, <1>7, <1>8, <1>9, <1>10, <1>11, <1>12, <1>13, <1>14 DEF LinkInv

-----------------------------------------------------------------------------
(* Closing sessions and resetting slots.                                   *)

\* What a step leaves of the sessions.
SessionsType ==
  /\ resource' \in [Sessions -> Kinds \cup {"none"}]
  /\ i_slot' \in [Sessions -> Slots]
  /\ opened' \subseteq Sessions
  /\ p_sys' \subseteq Sessions

LEMMA CloseFacts ==
  ASSUME TypeOK, OpenedInv, SysFollowsSession, NEW C \in SUBSET Sessions, CloseSessions(C)
  PROVE  /\ SessionsType /\ OpenedInv' /\ SysFollowsSession'
         /\ opened' = opened \ C
         /\ \A i \in Sessions : resource'[i] # "none" =>
              i \notin C /\ resource[i] # "none" /\ i_slot'[i] = i_slot[i]
<1>1. /\ p_sys' = p_sys \ {i \in C : HasSys(i)}
      /\ resource' = [i \in Sessions |-> IF i \in C THEN "none" ELSE resource[i]]
      /\ opened' = opened \ C
      /\ i_slot' = [i \in Sessions |-> IF i \in C THEN 1 ELSE i_slot[i]]
  BY DEF CloseSessions
<1>2. 1 \in Slots
  BY SlotsAssumption DEF Slots
<1>3. SessionsType
  BY <1>1, <1>2 DEF TypeOK, SessionsType
<1>4. OpenedInv'
  BY <1>1 DEF OpenedInv, TypeOK
<1>5. SysFollowsSession'
  <2>1. \A i \in Sessions : HasSys(i)' <=> i \notin C /\ HasSys(i)
    BY <1>1 DEF HasSys
  <2> QED
    BY <1>1, <2>1 DEF SysFollowsSession
<1>6. \A i \in Sessions : resource'[i] # "none" =>
        i \notin C /\ resource[i] # "none" /\ i_slot'[i] = i_slot[i]
  BY <1>1
<1> QED
  BY <1>1, <1>3, <1>4, <1>5, <1>6

LEMMA ResetStep ==
  ASSUME TypeOK, LinkInv, NEW S \in SUBSET Slots, ResetSlots(S),
         calls' \in Seq(Calls), Ordered(calls'),
         \A c \in Members(calls) \cup Members(calls') : c.do \in PollCalls,
         UNCHANGED pending \/ (S = Slots /\ pending' = [s \in Slots |-> 0])
  PROVE  TypeOK' /\ LinkInv'
<1> DEFINE C == SessionsOf(S)
<1>1. /\ ready' = ready \ S
      /\ connected' = connected \ S
      /\ asked' = [s \in Slots |-> IF s \in S THEN "none" ELSE asked[s]]
      /\ b_active' = b_active \ S
      /\ init_watcher' = init_watcher \cup S
      /\ b_expect_answer' = b_expect_answer \ S
      /\ p_send' = [s \in Slots |-> IF s \in S THEN << >> ELSE p_send[s]]
      /\ failed' = failed \ S
      /\ CloseSessions(C)
  BY DEF ResetSlots
<1>2. C \in SUBSET Sessions /\ \A i \in Sessions \ C : resource[i] # "none" => i_slot[i] \notin S
  BY DEF SessionsOf
<1> HIDE DEF C
<1>3. /\ SessionsType /\ OpenedInv' /\ SysFollowsSession'
      /\ opened' = opened \ C
      /\ \A i \in Sessions : resource'[i] # "none" =>
           i \notin C /\ resource[i] # "none" /\ i_slot'[i] = i_slot[i]
  BY <1>1, <1>2, CloseFacts DEF LinkInv
<1>4. << >> \in Seq(Tags) /\ 0 \in 0 .. MaxSessions /\ Members(<< >>) = {}
  BY SlotsAssumption DEF Members
<1>5. pending' \in [Slots -> 0 .. MaxSessions]
  BY <1>4 DEF TypeOK
<1>6. p_send' \in [Slots -> Seq(Tags)]
  BY <1>1, <1>4 DEF TypeOK
<1>7. asked' \in [Slots -> Tags \cup {"none"}]
  BY <1>1 DEF TypeOK
<1>8. TypeOK'
  BY <1>1, <1>3, <1>5, <1>6, <1>7 DEF TypeOK, SessionsType, OpenedInv
<1>9. ActiveInv'
  <2>1. ActiveInv BY DEF LinkInv
  <2>2. connected' \subseteq b_active' BY <1>1, <2>1 DEF ActiveInv
  <2>3. \A s \in Slots \ b_active' : p_send'[s] = << >> BY <1>1, <2>1 DEF ActiveInv
  <2>4. \A i \in Sessions : resource'[i] # "none" => i_slot'[i] \in b_active'
    BY <1>1, <1>2, <1>3, <2>1 DEF ActiveInv
  <2> QED BY <2>2, <2>3, <2>4 DEF ActiveInv
<1>10. AwaitedInv'
  <2>1. AwaitedInv BY DEF LinkInv
  <2> SUFFICES ASSUME NEW s \in Slots \ failed', p_send'[s] # << >>
               PROVE  s \in b_expect_answer'
    BY DEF AwaitedInv
  <2>2. s \notin S /\ s \notin failed /\ p_send[s] # << >> BY <1>1
  <2>3. Call("Write", s) \notin Members(calls) BY DEF Call, PollCalls
  <2>4. s \in b_expect_answer BY <2>1, <2>2, <2>3 DEF AwaitedInv
  <2> QED BY <1>1, <2>2, <2>4
<1>11. AskedInv'
  <2>1. AskedInv BY DEF LinkInv
  <2> SUFFICES ASSUME NEW s \in Slots, s \notin failed'
               PROVE  "RCV" \notin Members(p_send'[s]) /\ (pending'[s] # 0 => asked'[s] # "RCV")
    BY DEF AskedInv
  <2>2. CASE s \in S BY <1>1, <1>4, <2>2
  <2>3. CASE s \notin S
    <3>1. p_send'[s] = p_send[s] /\ asked'[s] = asked[s] /\ s \notin failed /\ pending' = pending
      BY <1>1, <2>3
    <3> QED BY <2>1, <3>1 DEF AskedInv
  <2> QED BY <2>2, <2>3
<1>12. RcvInv' /\ ResponseInv'
  BY DEF RcvInv, ResponseInv, PollCalls
<1>13. HalfInv'
  <2>1. HalfInv BY DEF LinkInv
  <2> SUFFICES ASSUME NEW i \in Sessions, resource'[i] # "none", i \notin opened'
               PROVE  HalfOpen(i)'
    BY DEF HalfInv
  <2>2. i \notin C /\ i \notin opened /\ resource[i] # "none" /\ i_slot'[i] = i_slot[i]
    BY <1>3
  <2>3. i_slot[i] \notin S /\ i_slot[i] \in Slots BY <1>2, <2>2 DEF TypeOK
  <2>4. pending' = pending BY <2>3
  <2>5. Response(i_slot[i], i) \notin Members(calls) BY DEF Response, PollCalls
  <2>6. pending[i_slot[i]] = i \/ i_slot[i] \in failed
    BY <2>1, <2>2, <2>5 DEF HalfInv, HalfOpen
  <2> QED BY <1>1, <2>2, <2>3, <2>4, <2>6 DEF HalfOpen
<1> QED
  BY <1>3, <1>8, <1>9, <1>10, <1>11, <1>12, <1>13 DEF LinkInv

-----------------------------------------------------------------------------
(* An answer of the module.                                                *)

\* Who has a session after the step: an open one, one that was half open, or
\* one whose response is the first thing to do.
SessionsKept(replies) ==
  \A i \in Sessions : resource'[i] # "none" =>
    /\ i_slot'[i] \in b_active'
    /\ \/ i \in opened'
       \/ resource[i] # "none" /\ i \notin opened /\ i_slot'[i] = i_slot[i]
       \/ Response(i_slot'[i], i) \in Members(replies)

\* What the module is answered.
RepliesType(s, replies) ==
  /\ replies \in Seq(Calls) /\ Ordered(replies)
  /\ \A c \in Members(replies) :
       /\ c.do \in {"APDU", "Response"}
       /\ c.slot \in b_active
       /\ c.do = "Response" => c.slot = s /\ (s \in failed \/ pending[s] = 0)

LEMMA RecvStep ==
  ASSUME TypeOK, LinkInv,
         NEW s \in Slots, NEW tags, NEW hasData \in BOOLEAN, Answered(s, tags),
         NEW replies, RepliesType(s, replies), calls' = replies \o TailCalls(s, hasData),
         connected' \subseteq b_active', b_active' \subseteq Slots, init_watcher' \subseteq Slots,
         b_active \subseteq b_active', s \in b_active',
         SessionsType, OpenedInv', SysFollowsSession', SessionsKept(replies)
  PROVE  TypeOK' /\ LinkInv'
<1>1. /\ calls = << >> /\ s \in ready
      /\ asked' = [asked EXCEPT ![s] = "none"]
      /\ b_expect_answer' = b_expect_answer \ {s}
      /\ UNCHANGED <<ready, p_send, failed, pending>>
  BY DEF Answered, Idle
<1>2. Members(calls) = {}
  BY <1>1 DEF Members
<1>3. /\ calls' \in Seq(Calls) /\ Ordered(calls')
      /\ Members(calls') = Members(replies) \cup EndOf(s, hasData)
  BY RecvCalls DEF RepliesType
<1>4. /\ Call("Write", s) \in Members(calls')
      /\ Call("SessionOpenCb", s) \in Members(calls')
      /\ \A c \in EndOf(s, hasData) : c.slot = s /\ c.do # "Response"
  BY <1>3 DEF EndOf, Call
<1>5. TypeOK'
  BY <1>1, <1>3 DEF TypeOK, SessionsType, OpenedInv
<1>6. ActiveInv'
  BY <1>1, <1>3, <1>4 DEF LinkInv, ActiveInv, RepliesType, SessionsKept
<1>7. AwaitedInv'
  BY <1>1, <1>2, <1>4 DEF LinkInv, AwaitedInv
<1>8. AskedInv'
  BY <1>1 DEF LinkInv, AskedInv, TypeOK
<1>9. RcvInv'
  BY <1>4 DEF RcvInv, Call
<1>10. ResponseInv'
  <2> SUFFICES ASSUME NEW c \in Members(calls'), c.do = "Response"
               PROVE  c.slot \in failed' \/ (pending'[c.slot] = 0 /\ asked'[c.slot] = "none")
    BY DEF ResponseInv
  <2>1. c.slot = s /\ (s \in failed \/ pending[s] = 0)
    BY <1>3, <1>4 DEF RepliesType
  <2> QED BY <1>1, <2>1 DEF TypeOK
<1>11. HalfInv'
  <2> SUFFICES ASSUME NEW i \in Sessions, resource'[i] # "none", i \notin opened'
               PROVE  HalfOpen(i)'
    BY DEF HalfInv
  <2>1. CASE resource[i] # "none" /\ i \notin opened /\ i_slot'[i] = i_slot[i]
    BY <1>1, <1>2, <2>1 DEF LinkInv, HalfInv, HalfOpen
  <2>2. CASE Response(i_slot'[i], i) \in Members(replies)
    BY <1>3, <2>2 DEF HalfOpen, Response
  <2> QED BY <2>1, <2>2 DEF SessionsKept
<1> QED
  BY <1>3, <1>5, <1>6, <1>7, <1>8, <1>9, <1>10, <1>11 DEF LinkInv

\* Nothing happens to the sessions.
LEMMA SessionsSame ==
  ASSUME TypeOK, LinkInv, UNCHANGED sessionVars, b_active \subseteq b_active', NEW replies
  PROVE  SessionsType /\ OpenedInv' /\ SysFollowsSession' /\ SessionsKept(replies)
<1>1. UNCHANGED <<resource, i_slot, opened, p_sys>>
  BY DEF sessionVars
<1>2. SessionsType
  BY <1>1 DEF TypeOK, SessionsType
<1>3. OpenedInv' /\ SysFollowsSession'
  BY <1>1 DEF LinkInv, OpenedInv, SysFollowsSession, HasSys
<1>4. SessionsKept(replies)
  BY <1>1 DEF LinkInv, ActiveInv, SessionsKept
<1> QED
  BY <1>2, <1>3, <1>4

\* Sessions are closed.
LEMMA SessionsClosed ==
  ASSUME TypeOK, LinkInv, UNCHANGED b_active, NEW C \in SUBSET Sessions, CloseSessions(C),
         NEW replies
  PROVE  SessionsType /\ OpenedInv' /\ SysFollowsSession' /\ SessionsKept(replies)
<1>1. /\ SessionsType /\ OpenedInv' /\ SysFollowsSession'
      /\ opened' = opened \ C
      /\ \A i \in Sessions : resource'[i] # "none" =>
           i \notin C /\ resource[i] # "none" /\ i_slot'[i] = i_slot[i]
  BY CloseFacts DEF LinkInv
<1>2. SessionsKept(replies)
  BY <1>1 DEF LinkInv, ActiveInv, SessionsKept
<1> QED
  BY <1>1, <1>2

LEMMA SpduStep ==
  ASSUME TypeOK, LinkInv,
         NEW s \in Slots, NEW hasData \in BOOLEAN, NEW replies, RecvSPDU(s, hasData, replies),
         replies \in Seq(Calls), Ordered(replies),
         \A c \in Members(replies) :
           /\ c.do \in {"APDU", "Response"}
           /\ c.slot = s \/ (c.slot \in b_active /\ c.do = "APDU"),
         SessionsType, OpenedInv', SysFollowsSession', SessionsKept(replies)
  PROVE  TypeOK' /\ LinkInv'
<1>1. /\ Answered(s, {"RCV"}) /\ s \in connected
      /\ calls' = replies \o TailCalls(s, hasData)
      /\ UNCHANGED <<connected, b_active, init_watcher>>
  BY DEF RecvSPDU, slotVars
<1>2. s \in b_active /\ connected \subseteq b_active
  BY <1>1 DEF LinkInv, ActiveInv
<1>3. s \in failed \/ pending[s] = 0
  BY <1>1 DEF LinkInv, AskedInv, Answered
<1>4. RepliesType(s, replies)
  BY <1>2, <1>3 DEF RepliesType
<1>5. b_active \subseteq Slots /\ init_watcher \subseteq Slots
  BY DEF TypeOK
<1> QED
  BY <1>1, <1>2, <1>4, <1>5, RecvStep

LEMMA ResponseType ==
  ASSUME NEW s \in Slots, NEW i \in Sessions
  PROVE  /\ Response(s, i) \in Calls
         /\ Response(s, i).do = "Response" /\ Response(s, i).slot = s
BY DEF Response, Calls

LEMMA SessionOpenStep ==
  ASSUME TypeOK, LinkInv, NEW s \in Slots, NEW hasData \in BOOLEAN, NEW r \in Resources,
         SessionOpen(s, hasData, r)
  PROVE  TypeOK' /\ LinkInv'
<1>1. CASE Free = {}
  <2>1. RecvSPDU(s, hasData, << >>) /\ UNCHANGED sessionVars
    BY <1>1 DEF SessionOpen
  <2>2. UNCHANGED b_active
    BY <2>1 DEF RecvSPDU, slotVars
  <2>3. SessionsType /\ OpenedInv' /\ SysFollowsSession' /\ SessionsKept(<< >>)
    BY <2>1, <2>2, SessionsSame
  <2> QED
    BY <2>1, <2>3, NoCalls, SpduStep
<1>2. CASE Free # {}
  <2>1. PICK i \in Free :
          /\ resource' = [resource EXCEPT ![i] = r]
          /\ i_slot' = [i_slot EXCEPT ![i] = s]
          /\ RecvSPDU(s, hasData, <<Response(s, i)>>)
          /\ UNCHANGED <<opened, p_sys>>
    BY <1>2 DEF SessionOpen
  <2>2. i \in Sessions /\ resource[i] = "none" /\ i \notin opened /\ r \in Kinds
    BY SlotsAssumption DEF Free, TypeOK
  <2>3. UNCHANGED b_active /\ s \in b_active
    BY <2>1 DEF RecvSPDU, slotVars, LinkInv, ActiveInv
  <2>4. SessionsType
    BY <2>1, <2>2 DEF TypeOK, SessionsType
  <2>5. OpenedInv'
    BY <2>1, <2>2 DEF LinkInv, OpenedInv, TypeOK
  <2>6. SysFollowsSession'
    <3>1. \A k \in Sessions : HasSys(k)' <=> HasSys(k)
      BY <2>1, <2>2 DEF HasSys, TypeOK
    <3> QED
      BY <2>1, <3>1 DEF LinkInv, SysFollowsSession
  <2> DEFINE c == Response(s, i)
  <2>7. c \in Calls /\ c.do = "Response" /\ c.slot = s
    BY <2>2, ResponseType
  <2>8. <<c>> \in Seq(Calls) /\ Ordered(<<c>>) /\ Members(<<c>>) = {c}
    BY <2>7, OneCall
  <2>9. SessionsKept(<<c>>)
    <3> SUFFICES ASSUME NEW k \in Sessions, resource'[k] # "none"
                 PROVE  /\ i_slot'[k] \in b_active'
                        /\ \/ k \in opened'
                           \/ resource[k] # "none" /\ k \notin opened /\ i_slot'[k] = i_slot[k]
                           \/ Response(i_slot'[k], k) \in Members(<<c>>)
      BY DEF SessionsKept
    <3>1. CASE k = i
      <4>1. i_slot'[k] = s BY <2>1, <2>2, <3>1 DEF TypeOK
      <4> QED BY <2>3, <2>8, <3>1, <4>1
    <3>2. CASE k # i
      <4>1. i_slot'[k] = i_slot[k] /\ resource[k] # "none" /\ opened' = opened
        BY <2>1, <2>2, <3>2 DEF TypeOK
      <4> QED BY <2>3, <4>1 DEF LinkInv, ActiveInv
    <3> QED BY <3>1, <3>2
  <2> HIDE DEF c
  <2> QED
    BY <2>1, <2>4, <2>5, <2>6, <2>7, <2>8, <2>9, SpduStep DEF c
<1> QED
  BY <1>1, <1>2

\* A session of the module is open, and its slot has a connection.
LEMMA KnownIsActive ==
  ASSUME TypeOK, LinkInv, NEW i \in opened
  PROVE  i \in Sessions /\ i_slot[i] \in b_active
BY DEF TypeOK, LinkInv, OpenedInv, ActiveInv

LEMMA SessionCloseStep ==
  ASSUME TypeOK, LinkInv, NEW s \in Slots, NEW hasData \in BOOLEAN,
         NEW i \in Sessions, NEW request \in BOOLEAN, SessionClose(s, hasData, i, request)
  PROVE  TypeOK' /\ LinkInv'
<1> DEFINE replies == IF request THEN <<APDU(i)>> ELSE << >>
<1>1. i_slot[i] = s /\ CloseSessions({i}) /\ RecvSPDU(s, hasData, replies)
  BY DEF SessionClose, Known
<1>2. UNCHANGED b_active
  BY <1>1 DEF RecvSPDU, slotVars
<1>3. replies \in Seq(Calls) /\ Ordered(replies) /\ Members(replies) \subseteq {APDU(i)}
  BY ApduType, OneCall, NoCalls
<1> HIDE DEF replies
<1>4. \A c \in Members(replies) : c.do = "APDU" /\ c.slot = s
  BY <1>1, <1>3, ApduType
<1>5. SessionsType /\ OpenedInv' /\ SysFollowsSession' /\ SessionsKept(replies)
  BY <1>1, <1>2, SessionsClosed
<1> QED
  BY <1>1, <1>3, <1>4, <1>5, SpduStep

LEMMA HandleStep ==
  ASSUME TypeOK, LinkInv, NEW s \in Slots, NEW hasData \in BOOLEAN,
         NEW i \in Sessions, NEW answers \in BOOLEAN, Handle(s, hasData, i, answers)
  PROVE  TypeOK' /\ LinkInv'
<1> DEFINE replies == IF answers THEN <<APDU(i)>> ELSE << >>
<1>1. i_slot[i] = s /\ UNCHANGED sessionVars /\ RecvSPDU(s, hasData, replies)
  BY DEF Handle, Known
<1>2. UNCHANGED b_active
  BY <1>1 DEF RecvSPDU, slotVars
<1>3. replies \in Seq(Calls) /\ Ordered(replies) /\ Members(replies) \subseteq {APDU(i)}
  BY ApduType, OneCall, NoCalls
<1> HIDE DEF replies
<1>4. \A c \in Members(replies) : c.do = "APDU" /\ c.slot = s
  BY <1>1, <1>3, ApduType
<1>5. SessionsType /\ OpenedInv' /\ SysFollowsSession' /\ SessionsKept(replies)
  BY <1>1, <1>2, SessionsSame
<1> QED
  BY <1>1, <1>3, <1>4, <1>5, SpduStep

LEMMA HandleCaInfoStep ==
  ASSUME TypeOK, LinkInv, NEW s \in Slots, NEW hasData \in BOOLEAN,
         NEW i \in Sessions, NEW C \in SUBSET Sessions, HandleCaInfo(s, hasData, i, C)
  PROVE  TypeOK' /\ LinkInv'
<1>1. /\ C \subseteq opened /\ UNCHANGED sessionVars
      /\ RecvSPDU(s, hasData, APDUs(C))
  BY DEF HandleCaInfo, CaSessions
<1>2. UNCHANGED b_active
  BY <1>1 DEF RecvSPDU, slotVars
<1>3. /\ APDUs(C) \in Seq(Calls) /\ Ordered(APDUs(C))
      /\ \A c \in Members(APDUs(C)) : \E k \in C : c = APDU(k)
  BY ApdusType
<1>4. \A c \in Members(APDUs(C)) : c.do = "APDU" /\ c.slot \in b_active
  BY <1>1, <1>3, ApduType, KnownIsActive
<1>5. SessionsType /\ OpenedInv' /\ SysFollowsSession' /\ SessionsKept(APDUs(C))
  BY <1>1, <1>2, SessionsSame
<1> QED
  BY <1>1, <1>3, <1>4, <1>5, SpduStep

LEMMA TpduRecvStep ==
  ASSUME TypeOK, LinkInv, NEW s \in Slots, NEW hasData \in BOOLEAN, TPDURecv(s, hasData)
  PROVE  TypeOK' /\ LinkInv'
<1>0. /\ RepliesType(s, << >>)
      /\ << >> \o TailCalls(s, hasData) = TailCalls(s, hasData)
  BY NoCalls, TailCallsAre, ConcatEmptySeq DEF RepliesType
<1>1. CASE RecvCtcReply(s, hasData)
  <2>1. /\ Answered(s, {"CREATE_TC"})
        /\ connected' = connected \cup {s} /\ b_active' = b_active \cup {s}
        /\ init_watcher' = init_watcher \ {s}
        /\ calls' = TailCalls(s, hasData)
        /\ UNCHANGED sessionVars
    BY <1>1 DEF RecvCtcReply
  <2>2. SessionsType /\ OpenedInv' /\ SysFollowsSession' /\ SessionsKept(<< >>)
    BY <2>1, SessionsSame
  <2>3. /\ connected' \subseteq b_active' /\ b_active' \subseteq Slots
        /\ init_watcher' \subseteq Slots /\ b_active \subseteq b_active' /\ s \in b_active'
    BY <2>1 DEF TypeOK, LinkInv, ActiveInv
  <2> QED
    BY <1>0, <2>1, <2>2, <2>3, RecvStep
<1>2. CASE RecvNothing(s, hasData)
  <2>1. /\ Answered(s, {"DATA", "RCV"}) /\ s \in connected
        /\ calls' = TailCalls(s, hasData)
        /\ UNCHANGED <<connected, b_active, init_watcher, sessionVars>>
    BY <1>2 DEF RecvNothing, slotVars
  <2>2. SessionsType /\ OpenedInv' /\ SysFollowsSession' /\ SessionsKept(<< >>)
    BY <2>1, SessionsSame
  <2>3. /\ connected' \subseteq b_active' /\ b_active' \subseteq Slots
        /\ init_watcher' \subseteq Slots /\ b_active \subseteq b_active' /\ s \in b_active'
    BY <2>1 DEF TypeOK, LinkInv, ActiveInv
  <2> QED
    BY <1>0, <2>1, <2>2, <2>3, RecvStep
<1> QED
  BY <1>1, <1>2, SessionOpenStep, SessionCloseStep, HandleStep, HandleCaInfoStep DEF TPDURecv

-----------------------------------------------------------------------------
(* The rest of a callback.                                                 *)

\* Nothing is left to do for the call at hand.
LEMMA SkipStep ==
  ASSUME TypeOK, LinkInv, calls # << >>, calls' = Tail(calls),
         UNCHANGED <<ready, connected, slotVars, linkVars, pending, sessionVars>>,
         Now.do # "Response",
         Now.do = "SessionOpenCb" => ~ MayOpen(Now.slot),
         Now.do = "Write" => Now.slot \in b_expect_answer \/ p_send[Now.slot] = << >>
  PROVE  TypeOK' /\ LinkInv'
<1>1. /\ Now \in Calls /\ calls' \in Seq(Calls) /\ Ordered(calls')
      /\ Members(calls) = {Now} \cup Members(calls')
      /\ \A c \in Members(calls') : Follows(Now, c)
  BY PopCalls
<1>2. /\ UNCHANGED <<ready, connected, b_active, init_watcher>>
      /\ UNCHANGED <<b_expect_answer, p_send, asked, failed, pending>>
      /\ UNCHANGED <<resource, i_slot, opened, p_sys>>
  BY DEF slotVars, linkVars, sessionVars
<1>3. TypeOK'
  BY <1>1, <1>2 DEF TypeOK
<1>4. OpenedInv' /\ SysFollowsSession' /\ AskedInv'
  BY <1>2 DEF LinkInv, OpenedInv, SysFollowsSession, HasSys, AskedInv
<1>5. ActiveInv'
  BY <1>1, <1>2 DEF LinkInv, ActiveInv
<1>6. AwaitedInv'
  <2> SUFFICES ASSUME NEW s \in Slots \ failed, p_send[s] # << >>, s \notin b_expect_answer
               PROVE  Call("Write", s) \in Members(calls')
    BY <1>2 DEF AwaitedInv
  <2>1. Call("Write", s) \in Members(calls)
    BY DEF LinkInv, AwaitedInv
  <2>2. Now # Call("Write", s)
    BY DEF Call
  <2> QED BY <1>1, <2>1, <2>2
<1>7. RcvInv'
  <2> SUFFICES ASSUME NEW c \in Members(calls'), c.do = "T_RCV",
                      \A d \in Members(calls') : d.do # "SessionOpenCb"
               PROVE  ~ MayOpen(c.slot)
    BY <1>2 DEF RcvInv, MayOpen
  <2>1. CASE Now.do = "SessionOpenCb"
    BY <1>1, <2>1 DEF Follows, EndCalls
  <2>2. CASE Now.do # "SessionOpenCb"
    BY <1>1, <2>2 DEF LinkInv, RcvInv
  <2> QED BY <2>1, <2>2
<1>8. ResponseInv'
  BY <1>1 DEF ResponseInv, Follows
<1>9. HalfInv'
  <2> SUFFICES ASSUME NEW i \in Sessions, resource[i] # "none", i \notin opened
               PROVE  HalfOpen(i)'
    BY <1>2 DEF HalfInv
  <2>1. HalfOpen(i)
    BY DEF LinkInv, HalfInv
  <2>2. Now # Response(i_slot[i], i)
    BY DEF Response
  <2> QED BY <1>1, <1>2, <2>1, <2>2 DEF HalfOpen
<1> QED
  BY <1>1, <1>3, <1>4, <1>5, <1>6, <1>7, <1>8, <1>9 DEF LinkInv

\* The sessions and the calls after SessionOpenCb took session i.
Opens(i, more) ==
  /\ opened' \in {opened, opened \cup {i}}
  /\ \A k \in Sessions \ {i} : resource'[k] = resource[k] /\ i_slot'[k] = i_slot[k]
  /\ resource'[i] # "none" => i \in opened' /\ i_slot'[i] = i_slot[i] /\ resource[i] # "none"
  /\ more \in Seq(Calls) /\ Ordered(more)
  /\ \A c \in Members(more) : c.do = "APDU" /\ c.slot \in b_active

LEMMA OpenStep ==
  ASSUME TypeOK, LinkInv, At("SessionOpenCb"), MayOpen(Now.slot),
         UNCHANGED <<ready, connected, slotVars, linkVars>>,
         NEW i, i = pending[Now.slot],
         pending' = [pending EXCEPT ![Now.slot] = 0],
         SessionsType, OpenedInv', SysFollowsSession',
         NEW more, Opens(i, more), calls' = more \o Tail(calls)
  PROVE  TypeOK' /\ LinkInv'
<1> DEFINE s == Now.slot
           t == Tail(calls)
<1>1. /\ calls # << >> /\ Now.do = "SessionOpenCb" /\ Now \in Calls /\ s \in Slots
      /\ t \in Seq(Calls) /\ Ordered(t)
      /\ Members(calls) = {Now} \cup Members(t)
      /\ \A c \in Members(t) : Follows(Now, c)
  BY Pop DEF At, Now, TypeOK, LinkInv, Calls
<1> HIDE DEF t
<1>2. /\ UNCHANGED <<ready, connected, b_active, init_watcher>>
      /\ UNCHANGED <<b_expect_answer, p_send, asked, failed>>
  BY DEF slotVars, linkVars
<1>3. /\ i \in Sessions /\ i # 0 /\ pending[s] = i
      /\ pending' \in [Slots -> 0 .. MaxSessions] /\ pending'[s] = 0
      /\ \A r \in Slots \ {s} : pending'[r] = pending[r]
  <2>1. MaxSessions \in Nat /\ pending \in [Slots -> 0 .. MaxSessions]
    BY SlotsAssumption DEF TypeOK
  <2> QED BY <1>1, <2>1 DEF MayOpen, Sessions
<1>4. \A c \in Members(more), d \in Members(t) : Follows(c, d)
  <2> TAKE c \in Members(more), d \in Members(t)
  <2>1. c.do = "APDU" /\ Follows(Now, d)
    BY <1>1 DEF Opens
  <2> QED BY <1>1, <2>1 DEF Follows, PollCalls, EndCalls
<1>5. calls' \in Seq(Calls) /\ Ordered(calls') /\ Members(calls') = Members(more) \cup Members(t)
  BY <1>1, <1>4, Joins DEF Opens, t
<1>6. \A c \in Members(calls') : c.do # "Response"
  BY <1>1, <1>5 DEF Opens, Follows
<1>7. TypeOK'
  BY <1>2, <1>3, <1>5 DEF TypeOK, SessionsType, OpenedInv
<1>8. ActiveInv'
  <2>1. ActiveInv BY DEF LinkInv
  <2>2. \A c \in Members(calls') : c.do \notin PollCalls => c.slot \in b_active
    BY <1>1, <1>5, <2>1 DEF ActiveInv, Opens
  <2>3. \A k \in Sessions : resource'[k] # "none" => i_slot'[k] \in b_active
    <3> SUFFICES ASSUME NEW k \in Sessions, resource'[k] # "none"
                 PROVE  i_slot'[k] = i_slot[k] /\ resource[k] # "none"
      BY <2>1 DEF ActiveInv
    <3> QED BY DEF Opens
  <2> QED BY <1>2, <2>1, <2>2, <2>3 DEF ActiveInv
<1>9. AwaitedInv'
  <2> SUFFICES ASSUME NEW r \in Slots \ failed, p_send[r] # << >>, r \notin b_expect_answer
               PROVE  Call("Write", r) \in Members(calls')
    BY <1>2 DEF AwaitedInv
  <2>1. Call("Write", r) \in Members(calls)
    BY DEF LinkInv, AwaitedInv
  <2>2. Now # Call("Write", r)
    BY <1>1 DEF Call
  <2> QED BY <1>1, <1>5, <2>1, <2>2
<1>10. AskedInv'
  BY <1>2, <1>3 DEF LinkInv, AskedInv
<1>11. RcvInv'
  <2> SUFFICES ASSUME NEW c \in Members(calls'), c.do = "T_RCV"
               PROVE  pending'[c.slot] = 0
    BY DEF RcvInv, MayOpen
  <2>1. c \in Members(t)
    BY <1>5 DEF Opens
  <2>2. c.slot = s
    BY <1>1, <2>1 DEF Follows, EndCalls
  <2> QED BY <1>3, <2>2
<1>12. ResponseInv'
  BY <1>6 DEF ResponseInv
<1>13. HalfInv'
  <2> SUFFICES ASSUME NEW k \in Sessions, resource'[k] # "none", k \notin opened'
               PROVE  HalfOpen(k)'
    BY DEF HalfInv
  <2>1. k # i /\ k \notin opened /\ resource[k] # "none" /\ i_slot'[k] = i_slot[k]
    BY DEF Opens
  <2>2. HalfOpen(k) /\ i_slot[k] \in Slots
    BY <2>1 DEF LinkInv, HalfInv, TypeOK
  <2>3. Response(i_slot[k], k) \notin Members(calls)
    BY <1>1 DEF Response, Follows
  <2> QED BY <1>2, <1>3, <2>1, <2>2, <2>3 DEF HalfOpen
<1> QED
  BY <1>5, <1>7, <1>8, <1>9, <1>10, <1>11, <1>12, <1>13 DEF LinkInv

\* A callback starts with calls of a poll, or with APDUs.
LEMMA StartStep ==
  ASSUME TypeOK, LinkInv, Idle,
         UNCHANGED <<ready, connected, slotVars, linkVars, pending, sessionVars>>,
         calls' \in Seq(Calls), Ordered(calls'),
         \A c \in Members(calls') : c.do \in PollCalls \/ (c.do = "APDU" /\ c.slot \in b_active)
  PROVE  TypeOK' /\ LinkInv'
<1>1. /\ UNCHANGED <<ready, connected, b_active, init_watcher>>
      /\ UNCHANGED <<b_expect_answer, p_send, asked, failed, pending>>
      /\ UNCHANGED <<resource, i_slot, opened, p_sys>>
  BY DEF slotVars, linkVars, sessionVars
<1>2. Members(calls) = {}
  BY NoCalls DEF Idle
<1>3. TypeOK'
  BY <1>1 DEF TypeOK
<1>4. OpenedInv' /\ SysFollowsSession' /\ AskedInv'
  BY <1>1 DEF LinkInv, OpenedInv, SysFollowsSession, HasSys, AskedInv
<1>5. ActiveInv' /\ AwaitedInv' /\ HalfInv'
  BY <1>1, <1>2 DEF LinkInv, ActiveInv, AwaitedInv, HalfInv, HalfOpen
<1>6. RcvInv' /\ ResponseInv'
  BY DEF RcvInv, ResponseInv, PollCalls
<1> QED
  BY <1>3, <1>4, <1>5, <1>6 DEF LinkInv

\* A module comes or leaves, or a timer expires that has nothing to do.
LEMMA QuietStep ==
  ASSUME TypeOK, LinkInv,
         ready' \subseteq Slots, connected' \subseteq connected, init_watcher' \subseteq Slots,
         asked' \in [Slots -> Tags \cup {"none"}],
         \A s \in Slots : asked'[s] \in {asked[s], "none"},
         UNCHANGED <<b_active, b_expect_answer, p_send, failed, pending, sessionVars, calls>>
  PROVE  TypeOK' /\ LinkInv'
<1>1. /\ UNCHANGED <<b_active, b_expect_answer, p_send, failed, pending, calls>>
      /\ UNCHANGED <<resource, i_slot, opened, p_sys>>
  BY DEF sessionVars
<1>2. TypeOK'
  BY <1>1 DEF TypeOK
<1>3. OpenedInv' /\ SysFollowsSession' /\ Ordered(calls')
  BY <1>1 DEF LinkInv, OpenedInv, SysFollowsSession, HasSys
<1>4. ActiveInv' /\ AwaitedInv' /\ HalfInv' /\ RcvInv'
  BY <1>1 DEF LinkInv, ActiveInv, AwaitedInv, HalfInv, HalfOpen, RcvInv, MayOpen
<1>5. AskedInv'
  BY <1>1 DEF LinkInv, AskedInv
<1>6. ResponseInv'
  <2> SUFFICES ASSUME NEW c \in Members(calls), c.do = "Response", c.slot \notin failed
               PROVE  pending[c.slot] = 0 /\ asked'[c.slot] = "none"
    BY <1>1 DEF ResponseInv
  <2>1. pending[c.slot] = 0 /\ asked[c.slot] = "none"
    BY DEF LinkInv, ResponseInv
  <2>2. c.slot \in Slots
    <3>1. c \in Calls BY ElementOfSeq DEF TypeOK, Members
    <3> QED BY <3>1 DEF Calls
  <2> QED BY <2>1, <2>2
<1> QED
  BY <1>2, <1>3, <1>4, <1>5, <1>6 DEF LinkInv

-----------------------------------------------------------------------------
(* One step for each action.                                               *)

LEMMA CallWriteStep ==
  ASSUME TypeOK, LinkInv, CallWrite
  PROVE  TypeOK' /\ LinkInv'
<1>1. /\ calls # << >> /\ Now.do = "Write" /\ calls' = Tail(calls)
      /\ UNCHANGED <<ready, connected, b_active, init_watcher, pending, sessionVars>>
  BY DEF CallWrite, At, Now, Return, slotVars
<1>2. Now \in Calls /\ Now.slot \in Slots /\ Now \in Members(calls)
  BY <1>1, PopCalls DEF Calls
<1>3. CASE Now.slot \notin b_expect_answer /\ p_send[Now.slot] # << >>
  <2>1. PICK ok \in BOOLEAN : TPDUWrite(Now.slot, p_send[Now.slot], ok)
    BY <1>3 DEF CallWrite
  <2>2. p_send[Now.slot] \in Seq(Tags) /\ {} \in SUBSET Tags
    BY <1>2 DEF TypeOK
  <2>3. Sent(Now.slot, {})
    BY <1>2, <1>3, <2>1, <2>2, WriteSends
  <2> QED
    BY <1>1, <1>3, <2>2, <2>3, SendStep
<1>4. CASE ~ (Now.slot \notin b_expect_answer /\ p_send[Now.slot] # << >>)
  <2>1. UNCHANGED linkVars /\ UNCHANGED slotVars
    BY <1>4 DEF CallWrite
  <2> QED
    BY <1>1, <1>4, <2>1, SkipStep
<1> QED
  BY <1>3, <1>4

LEMMA CallSessionOpenCbStep ==
  ASSUME TypeOK, LinkInv, CallSessionOpenCb
  PROVE  TypeOK' /\ LinkInv'
<1>1. /\ At("SessionOpenCb") /\ calls # << >> /\ Now.do = "SessionOpenCb"
      /\ UNCHANGED <<ready, connected, slotVars, linkVars>>
  BY DEF CallSessionOpenCb, At, Now
<1>2. CASE ~ MayOpen(Now.slot)
  <2>1. calls' = Tail(calls) /\ UNCHANGED <<pending, sessionVars>>
    BY <1>2 DEF CallSessionOpenCb, Return
  <2> QED
    BY <1>1, <1>2, <2>1, SkipStep
<1>3. CASE MayOpen(Now.slot)
  <2> DEFINE i == pending[Now.slot]
             t == Tail(calls)
  <2>1. Now.slot \in Slots /\ t \in Seq(Calls)
    BY <1>1, Pop DEF LinkInv, TypeOK, Now, Calls
  <2>2. i \in Sessions
    <3>1. pending[Now.slot] \in 0 .. MaxSessions /\ MaxSessions \in Nat
      BY <2>1, SlotsAssumption DEF TypeOK
    <3> QED BY <1>3, <3>1 DEF MayOpen, Sessions
  <2>3. pending' = [pending EXCEPT ![Now.slot] = 0]
    BY <1>3 DEF CallSessionOpenCb
  <2>4. 1 \in Slots
    BY SlotsAssumption DEF Slots
  <2>5. CASE resource[i] \in {"HC", "none"}
    <3>1. /\ calls' = t
          /\ resource' = [resource EXCEPT ![i] = "none"]
          /\ i_slot' = [i_slot EXCEPT ![i] = 1]
          /\ UNCHANGED <<opened, p_sys>>
      BY <1>3, <2>5 DEF CallSessionOpenCb, Return
    <3>2. i \notin opened
      BY <2>5 DEF LinkInv, OpenedInv
    <3>3. SessionsType /\ OpenedInv'
      BY <2>2, <2>4, <3>1, <3>2 DEF TypeOK, LinkInv, OpenedInv, SessionsType
    <3>4. SysFollowsSession'
      <4>1. \A k \in Sessions : HasSys(k)' <=> HasSys(k)
        BY <2>2, <3>1, <3>2 DEF HasSys, TypeOK
      <4> QED BY <3>1, <4>1 DEF LinkInv, SysFollowsSession
    <3>5. Opens(i, << >>)
      BY <2>2, <3>1, NoCalls DEF Opens, TypeOK
    <3>6. calls' = << >> \o t
      BY <2>1, <3>1, ConcatEmptySeq
    <3> HIDE DEF i
    <3> QED
      BY <1>1, <1>3, <2>3, <3>3, <3>4, <3>5, <3>6, OpenStep DEF i
  <2>6. CASE resource[i] \notin {"HC", "none"}
    <3> DEFINE more == IF resource[i] = "MMI" THEN << >> ELSE <<APDU(i)>>
    <3>1. /\ opened' = opened \cup {i}
          /\ p_sys' = IF resource[i] \in {"CA", "DT", "MMI"} THEN p_sys \cup {i} ELSE p_sys
          /\ calls' = IF resource[i] = "MMI" THEN t ELSE <<APDU(i)>> \o t
          /\ UNCHANGED <<resource, i_slot>>
      BY <1>3, <2>6 DEF CallSessionOpenCb
    <3>2. calls' = more \o t
      BY <2>1, <3>1, ConcatEmptySeq
    <3>3. SessionsType /\ OpenedInv'
      BY <2>2, <2>6, <3>1 DEF TypeOK, LinkInv, OpenedInv, SessionsType
    <3>4. SysFollowsSession'
      <4>1. \A k \in Sessions : HasSys(k)' <=> HasSys(k) \/ (k = i /\ resource[i] \in {"CA", "DT", "MMI"})
        BY <2>2, <3>1 DEF HasSys, TypeOK
      <4> QED BY <2>2, <3>1, <4>1 DEF LinkInv, SysFollowsSession
    <3>5. i_slot[i] \in b_active
      BY <2>2, <2>6 DEF LinkInv, ActiveInv
    <3>6. more \in Seq(Calls) /\ Ordered(more) /\ \A c \in Members(more) : c = APDU(i)
      BY <2>2, ApduType, OneCall, NoCalls
    <3> HIDE DEF more
    <3>7. Opens(i, more)
      BY <2>2, <2>6, <3>1, <3>5, <3>6, ApduType DEF Opens
    <3> HIDE DEF i
    <3> QED
      BY <1>1, <1>3, <2>3, <3>2, <3>3, <3>4, <3>7, OpenStep DEF i
  <2> QED
    BY <2>5, <2>6
<1> QED
  BY <1>2, <1>3

LEMMA CallRcvStep ==
  ASSUME TypeOK, LinkInv, CallRcv
  PROVE  TypeOK' /\ LinkInv'
<1>1. /\ calls # << >> /\ Now.do = "T_RCV" /\ calls' = Tail(calls)
      /\ UNCHANGED <<ready, connected, b_active, init_watcher, pending, sessionVars>>
  BY DEF CallRcv, At, Now, Return, slotVars
<1>2. /\ Now \in Calls /\ Now.slot \in Slots
      /\ Members(calls) = {Now} \cup Members(calls')
      /\ \A c \in Members(calls') : Follows(Now, c)
  BY <1>1, PopCalls DEF Calls
<1>3. CASE Now.slot \in b_expect_answer
  <2>1. UNCHANGED linkVars /\ UNCHANGED slotVars
    BY <1>3 DEF CallRcv
  <2> QED
    BY <1>1, <2>1, SkipStep
<1>4. CASE Now.slot \notin b_expect_answer
  <2>1. PICK ok \in BOOLEAN : TPDUSend(Now.slot, "RCV", ok)
    BY <1>4 DEF CallRcv
  <2>2. "RCV" \in Tags /\ {"RCV"} \in SUBSET Tags
    BY DEF Tags
  <2>3. Sent(Now.slot, {"RCV"})
    BY <1>2, <2>1, <2>2, TpduSends
  <2>4. Call("Write", Now.slot) \notin Members(calls)
    BY <1>1, <1>2 DEF Call, Follows
  <2>5. Now.slot \in failed \/ p_send[Now.slot] = << >>
    BY <1>2, <1>4, <2>4 DEF LinkInv, AwaitedInv
  <2> QED
    BY <1>1, <1>4, <2>2, <2>3, <2>5, SendStep
<1> QED
  BY <1>3, <1>4

LEMMA CallAPDUStep ==
  ASSUME TypeOK, LinkInv, CallAPDU
  PROVE  TypeOK' /\ LinkInv'
<1>1. /\ calls # << >> /\ Now.do = "APDU" /\ calls' = Tail(calls)
      /\ UNCHANGED <<ready, connected, b_active, init_watcher, pending, sessionVars>>
  BY DEF CallAPDU, At, Now, Return, slotVars
<1>2. Now \in Calls /\ Now.slot \in Slots /\ Now \in Members(calls)
  BY <1>1, PopCalls DEF Calls
<1>3. Now.slot \in b_active
  BY <1>1, <1>2 DEF LinkInv, ActiveInv, PollCalls
<1>4. PICK ok \in BOOLEAN : TPDUSend(Now.slot, "DATA", ok)
  BY DEF CallAPDU
<1>5. "DATA" \in Tags /\ {"DATA"} \in SUBSET Tags
  BY DEF Tags
<1>6. Sent(Now.slot, {"DATA"})
  BY <1>2, <1>4, <1>5, TpduSends
<1> QED
  BY <1>1, <1>3, <1>5, <1>6, SendStep

LEMMA CallResponseStep ==
  ASSUME TypeOK, LinkInv, CallResponse
  PROVE  TypeOK' /\ LinkInv'
<1>1. /\ calls # << >> /\ Now.do = "Response" /\ calls' = Tail(calls)
      /\ UNCHANGED <<ready, connected, b_active, init_watcher, sessionVars>>
  BY DEF CallResponse, At, Now, Return, slotVars
<1>2. Now \in Calls /\ Now.slot \in Slots /\ Now \in Members(calls)
  BY <1>1, PopCalls DEF Calls
<1>3. Now.slot \in b_active
  BY <1>1, <1>2 DEF LinkInv, ActiveInv, PollCalls
<1>4. PICK ok \in BOOLEAN :
        /\ TPDUSend(Now.slot, "DATA", ok)
        /\ pending' = IF ok THEN [pending EXCEPT ![Now.slot] = Now.session] ELSE pending
  BY DEF CallResponse
<1>5. "DATA" \in Tags /\ {"DATA"} \in SUBSET Tags
  BY DEF Tags
<1>6. Sent(Now.slot, {"DATA"}) /\ (ok => Now.slot \in b_expect_answer')
      /\ (~ ok => Now.slot \in failed')
  BY <1>2, <1>4, <1>5, TpduSends
<1>7. Remembers(Now.slot, Now.session)
  BY <1>4, <1>6 DEF Remembers
<1> QED
  BY <1>1, <1>3, <1>5, <1>6, <1>7, SendStep

\* A poll looks at one slot, or polls it.
LEMMA CallSlotStep ==
  ASSUME TypeOK, LinkInv, CallSlot
  PROVE  TypeOK' /\ LinkInv'
<1>1. calls # << >> /\ Now.do = "Slot" /\ calls' = Tail(calls) /\ UNCHANGED pending
  BY DEF CallSlot, At, Now, Return
<1>2. /\ Now \in Calls /\ Now.slot \in Slots
      /\ calls' \in Seq(Calls) /\ Ordered(calls')
      /\ Members(calls) = {Now} \cup Members(calls')
      /\ \A c \in Members(calls') : Follows(Now, c)
  BY <1>1, PopCalls DEF Calls
<1>3. CASE Left(Now.slot) /\ ResetSlots({Now.slot})
  <2>1. \A c \in Members(calls) \cup Members(calls') : c.do \in PollCalls
    BY <1>1, <1>2 DEF Follows, PollCalls
  <2>2. {Now.slot} \in SUBSET Slots
    BY <1>2
  <2> QED
    BY <1>1, <1>2, <1>3, <2>1, <2>2, ResetStep
<1>4. CASE /\ Unconnected(Now.slot)
           /\ \E ok \in BOOLEAN : TPDUSend(Now.slot, "CREATE_TC", ok)
           /\ UNCHANGED <<ready, connected, slotVars, sessionVars>>
  <2>1. PICK ok \in BOOLEAN : TPDUSend(Now.slot, "CREATE_TC", ok)
    BY <1>4
  <2>2. "CREATE_TC" \in Tags /\ {"CREATE_TC"} \in SUBSET Tags
    BY DEF Tags
  <2>3. Sent(Now.slot, {"CREATE_TC"})
    BY <1>2, <2>1, <2>2, TpduSends
  <2>4. Now.slot \notin b_expect_answer /\ UNCHANGED <<b_active, init_watcher>>
    BY <1>4 DEF Unconnected, slotVars
  <2> QED
    BY <1>1, <1>4, <2>2, <2>3, <2>4, SendStep
<1>5. CASE UNCHANGED <<ready, connected, slotVars, linkVars, sessionVars>>
  BY <1>1, <1>5, SkipStep
<1> QED
  BY <1>3, <1>4, <1>5 DEF CallSlot

LEMMA CallPollStep ==
  ASSUME TypeOK, LinkInv, CallPoll
  PROVE  TypeOK' /\ LinkInv'
<1>1. calls # << >> /\ Now.do = "Poll" /\ calls' = Tail(calls) /\ UNCHANGED pending
  BY DEF CallPoll, At, Now, Return
<1>2. /\ Now \in Calls /\ Now.slot \in Slots
      /\ calls' \in Seq(Calls) /\ Ordered(calls')
      /\ Members(calls) = {Now} \cup Members(calls')
      /\ \A c \in Members(calls') : Follows(Now, c)
  BY <1>1, PopCalls DEF Calls
<1>3. CASE ResetSlots({Now.slot})
  <2>1. \A c \in Members(calls) \cup Members(calls') : c.do \in PollCalls
    BY <1>1, <1>2 DEF Follows, PollCalls
  <2>2. {Now.slot} \in SUBSET Slots
    BY <1>2
  <2> QED
    BY <1>1, <1>2, <1>3, <2>1, <2>2, ResetStep
<1>4. CASE /\ Now.slot \in b_active \ b_expect_answer
           /\ TPDUSend(Now.slot, "DATA", TRUE)
           /\ UNCHANGED <<ready, connected, slotVars, sessionVars>>
  <2>1. "DATA" \in Tags /\ {"DATA"} \in SUBSET Tags
    BY DEF Tags
  <2>2. Sent(Now.slot, {"DATA"})
    BY <1>2, <1>4, <2>1, TpduSends
  <2>3. UNCHANGED <<b_active, init_watcher>>
    BY <1>4 DEF slotVars
  <2> QED
    BY <1>1, <1>4, <2>1, <2>2, <2>3, SendStep
<1>5. CASE UNCHANGED <<ready, connected, slotVars, linkVars, sessionVars>>
  BY <1>1, <1>5, SkipStep
<1> QED
  BY <1>3, <1>4, <1>5 DEF CallPoll

LEMMA PollStep ==
  ASSUME TypeOK, LinkInv, en50221_Poll
  PROVE  TypeOK' /\ LinkInv'
<1> DEFINE p == [s \in Slots |-> Call("Slot", s)]
           q == [s \in Slots |-> Call("Poll", s)]
<1>1. /\ Idle /\ calls' = p \o q
      /\ UNCHANGED <<ready, connected, slotVars, linkVars, pending, sessionVars>>
  BY DEF en50221_Poll
<1>2. /\ p \in Seq(Calls) /\ Ordered(p) /\ (\A c \in Members(p) : c.do \in PollCalls)
      /\ q \in Seq(Calls) /\ Ordered(q) /\ \A c \in Members(q) : c.do \in PollCalls
  BY PollType DEF PollCalls
<1> HIDE DEF p, q
<1>3. \A c \in Members(p), d \in Members(q) : Follows(c, d)
  BY <1>2 DEF Follows, PollCalls, EndCalls
<1>4. /\ p \o q \in Seq(Calls) /\ Ordered(p \o q)
      /\ Members(p \o q) = Members(p) \cup Members(q)
  BY <1>2, <1>3, Joins
<1>5. \A c \in Members(calls') : c.do \in PollCalls
  BY <1>1, <1>2, <1>4
<1> QED
  BY <1>1, <1>4, <1>5, StartStep

LEMMA NotifyStep ==
  ASSUME TypeOK, LinkInv, NEW C \in SUBSET Sessions, Notify(C)
  PROVE  TypeOK' /\ LinkInv'
<1>1. /\ Idle /\ C \subseteq opened /\ calls' = APDUs(C)
      /\ UNCHANGED <<ready, connected, slotVars, linkVars, pending, sessionVars>>
  BY DEF Notify, CaSessions
<1>2. /\ APDUs(C) \in Seq(Calls) /\ Ordered(APDUs(C))
      /\ \A c \in Members(APDUs(C)) : \E k \in C : c = APDU(k)
  BY ApdusType
<1>3. \A c \in Members(APDUs(C)) : c.do = "APDU" /\ c.slot \in b_active
  BY <1>1, <1>2, ApduType, KnownIsActive
<1> QED
  BY <1>1, <1>2, <1>3, StartStep

LEMMA ResetSlotCbStep ==
  ASSUME TypeOK, LinkInv, NEW s \in Slots, ResetSlotCb(s)
  PROVE  TypeOK' /\ LinkInv'
<1>1. Idle /\ UNCHANGED <<pending, calls>>
  BY DEF ResetSlotCb
<1>2. CASE s \in b_active \/ s \notin b_expect_answer
  <2>1. /\ init_watcher' = init_watcher \ {s}
        /\ UNCHANGED <<ready, connected, b_active, linkVars, sessionVars>>
    BY <1>2 DEF ResetSlotCb
  <2>2. /\ ready' \subseteq Slots /\ connected' = connected /\ init_watcher' \subseteq Slots
        /\ asked' = asked /\ asked \in [Slots -> Tags \cup {"none"}]
        /\ UNCHANGED <<b_active, b_expect_answer, p_send, failed>>
    BY <2>1 DEF TypeOK, linkVars
  <2> QED
    BY <1>1, <2>1, <2>2, QuietStep
<1>3. CASE ~ (s \in b_active \/ s \notin b_expect_answer)
  <2>1. ResetSlots({s}) /\ {s} \in SUBSET Slots
    BY <1>3 DEF ResetSlotCb
  <2>2. calls' = << >> /\ Members(calls) = {} /\ Members(calls') = {}
    BY <1>1, NoCalls DEF Idle
  <2> QED
    BY <1>1, <2>1, <2>2, NoCalls, ResetStep
<1> QED
  BY <1>2, <1>3

LEMMA ResetAllStep ==
  ASSUME TypeOK, LinkInv, en50221_Reset
  PROVE  TypeOK' /\ LinkInv'
<1>1. calls' = << >> /\ Members(calls) = {} /\ Members(calls') = {}
  BY NoCalls DEF en50221_Reset, Idle
<1>2. ResetSlots(Slots) /\ pending' = [s \in Slots |-> 0] /\ Slots \in SUBSET Slots
  BY DEF en50221_Reset
<1> QED
  BY <1>1, <1>2, NoCalls, ResetStep

LEMMA ModuleStep ==
  ASSUME TypeOK, LinkInv, NEW s \in Slots, ModuleLeaves(s) \/ ModuleComes(s)
  PROVE  TypeOK' /\ LinkInv'
<1>1. /\ ready' \subseteq Slots /\ connected' \subseteq connected /\ init_watcher' \subseteq Slots
      /\ UNCHANGED <<b_active, b_expect_answer, p_send, failed, pending, sessionVars, calls>>
  BY DEF ModuleLeaves, ModuleComes, TypeOK, slotVars, linkVars
<1>2. /\ asked' \in [Slots -> Tags \cup {"none"}]
      /\ \A t \in Slots : asked'[t] \in {asked[t], "none"}
  BY DEF ModuleLeaves, ModuleComes, TypeOK, linkVars
<1> QED
  BY <1>1, <1>2, QuietStep

LEMMA NextStep ==
  ASSUME TypeOK, LinkInv, [Next]_vars
  PROVE  TypeOK' /\ LinkInv'
<1>1. CASE Next
  BY <1>1, CallWriteStep, CallSessionOpenCbStep, CallRcvStep, CallAPDUStep, CallResponseStep,
     CallSlotStep, CallPollStep, PollStep, NotifyStep, ResetSlotCbStep, ResetAllStep,
     ModuleStep, TpduRecvStep
     DEF Next, Returns
<1>2. CASE UNCHANGED vars
  <2>1. /\ UNCHANGED <<ready, connected, init_watcher, asked, calls>>
        /\ UNCHANGED <<b_active, b_expect_answer, p_send, failed, pending, sessionVars, calls>>
    BY <1>2 DEF vars, slotVars, linkVars
  <2>2. /\ ready' \subseteq Slots /\ connected' \subseteq connected /\ init_watcher' \subseteq Slots
        /\ asked' \in [Slots -> Tags \cup {"none"}]
        /\ \A t \in Slots : asked'[t] \in {asked[t], "none"}
    BY <2>1 DEF TypeOK
  <2> QED
    BY <2>1, <2>2, QuietStep
<1> QED
  BY <1>1, <1>2

-----------------------------------------------------------------------------
(***************************************************************************)
(* The theorems.  LinkInv is inductive; a property is what is left of it   *)
(* when no callback runs.                                                  *)
(***************************************************************************)
\* LinkInv holds at every step of every callback.
THEOREM LinkKept == Spec => [](TypeOK /\ LinkInv)
<1>1. Init => TypeOK /\ LinkInv
  BY InitLink
<1>2. TypeOK /\ LinkInv /\ [Next]_vars => (TypeOK /\ LinkInv)'
  BY NextStep
<1> QED
  BY <1>1, <1>2, PTL DEF Spec

\* Every variable keeps its type, calls included: what a callback has still
\* to do always names a slot, and a session of the table.
THEOREM LinkTypeCorrect == Spec => []TypeOK
BY LinkKept, PTL

\* TPDUSend, TPDURecv: what is queued on a slot whose writes have succeeded
\* always has an answer to come, between any two callbacks.
THEOREM NothingStranded == Spec => []QueuedIsAwaited
<1>1. TypeOK /\ LinkInv => QueuedIsAwaited
  BY NoCalls DEF LinkInv, AwaitedInv, QueuedIsAwaited, Idle
<1> QED
  BY <1>1, LinkKept, PTL

\* ResetSlot, en50221_Poll: a slot without a connection has no session and
\* nothing to send, though CA PMTs go to the sessions of all slots.
THEOREM SlotsAreClean == Spec => []InactiveIsClean
<1>1. TypeOK /\ LinkInv => InactiveIsClean
  BY DEF LinkInv, ActiveInv, InactiveIsClean, SessionsOf
<1> QED
  BY <1>1, LinkKept, PTL

\* SessionOpen, SessionOpenCb: every session a module was granted is opened
\* or about to be, and a refused one is given back.
THEOREM SessionsNotLost == Spec => []NoneHalfOpen
<1>1. TypeOK /\ LinkInv => NoneHalfOpen
  BY NoCalls DEF LinkInv, HalfInv, HalfOpen, NoneHalfOpen, Idle
<1> QED
  BY <1>1, LinkKept, PTL

\* The *Open and *Close handlers: p_sys lives exactly as long as the session.
THEOREM SysIsFreed == Spec => []SysFollowsSession
<1>1. TypeOK /\ LinkInv => SysFollowsSession
  BY DEF LinkInv
<1> QED
  BY <1>1, LinkKept, PTL

\* SessionOpen: a session waiting for its SessionOpenCb is never overwritten,
\* as long as the writes of its slot succeed.
THEOREM PendingKept == Spec => PendingIsKept
<1> DEFINE Kept == \A s \in Slots \ failed : pending[s] # 0 => pending'[s] \in {0, pending[s]}
<1>1. ASSUME TypeOK, LinkInv, CallResponse
      PROVE  Kept
  <2>1. calls # << >> /\ Now.do = "Response" /\ calls' = Tail(calls)
    BY <1>1 DEF CallResponse, At, Now, Return
  <2>2. Now.slot \in failed \/ pending[Now.slot] = 0
    BY <1>1, <2>1, PopCalls DEF LinkInv, ResponseInv
  <2>3. \A s \in Slots \ {Now.slot} : pending'[s] = pending[s]
    BY <1>1 DEF CallResponse, TypeOK
  <2> QED
    BY <2>2, <2>3
<1>2. ASSUME TypeOK, CallSessionOpenCb
      PROVE  Kept
  BY <1>2 DEF CallSessionOpenCb, TypeOK
<1>3. ASSUME en50221_Reset
      PROVE  Kept
  BY <1>3 DEF en50221_Reset
<1>4. ASSUME CallWrite \/ CallRcv \/ CallAPDU \/ CallSlot \/ CallPoll \/ en50221_Poll
      PROVE  Kept
  BY <1>4 DEF CallWrite, CallRcv, CallAPDU, CallSlot, CallPoll, en50221_Poll
<1>5. ASSUME NEW s \in Slots, NEW hasData \in BOOLEAN, TPDURecv(s, hasData)
      PROVE  Kept
  <2>1. \A tags : Answered(s, tags) => UNCHANGED pending
    BY DEF Answered
  <2>2. \A replies : RecvSPDU(s, hasData, replies) => UNCHANGED pending
    BY <2>1 DEF RecvSPDU
  <2>3. ASSUME NEW r, SessionOpen(s, hasData, r)
        PROVE  UNCHANGED pending
    BY <2>2, <2>3 DEF SessionOpen
  <2>4. ASSUME NEW i, \/ \E request \in BOOLEAN : SessionClose(s, hasData, i, request)
                      \/ \E answers \in BOOLEAN : Handle(s, hasData, i, answers)
                      \/ \E C \in SUBSET Sessions : HandleCaInfo(s, hasData, i, C)
        PROVE  UNCHANGED pending
    BY <2>2, <2>4 DEF SessionClose, Handle, HandleCaInfo
  <2>5. UNCHANGED pending
    BY <1>5, <2>1, <2>3, <2>4 DEF TPDURecv, RecvCtcReply, RecvNothing
  <2> QED
    BY <2>5
<1>6. ASSUME NEW s \in Slots, ResetSlotCb(s) \/ ModuleLeaves(s) \/ ModuleComes(s)
      PROVE  Kept
  BY <1>6 DEF ResetSlotCb, ModuleLeaves, ModuleComes
<1>7. ASSUME NEW C \in SUBSET Sessions, Notify(C)
      PROVE  Kept
  BY <1>7 DEF Notify
<1>8. TypeOK /\ LinkInv /\ [Next]_vars => [Kept]_vars
  BY <1>1, <1>2, <1>3, <1>4, <1>5, <1>6, <1>7 DEF Next, Returns
<1> QED
  BY <1>8, LinkKept, PTL DEF Spec, PendingIsKept

-----------------------------------------------------------------------------
(* The front end.                                                          *)

USE TimersAssumption

LEMMA InitFrontend == FrontendInit => FrontendTypeOK
<1> SUFFICES ASSUME FrontendInit PROVE FrontendTypeOK
  OBVIOUS
<1> USE DEF FrontendInit
<1>1. events \in Seq(Status) /\ i_last_status \in Status
  BY DEF Status
<1>2. lock \in Timer(LockTimeout) /\ mute \in Timer(MuteTimeout)
  BY DEF Timer
<1>3. quit \in Timer(QuitTimeout) /\ i_quit_timeout_duration \in {0, QuitTimeout}
  BY DEF Timer
<1>4. running \in BOOLEAN /\ reading \in BOOLEAN
  OBVIOUS
<1>5. i_tuner_errors \in 0 .. MaxErrors
  BY SMT
<1> QED
  BY <1>1, <1>2, <1>3, <1>4, <1>5 DEF FrontendTypeOK

\* What tuning leaves, in every handler that tunes.
LEMMA TunedType ==
  ASSUME lock \in Timer(LockTimeout), FrontendSet
  PROVE  /\ running' \in BOOLEAN
         /\ lock' \in Timer(LockTimeout)
         /\ i_last_status' = {}
         /\ events' = << >>
         /\ LockTimeout > 0 => lock' = LockTimeout
BY DEF FrontendSet, Timer

LEMMA EventsType ==
  ASSUME events \in Seq(Status)
  PROVE  /\ events # << >> => Head(events) \in Status /\ Tail(events) \in Seq(Status)
         /\ \A status \in Status : Append(events, status) \in Seq(Status)
         /\ << >> \in Seq(Status)
OBVIOUS

LEMMA FrontendTypeStep == FrontendTypeOK /\ [FrontendNext]_frontendVars => FrontendTypeOK'
<1> SUFFICES ASSUME FrontendTypeOK, [FrontendNext]_frontendVars PROVE FrontendTypeOK'
  OBVIOUS
<1> USE DEF FrontendTypeOK, quitVars
<1>1. ASSUME NEW status \in Status, Report(status) PROVE FrontendTypeOK'
  BY <1>1, EventsType DEF Report, timerVars, quitVars
<1>2. ASSUME FrontendRead PROVE FrontendTypeOK'
  <2> DEFINE handed == \/ "LOCK" \in Head(events) \ i_last_status
                       \/ "LOCK" \in i_last_status \ Head(events) /\ LockTimeout > 0
  <2>1. /\ mute' \in Timer(MuteTimeout)
        /\ reading' \in BOOLEAN
        /\ UNCHANGED <<quitVars, i_tuner_errors>>
    BY <1>2 DEF FrontendRead, Timer
  <2>2. CASE "REINIT" \in Head(events) \ i_last_status
    <3>1. FrontendSet
      BY <1>2, <2>2 DEF FrontendRead
    <3> QED
      BY <2>1, <3>1, TunedType, EventsType DEF Status
  <2>3. CASE "REINIT" \notin Head(events) \ i_last_status
    <3>1. /\ lock' \in {lock, Off}
          /\ i_last_status' = Head(events)
          /\ events' = Tail(events)
          /\ running' = running
          /\ events # << >>
      BY <1>2, <2>3 DEF FrontendRead
    <3> QED
      BY <2>1, <3>1, EventsType DEF Timer
  <2> QED
    BY <2>2, <2>3
<1>3. ASSUME NEW error \in BOOLEAN, NEW calm \in BOOLEAN, DVRRead(error, calm) PROVE FrontendTypeOK'
  <2>1. /\ mute' \in Timer(MuteTimeout)
        /\ i_tuner_errors' \in 0 .. MaxErrors
        /\ UNCHANGED <<quitVars, reading>>
    BY <1>3 DEF DVRRead, Timer
  <2>2. FrontendSet \/ NoFrontendSet
    BY <1>3 DEF DVRRead
  <2> QED
    BY <2>1, <2>2, TunedType, EventsType DEF NoFrontendSet, Status
<1>4. ASSUME DVRMuteCb PROVE FrontendTypeOK'
  <2>1. FrontendSet \/ NoFrontendSet
    BY <1>4 DEF DVRMuteCb
  <2> QED
    BY <1>4, <2>1, TunedType, EventsType DEF DVRMuteCb, NoFrontendSet, Status, Timer
<1>5. ASSUME FrontendLockCb PROVE FrontendTypeOK'
  <2>1. FrontendSet \/ (running' = FALSE /\ UNCHANGED <<lock, i_last_status, events>>)
    BY <1>5 DEF FrontendLockCb
  <2> QED
    BY <1>5, <2>1, TunedType, EventsType DEF FrontendLockCb, Status
<1>6. ASSUME QuitCb PROVE FrontendTypeOK'
  BY <1>6 DEF QuitCb, statusVars, Timer
<1>7. ASSUME Tick PROVE FrontendTypeOK'
  <2>1. ASSUME NEW duration \in Nat, NEW timer \in Timer(duration), timer # 0
        PROVE  Less(timer) \in Timer(duration)
    BY <2>1 DEF Less, Timer
  <2>2. lock # 0 /\ mute # 0 /\ quit # 0
    BY <1>7 DEF Tick, Expired
  <2> QED
    BY <1>7, <2>1, <2>2 DEF Tick, statusVars
<1>8. CASE UNCHANGED frontendVars
  BY <1>8 DEF frontendVars, timerVars, quitVars, statusVars
<1> QED
  BY <1>1, <1>2, <1>3, <1>4, <1>5, <1>6, <1>7, <1>8 DEF FrontendNext

\* The timers, the status and the error count keep their types: a count of
\* transport errors in particular never passes MAX_ERRORS.
THEOREM FrontendTypeCorrect == FrontendSpec => []FrontendTypeOK
BY InitFrontend, FrontendTypeStep, PTL DEF FrontendSpec

-----------------------------------------------------------------------------
(***************************************************************************)
(* LockedIsWatched is inductive with the fact that a front end which is    *)
(* not driven reports nothing.                                             *)
(***************************************************************************)
LockInv ==
  /\ LockedIsWatched
  /\ ~ Tuned => i_last_status = {} /\ events = << >>

LEMMA InitLock == FrontendInit => LockInv
BY DEF FrontendInit, LockInv, LockedIsWatched

LEMMA Durations == MuteTimeout # Off /\ LockTimeout # Off
OBVIOUS

LEMMA LockStep == FrontendTypeOK /\ LockInv /\ [FrontendNext]_frontendVars => LockInv'
<1> SUFFICES ASSUME FrontendTypeOK, LockInv, [FrontendNext]_frontendVars PROVE LockInv'
  OBVIOUS
<1> USE DEF LockInv, LockedIsWatched
<1>1. FrontendSet => LockInv'
  BY DEF FrontendSet
<1>2. ASSUME NEW status \in Status, Report(status) PROVE LockInv'
  BY <1>2 DEF Report, timerVars, quitVars
<1>3. ASSUME FrontendRead PROVE LockInv'
  <2>1. CASE "REINIT" \in Head(events) \ i_last_status
    BY <1>1, <1>3, <2>1 DEF FrontendRead
  <2>2. CASE "REINIT" \notin Head(events) \ i_last_status
    <3>1. i_last_status' = Head(events) /\ events # << >>
      BY <1>3, <2>2 DEF FrontendRead
    <3>2. CASE "LOCK" \in Head(events) /\ "LOCK" \notin i_last_status
      <4>1. mute' = MuteTimeout /\ lock' = Off
        BY <1>3, <2>2, <3>2 DEF FrontendRead
      <4> QED
        BY <3>1, <4>1, Durations
    <3>3. CASE "LOCK" \in Head(events) /\ "LOCK" \in i_last_status
      <4>1. mute' = mute /\ lock' = lock
        BY <1>3, <2>2, <3>3 DEF FrontendRead
      <4> QED
        BY <3>1, <3>3, <4>1
    <3>4. CASE "LOCK" \notin Head(events)
      BY <3>1, <3>4
    <3> QED
      BY <3>2, <3>3, <3>4
  <2> QED
    BY <2>1, <2>2
<1>4. ASSUME NEW error \in BOOLEAN, NEW calm \in BOOLEAN, DVRRead(error, calm)
      PROVE  LockInv'
  <2>1. FrontendSet \/ NoFrontendSet
    BY <1>4 DEF DVRRead
  <2> QED
    BY <1>1, <1>4, <2>1, Durations DEF DVRRead, NoFrontendSet
<1>5. ASSUME DVRMuteCb PROVE LockInv'
  BY <1>1, <1>5 DEF DVRMuteCb, NoFrontendSet
<1>6. ASSUME FrontendLockCb PROVE LockInv'
  BY <1>1, <1>6 DEF FrontendLockCb
<1>7. ASSUME QuitCb PROVE LockInv'
  BY <1>7 DEF QuitCb, statusVars
<1>8. ASSUME Tick PROVE LockInv'
  <2>1. ASSUME NEW timer \in Timer(MuteTimeout), timer # Off PROVE Less(timer) # Off
    BY <2>1 DEF Timer, Less
  <2> QED
    BY <1>8, <2>1 DEF Tick, Less, FrontendTypeOK, statusVars
<1>9. CASE UNCHANGED frontendVars
  BY <1>9 DEF frontendVars, timerVars, quitVars, statusVars
<1> QED
  BY <1>2, <1>3, <1>4, <1>5, <1>6, <1>7, <1>8, <1>9 DEF FrontendNext

\* A front end taken for locked has its packets watched and no lock timer.
THEOREM LockWatched == FrontendSpec => []LockedIsWatched
<1>1. FrontendInit => FrontendTypeOK /\ LockInv
  BY InitFrontend, InitLock
<1>2. FrontendTypeOK /\ LockInv /\ [FrontendNext]_frontendVars => (FrontendTypeOK /\ LockInv)'
  BY FrontendTypeStep, LockStep
<1>3. LockInv => LockedIsWatched
  BY DEF LockInv
<1> QED
  BY <1>1, <1>2, <1>3, PTL DEF FrontendSpec

-----------------------------------------------------------------------------
\* Whatever stops the last running timer starts another one.
LEMMA SupervisedStep == FrontendTypeOK /\ [FrontendNext]_frontendVars => SupervisionStays
<1> SUFFICES ASSUME FrontendTypeOK, [FrontendNext]_frontendVars, Tuned, LockTimeout > 0, Supervised
             PROVE  Supervised'
  BY DEF SupervisionStays
<1> USE DEF Supervised
<1>1. FrontendSet => Supervised'
  BY Durations DEF FrontendSet
<1>2. ASSUME NEW status \in Status, Report(status) PROVE Supervised'
  BY <1>2 DEF Report, timerVars, quitVars
<1>3. ASSUME FrontendRead PROVE Supervised'
  <2>1. FrontendSet \/ mute' = MuteTimeout \/ UNCHANGED <<lock, mute>>
    BY <1>3 DEF FrontendRead
  <2> QED
    BY <1>1, <2>1, Durations
<1>4. ASSUME NEW error \in BOOLEAN, NEW calm \in BOOLEAN, DVRRead(error, calm)
      PROVE  Supervised'
  BY <1>4, Durations DEF DVRRead
<1>5. ASSUME DVRMuteCb PROVE Supervised'
  BY <1>1, <1>5 DEF DVRMuteCb
<1>6. ASSUME FrontendLockCb PROVE Supervised'
  BY <1>1, <1>6 DEF FrontendLockCb
<1>7. ASSUME QuitCb PROVE Supervised'
  BY <1>7 DEF QuitCb
<1>8. ASSUME Tick PROVE Supervised'
  <2>1. ASSUME NEW duration \in Nat, NEW timer \in Timer(duration), timer # Off
        PROVE  Less(timer) # Off
    BY <2>1 DEF Timer, Less
  <2> QED
    BY <1>8, <2>1 DEF Tick, FrontendTypeOK
<1>9. CASE UNCHANGED frontendVars
  BY <1>9 DEF frontendVars, timerVars, quitVars
<1> QED
  BY <1>2, <1>3, <1>4, <1>5, <1>6, <1>7, <1>8, <1>9 DEF FrontendNext

\* Once the front end is supervised, no callback leaves it without a timer.
THEOREM StaysSupervised == FrontendSpec => SupervisionKept
<1>1. FrontendTypeOK /\ [FrontendNext]_frontendVars => [SupervisionStays]_frontendVars
  BY SupervisedStep
<1> QED
  BY <1>1, FrontendTypeCorrect, PTL DEF FrontendSpec, SupervisionKept

=============================================================================
