----------------------------- MODULE Passthrough -----------------------------
(***************************************************************************)
(* What goes from the input to the outputs besides the programs: the event *)
(* information of a program (HandleEIT, SendEIT), whose sections are       *)
(* numbered anew and packed again for each output, and the packets with    *)
(* entitlements for the CAM (EMM), on the PIDs the CAT lists (HandleCAT).  *)
(*                                                                         *)
(* The last packet of an EIT section waits in the output for the start of  *)
(* the next section, until other packets of the output are more than       *)
(* MAX_EIT_RETENTION younger.                                              *)
(***************************************************************************)
EXTENDS Integers, FiniteSetsExt

CONSTANTS
  MaxOutputs,  \* number of slots of pp_outputs; bounds the model
  Programs,    \* programs of the PAT; number 0 is the NIT's, no program
  Configs,     \* what a configuration line can ask of an output
  Sections,    \* EIT sections that can arrive
  Room,        \* units of a section in a packet
  MinFragment, \* MIN_SECTION_FRAGMENT
  CcMod,       \* modulus of the continuity counter, 16
  Retention,   \* MAX_EIT_RETENTION
  Pids,        \* PIDs an EMM can be on
  Cats,        \* CATs that can arrive: PID -> number of CA descriptors with it
  BudgetMode,  \* b_budget_mode: every packet is received
  MaxRefs,     \* bounds the references of a PID
  MaxUsers,    \* bounds the outputs that stream a PID of Pids
  None         \* nothing: no output, no packet

Slots == 1 .. MaxOutputs
Counters == 0 .. CcMod - 1

\* The table ids that matter here.
EIT_TABLE_ID_PF_ACTUAL == 78
EIT_TABLE_ID_SCHED_ACTUAL == 80 .. 95

AllConfigs ==
  [sid : Nat, new_sid : Nat, tsid : Nat, onid : Nat, dvb : BOOLEAN, epg : BOOLEAN,
   passthrough : BOOLEAN]

ASSUME SizesAssumption ==
  /\ MaxOutputs \in Nat
  /\ Room \in Nat \ {0}
  /\ MinFragment \in Nat
  /\ CcMod \in Nat \ {0}
  /\ Retention \in Nat
  /\ MaxRefs \in Nat
  /\ MaxUsers \in Nat
ASSUME ProgramsAssumption == 0 \notin Programs
ASSUME InputsAssumption ==
  /\ Configs \subseteq AllConfigs
  /\ Sections \subseteq [table : 0 .. 255, sid : Nat, onid : Nat, units : Nat \ {0}]
  /\ Cats \subseteq [Pids -> Nat]
  /\ BudgetMode \in BOOLEAN

\* p_eit_ts_buffer: its counter, i_eit_ts_buffer_offset and the time since i_dts.
Tails == [cc : Counters, offset : Nat, age : 0 .. Retention + 1]

Outputs ==
  [conf : Configs, i_eit_cc : Counters, tail : Tails \cup {None},
   last_cc : Counters \cup {-1}]

ASSUME NoneAssumption == None \notin Tails \cup Outputs

VARIABLES
  output, \* slot -> the part of output_t above, or None without OUTPUT_VALID;
          \* last_cc is history: the counter of the last EIT packet given to it
  cat,    \* pp_current_cat_sections
  refs,   \* i_refcount of p_pids
  b_emm,  \* b_emm of p_pids
  users,  \* history: the references that outputs took
  step    \* what the last step gave to the outputs

vars == <<output, cat, refs, b_emm, users, step>>

NoPids == [p \in Pids |-> 0]
Nothing == [o \in Slots |-> <<>>]
Idle == [packet |-> {}, takers |-> {}, emm |-> {}, eit |-> Nothing, told |-> Nothing]

TypeOK ==
  /\ output \in [Slots -> Outputs \cup {None}]
  /\ cat \in Cats \cup {NoPids}
  /\ refs \in [Pids -> Nat]
  /\ b_emm \in [Pids -> BOOLEAN]
  /\ users \in [Pids -> 0 .. MaxUsers]

Init ==
  /\ output = [o \in Slots |-> None]
  /\ cat = NoPids
  /\ refs = NoPids
  /\ b_emm = [p \in Pids |-> FALSE]
  /\ users = NoPids
  /\ step = Idle

Valid == {o \in Slots : output[o] # None}

-----------------------------------------------------------------------------
(* EIT.                                                                    *)

Succ(c) == (c + 1) % CcMod

handle_epg(t) == t = EIT_TABLE_ID_PF_ACTUAL \/ t \in EIT_TABLE_ID_SCHED_ACTUAL

\* Output o gets the EIT of program s.
Gets(o, s) ==
  /\ o \in Valid
  /\ output[o].conf.sid = s
  /\ ~ output[o].conf.passthrough
  /\ output[o].conf.dvb
  /\ output[o].conf.epg

\* Mutant: the section keeps the network id of the output.
OnidLeft_Changed(x, e, onid) == IF x.conf.onid # 0 THEN x.conf.onid ELSE onid

\* The network id SendEIT leaves in section e after an output it was sent to,
\* when it found onid there.
OnidLeft(x, e, onid) == IF x.conf.onid # 0 THEN e.onid ELSE onid

\* The network id in section e when the turn of output o comes.
OnidAt(e) ==
  LET at[o \in Slots] ==
        IF o = 1 THEN e.onid
        ELSE IF Gets(o - 1, e.sid) THEN OnidLeft(output[o - 1], e, at[o - 1]) ELSE at[o - 1]
  IN  at

\* The numbers of section e as output o gets it.
Stamped(o, e) ==
  LET c == output[o].conf
  IN  [tsid |-> c.tsid,
       sid  |-> IF c.new_sid # 0 THEN c.new_sid ELSE c.sid,
       onid |-> IF c.onid # 0 THEN c.onid ELSE OnidAt(e)[o]]

(***************************************************************************)
(* OutputPSISection for output x and a section of n units: it fills the    *)
(* packet that waits, then packets of its own.  The last one waits if the  *)
(* header of another section fits behind it, and is padded otherwise.      *)
(***************************************************************************)
Offset(x) == IF x.tail = None THEN 0 ELSE x.tail.offset
Full(x, n) == (Offset(x) + n) \div Room
Over(x, n) == (Offset(x) + n) % Room
TailWaits(x, n) == Over(x, n) # 0 /\ Over(x, n) < Room - MinFragment

\* The counter of the first packet with units of the section.
FirstCc(x) == IF x.tail = None THEN x.i_eit_cc ELSE x.tail.cc

Packets(x, n) == Full(x, n) + (IF Over(x, n) = 0 THEN 0 ELSE 1)
Leaving(x, n) == Packets(x, n) - (IF TailWaits(x, n) THEN 1 ELSE 0)

\* Mutant: a packet that is filled up counts once more.
NewPackets_All(x, n) == Packets(x, n)

\* The packets the section takes besides the one that waits.
NewPackets(x, n) == Packets(x, n) - (IF x.tail = None THEN 0 ELSE 1)

\* The age of the packet that waits then.
Age(x, n) == IF Full(x, n) = 0 /\ x.tail # None THEN x.tail.age ELSE 0

Packed(x, n) ==
  [x EXCEPT
     !.i_eit_cc = (@ + NewPackets(x, n)) % CcMod,
     !.tail = IF TailWaits(x, n)
              THEN [cc |-> (FirstCc(x) + Full(x, n)) % CcMod, offset |-> Over(x, n),
                    age |-> Age(x, n)]
              ELSE None,
     !.last_cc = IF Leaving(x, n) = 0 THEN @ ELSE (FirstCc(x) + Leaving(x, n) - 1) % CcMod]

\* An EIT section: HandleEIT drops it without its program, SendEIT gives it to
\* the outputs that stream the program and want it.
HandleEIT(e) ==
  /\ handle_epg(e.table)
  /\ e.sid \in Programs
  /\ output' = [o \in Slots |-> IF Gets(o, e.sid) THEN Packed(output[o], e.units) ELSE output[o]]
  /\ step' = [Idle EXCEPT
       !.eit = [o \in Slots |->
         IF Gets(o, e.sid)
         THEN [i \in 1 .. Leaving(output[o], e.units) |-> (FirstCc(output[o]) + i - 1) % CcMod]
         ELSE <<>>],
       !.told = [o \in Slots |->
         IF Gets(o, e.sid) THEN <<[stamped |-> Stamped(o, e), onid |-> e.onid]>> ELSE <<>>]]
  /\ UNCHANGED <<cat, refs, b_emm, users>>

-----------------------------------------------------------------------------
(* CAT.                                                                    *)

\* A filter is open for the PID.
Open(p) == BudgetMode \/ refs[p] > 0

\* HandleCAT: SetPID_EMM for every descriptor of the new CAT, UnsetPID for those
\* of the old one whose PID is gone.
HandleCAT(next) ==
  /\ next # cat
  /\ cat' = next
  /\ refs' = [p \in Pids |-> refs[p] + next[p] - (IF next[p] = 0 THEN cat[p] ELSE 0)]
  /\ \A p \in Pids : refs'[p] <= MaxRefs
  /\ b_emm' = [p \in Pids |->
       next[p] > 0 \/ (b_emm[p] /\ (cat[p] = 0 \/ BudgetMode \/ refs'[p] > 0))]
  /\ step' = Idle
  /\ UNCHANGED <<output, users>>

\* An output starts to stream the PID.
SetPID(p) ==
  /\ refs[p] < MaxRefs /\ users[p] < MaxUsers
  /\ refs' = [refs EXCEPT ![p] = @ + 1]
  /\ users' = [users EXCEPT ![p] = @ + 1]
  /\ step' = Idle
  /\ UNCHANGED <<output, cat, b_emm>>

\* Mutant: the PID is no EMM PID any more, whoever else uses it.
StillEmm_Never(p) == FALSE

\* After a reference to PID p was dropped it is still an EMM PID.
StillEmm(p) == b_emm[p] /\ (BudgetMode \/ refs[p] > 1)

\* An output stops to stream the PID.
UnsetPID(p) ==
  /\ users[p] > 0
  /\ refs' = [refs EXCEPT ![p] = @ - 1]
  /\ users' = [users EXCEPT ![p] = @ - 1]
  /\ b_emm' = [b_emm EXCEPT ![p] = StillEmm(p)]
  /\ step' = Idle
  /\ UNCHANGED <<output, cat>>

-----------------------------------------------------------------------------
(* Packets, and the outputs.                                               *)

\* Mutant: due at one moment only.
Overdue_Exact(o) == output[o].tail # None /\ output[o].tail.age = Retention

\* The EIT packet of output o that waits is due.
Overdue(o) == output[o].tail # None /\ output[o].tail.age > Retention

\* A packet of PID p, which the outputs of set S stream.  SendEMM gives it to
\* all outputs; FlushEIT sends the EIT packet of those that stream it.
demux_Handle(p, S) ==
  /\ S \subseteq Valid
  /\ Open(p)
  /\ output' = [o \in Slots |->
       IF o \in S /\ Overdue(o)
       THEN [output[o] EXCEPT !.tail = None, !.last_cc = output[o].tail.cc]
       ELSE output[o]]
  /\ step' = [Idle EXCEPT
       !.packet = {p},
       !.takers = S,
       !.emm = IF b_emm[p] THEN {o \in Valid : ~ output[o].conf.passthrough} ELSE {},
       !.eit = [o \in Slots |->
         IF o \in S /\ Overdue(o) THEN <<output[o].tail.cc>> ELSE <<>>]]
  /\ UNCHANGED <<cat, refs, b_emm, users>>

\* A line adds an output; output_Init takes any counter to start with.
output_Create(o, c) ==
  /\ output[o] = None
  /\ \E n \in Counters :
       output' = [output EXCEPT ![o] = [conf |-> c, i_eit_cc |-> n, tail |-> None, last_cc |-> -1]]
  /\ step' = Idle
  /\ UNCHANGED <<cat, refs, b_emm, users>>

\* A line of an output changes.
demux_Change(o, c) ==
  /\ output[o] # None
  /\ c # output[o].conf
  /\ output' = [output EXCEPT ![o].conf = c]
  /\ step' = Idle
  /\ UNCHANGED <<cat, refs, b_emm, users>>

\* The line of an output is gone; the packet that waits is freed.
output_Close(o) ==
  /\ output[o] # None
  /\ output' = [output EXCEPT ![o] = None]
  /\ step' = Idle
  /\ UNCHANGED <<cat, refs, b_emm, users>>

Older(n) == IF n > Retention THEN n ELSE n + 1

Tick ==
  /\ output' = [o \in Slots |-> IF output[o] # None /\ output[o].tail # None
                                THEN [output[o] EXCEPT !.tail.age = Older(@)] ELSE output[o]]
  /\ step' = Idle
  /\ UNCHANGED <<cat, refs, b_emm, users>>

Next ==
  \/ \E e \in Sections : HandleEIT(e)
  \/ \E next \in Cats : HandleCAT(next)
  \/ \E p \in Pids : SetPID(p) \/ UnsetPID(p)
  \/ \E p \in Pids, S \in SUBSET Valid : demux_Handle(p, S)
  \/ \E o \in Slots, c \in Configs : output_Create(o, c) \/ demux_Change(o, c)
  \/ \E o \in Slots : output_Close(o)
  \/ Tick

\* Time passes; that packets keep coming is a hypothesis where it matters.
Spec == Init /\ [][Next]_vars /\ WF_vars(Tick)

-----------------------------------------------------------------------------
(***************************************************************************)
(* The EIT packets an output gets have consecutive counters, however the   *)
(* sections end in them, wait and are flushed, over changes of the line:   *)
(* a receiver never sees a loss that is none.                              *)
(***************************************************************************)
EitCcContinuous ==
  [][\A o \in Slots :
       LET sent == step'.eit[o]
       IN  output[o] # None /\ sent # <<>> =>
             /\ output[o].last_cc # -1 => sent[1] = Succ(output[o].last_cc)
             /\ \A i \in DOMAIN sent : i > 1 => sent[i] = Succ(sent[i - 1])]_vars

(***************************************************************************)
(* SendEIT changes one section in place for output after output.  Each     *)
(* gets it with the numbers of its own line, or else those of the input,   *)
(* never with those of another output.                                     *)
(***************************************************************************)
EitIsOwn ==
  \A o \in Slots : \A i \in DOMAIN step.told[o] :
    LET c == output[o].conf
        t == step.told[o][i]
    IN  /\ t.stamped.tsid = c.tsid
        /\ t.stamped.sid \in {c.new_sid, c.sid} \ {0}
        /\ t.stamped.onid = IF c.onid # 0 THEN c.onid ELSE t.onid

Waits(o, c) == output[o] # None /\ output[o].tail # None /\ output[o].tail.cc = c

(***************************************************************************)
(* An EIT packet that waits leaves, or is freed with its output, as long   *)
(* as the output keeps getting packets, even if no EIT comes any more.     *)
(***************************************************************************)
TailLeaves ==
  \A o \in Slots, c \in Counters :
    []<>(o \in step.takers) => [](Waits(o, c) => <>(~ Waits(o, c)))

(***************************************************************************)
(* The packets of every EMM PID of the current CAT are received and go to  *)
(* all outputs but the passthrough ones, whatever earlier CATs listed and  *)
(* whoever streamed the PID as an ES and stopped.                          *)
(***************************************************************************)
EmmIsReceived ==
  \A p \in Pids :
    cat[p] > 0 =>
      /\ Open(p)
      /\ b_emm[p]
      /\ p \in step.packet => step.emm = {o \in Valid : ~ output[o].conf.passthrough}
=============================================================================
