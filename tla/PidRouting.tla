----------------------------- MODULE PidRouting -----------------------------
(***************************************************************************)
(* The PID side of cLdvbdemux: which elementary PIDs go to which outputs,  *)
(* which PIDs the demux keeps a reference on, which hardware filters are   *)
(* open, and which programs the conditional access module descrambles.     *)
(*                                                                         *)
(* The program is one libev loop, so a callback runs to its end.  The two  *)
(* callbacks that loop over several programs or outputs are cut into their *)
(* iterations, and phase says which of them is running:                    *)
(*   "pat"    HandlePAT compares the programs of the new PAT one by one;   *)
(*   "read"   config_ReadFile applies the lines of the file one by one;    *)
(*   "close"  config_ReadFile closes the outputs the file dropped.         *)
(* In the phase "idle" the loop waits for the next callback.               *)
(***************************************************************************)
EXTENDS Integers, FiniteSets

CONSTANTS
  MaxOutputs,  \* number of slots of pp_outputs; bounds the model
  Addrs,       \* destination addresses a configuration line can name
  Sids,        \* program numbers, 0 excluded
  Pids,        \* PIDs
  TablePids,   \* PIDs of the tables demux_Open always parses (PAT, NIT, SDT, EIT)
  TimePids,    \* PIDs demux_Open opens without parsing sections (RST, TDT)
  TSIDs,       \* transport stream ids a PAT can carry
  PatTables,   \* program -> PMT PID maps the PATs that can arrive hold
  PmtTables,   \* contents of the PMT sections that can arrive
  Configs,     \* what a configuration line can ask of an output
  NoSid,       \* program number 0: no program
  NoPid,       \* no PID: PADDING_PID as a PCR PID, 0 as i_pcr_pid or i_pmt_pid
  NoTsid,      \* no PAT was received yet
  SelectPmts,  \* b_select_pmts: on by default with a configuration file (-c, -w)
  BudgetMode,  \* b_budget_mode: no hardware PID filter (-u)
  DevMayFail   \* dev_SetFilter may fail

Slots == 1 .. MaxOutputs

(***************************************************************************)
(* A PMT, abstracted to what routing looks at: its PCR PID, the streams    *)
(* PIDWouldBeSelected accepts, and whether PMTNeedsDescrambling.  NoPmt    *)
(* stands for a null p_current_pmt.                                        *)
(***************************************************************************)
NoPmt == [pcr |-> NoPid, es |-> {}, scrambled |-> FALSE]

Pmts == [pcr : Pids \cup {NoPid}, es : SUBSET Pids, scrambled : BOOLEAN]

(***************************************************************************)
(* The part of output_config_t routing depends on; pids = {} means every   *)
(* stream of the program.  A passthrough line is [NoSid, {}]: demux_Handle *)
(* serves it without any subscription.                                     *)
(***************************************************************************)
NoConfig == [sid |-> NoSid, pids |-> {}]

AllConfigs == [sid : Sids \cup {NoSid}, pids : SUBSET Pids]

ASSUME SizesAssumption ==
  /\ MaxOutputs \in Nat
  /\ IsFiniteSet(Addrs)
  /\ Cardinality(Addrs) <= MaxOutputs
ASSUME NamesAssumption ==
  /\ NoSid \notin Sids
  /\ NoPid \notin Pids
  /\ NoTsid \notin TSIDs
ASSUME InputsAssumption ==
  /\ TablePids \subseteq Pids
  /\ TimePids \subseteq Pids \ TablePids
  /\ PatTables \subseteq [Sids -> Pids \cup {NoPid}]
  /\ PmtTables \subseteq Pmts \ {NoPmt}
  /\ Configs \subseteq AllConfigs
ASSUME ModesAssumption ==
  /\ SelectPmts \in BOOLEAN
  /\ BudgetMode \in BOOLEAN
  /\ DevMayFail \in BOOLEAN

VARIABLES
  phase,        \* which callback is running
  valid,        \* slots with OUTPUT_VALID
  still,        \* slots with OUTPUT_STILL_PRESENT
  addr,         \* slot -> its destination
  conf,         \* slot -> its configuration
  i_pcr_pid,    \* slot -> the PID of which only the PCR packets are wanted
  pat,          \* program -> PMT PID, in pp_current_pat_sections
  tsid,         \* transport stream id of pp_current_pat_sections
  todo,         \* programs the running HandlePAT has still to compare
  pmt_pid,      \* program -> sid_t.i_pmt_pid
  pmt,          \* program -> sid_t.p_current_pmt
  subs,         \* PID -> outputs in p_pids[].pp_outputs
  refcount,     \* PID -> p_pids[].i_refcount
  psi_refcount, \* PID -> p_pids[].i_psi_refcount
  filter,       \* PIDs with a hardware filter (p_pids[].i_demux_fd # -1)
  descrambled   \* programs handed to the conditional access module

outputVars == <<valid, still, addr, conf, i_pcr_pid>>
programVars == <<pat, tsid, todo, pmt_pid, pmt>>
pidVars == <<subs, refcount, psi_refcount, filter>>
vars == <<phase, outputVars, programVars, pidVars, descrambled>>

TypeOK ==
  /\ phase \in {"idle", "pat", "read", "close"}
  /\ valid \in SUBSET Slots
  /\ still \in SUBSET Slots
  /\ addr \in [Slots -> Addrs]
  /\ conf \in [Slots -> AllConfigs]
  /\ i_pcr_pid \in [Slots -> Pids \cup {NoPid}]
  /\ pat \in [Sids -> Pids \cup {NoPid}]
  /\ tsid \in TSIDs \cup {NoTsid}
  /\ todo \in SUBSET Sids
  /\ pmt_pid \in [Sids -> Pids \cup {NoPid}]
  /\ pmt \in [Sids -> Pmts]
  /\ subs \in [Pids -> SUBSET Slots]
  /\ refcount \in [Pids -> Int]
  /\ psi_refcount \in [Pids -> Int]
  /\ filter \in SUBSET Pids
  /\ descrambled \in SUBSET Sids
  /\ phase = "pat" <=> todo # {}
  /\ phase \in {"idle", "pat"} => still = {}
  /\ \A o \in Slots \ valid : conf[o] = NoConfig

-----------------------------------------------------------------------------
(* Questions the handlers ask.                                             *)

\* The outputs that stream program s.
OnSid(s) == {o \in valid : conf[o].sid = s}

\* Mutant: forgets to compare the program.
WholeOn_AnyProgram(s) == {o \in valid : conf[o].pids = {}}

\* Those of them that take the whole program.
WholeOn(s) == {o \in OnSid(s) : conf[o].pids = {}}

SIDIsSelected(s) == OnSid(s) # {}

\* Mutant: asks about every output, the one being changed included.
SelectedByOthers_All(s, rest) == \E q \in valid : conf[q].sid = s

\* The same about the outputs in rest, the output being changed left aside.
SelectedByOthers(s, rest) == \E q \in rest : conf[q].sid = s

\* The program is in pp_sids.
FindSID(s) == s # NoSid /\ pmt_pid[s] # NoPid

\* The streams GetPIDS finds for a configuration before it looks at the PCR.
ElementaryPIDs(c) ==
  IF c.pids # {} THEN c.pids
  ELSE IF FindSID(c.sid) THEN pmt[c.sid].es ELSE {}

\* The PCR PID GetPIDS adds because none of those streams carries it.
PcrOnlyPID(c) ==
  IF FindSID(c.sid) /\ pmt[c.sid].pcr \notin ElementaryPIDs(c) \cup {pmt_pid[c.sid]}
  THEN pmt[c.sid].pcr
  ELSE NoPid

\* ppi_wanted_pids of GetPIDS.
GetPIDS(c) == ElementaryPIDs(c) \cup ({PcrOnlyPID(c)} \ {NoPid})

\* Mutant: without the PCR PID.
mark_pmt_pids_NoPcr(t) == t.es

\* The PIDs mark_pmt_pids marks for a PMT.
mark_pmt_pids(t) == t.es \cup ({t.pcr} \ {NoPid})

One(P) == IF P THEN 1 ELSE 0

\* Of the outputs in outs, those for which StopPID finds and drops the
\* subscription, and those for which StartPID adds one: each costs one
\* UnsetPID, or one SetPID.
StopPID(outs, p) == outs \cap subs[p]

\* StartPID_Again is a mutant: takes a reference for a subscription it has.
StartPID_Again(outs, p) == outs

StartPID(outs, p) == outs \ subs[p]

(***************************************************************************)
(* How many times SelectPMT and UnselectPMT call SetPID and UnsetPID, with *)
(* outs the outputs they would count.                                      *)
(***************************************************************************)
PmtUnits(outs) == IF SelectPmts THEN 1 ELSE Cardinality(outs)

(***************************************************************************)
(* drop[p] calls of UnsetPID(p), then take[p] calls of SetPID(p).  A       *)
(* filter closes when the count passes through exactly 0 on its way down,  *)
(* and opens after the first SetPID that leaves a count other than 0.      *)
(***************************************************************************)
\* Mutants of Closes: at 1 instead of 0, below 0, at every UnsetPID.
Closes_Early(p, drop) == refcount[p] > 0 /\ refcount[p] - drop[p] <= 1
Closes_Late(p, drop) == refcount[p] > 0 /\ refcount[p] - drop[p] < 0
Closes_Always(p, drop) == refcount[p] > 0 /\ drop[p] > 0

Closes(p, drop) == refcount[p] > 0 /\ refcount[p] - drop[p] <= 0

Opens(p, drop, take) ==
  \/ take[p] > 1
  \/ take[p] = 1 /\ refcount[p] - drop[p] # -1

CountPIDs(drop, take) ==
  LET kept   == {p \in filter : ~ Closes(p, drop)}
      opened == {p \in Pids \ kept : ~ BudgetMode /\ Opens(p, drop, take)}
  IN  /\ refcount' = [p \in Pids |-> refcount[p] - drop[p] + take[p]]
      /\ \E got \in IF DevMayFail THEN SUBSET opened ELSE {opened} :
           filter' = kept \cup got

-----------------------------------------------------------------------------
(* demux_Open: no output, no table, and the PIDs of the fixed tables held. *)

Init ==
  /\ phase = "idle"
  /\ valid = {} /\ still = {}
  /\ addr \in [Slots -> Addrs] /\ \A o, q \in Slots : addr[o] = addr[q]
  /\ conf = [o \in Slots |-> NoConfig]
  /\ i_pcr_pid = [o \in Slots |-> NoPid]
  /\ pat = [s \in Sids |-> NoPid] /\ tsid = NoTsid /\ todo = {}
  /\ pmt_pid = [s \in Sids |-> NoPid]
  /\ pmt = [s \in Sids |-> NoPmt]
  /\ subs = [p \in Pids |-> {}]
  /\ refcount = [p \in Pids |-> One(p \in TablePids \cup TimePids)]
  /\ psi_refcount = [p \in Pids |-> One(p \in TablePids)]
  /\ filter = IF BudgetMode THEN {} ELSE TablePids \cup TimePids
  /\ descrambled = {}

-----------------------------------------------------------------------------
(* HandlePAT.                                                              *)

(***************************************************************************)
(* A complete PAT that differs from the current one replaces it.  With a   *)
(* new transport stream id every program is taken as changed.              *)
(***************************************************************************)
HandlePAT(newPat, newTsid) ==
  /\ phase = "idle"
  /\ newPat # pat \/ newTsid # tsid
  /\ pat' = newPat
  /\ tsid' = newTsid
  /\ todo' = {s \in Sids :
                IF newTsid = tsid THEN newPat[s] # pat[s]
                                  ELSE newPat[s] # NoPid \/ pat[s] # NoPid}
  /\ phase' = IF todo' = {} THEN "idle" ELSE "pat"
  /\ UNCHANGED <<outputVars, pmt_pid, pmt, pidVars, descrambled>>

(***************************************************************************)
(* One iteration: DeleteProgram if the program had an entry, SelectPMT and *)
(* a fresh sid_t if it has one now.  Programs of the new PAT come first,   *)
(* in the order of its sections; the vanished ones follow.                 *)
(***************************************************************************)
CompareProgram(s) ==
  LET old   == pmt_pid[s]
      new   == pat[s]
      gone  == pmt[s].es \cup ({pmt[s].pcr} \ {NoPid, old})
      loses(p) == IF p \in gone THEN StopPID(WholeOn(s), p) ELSE {}
  IN
  /\ phase = "pat"
  /\ s \in todo
  /\ new = NoPid => \A other \in todo : pat[other] = NoPid
  /\ subs' = [p \in Pids |-> subs[p] \ loses(p)]
  /\ CountPIDs([p \in Pids |-> Cardinality(loses(p)) + (IF p = old THEN PmtUnits(OnSid(s)) ELSE 0)],
               [p \in Pids |-> IF p = new THEN PmtUnits(OnSid(s)) ELSE 0])
  /\ psi_refcount' = [p \in Pids |-> psi_refcount[p] - One(p = old) + One(p = new)]
  /\ descrambled' = IF SIDIsSelected(s) /\ pmt[s].scrambled
                    THEN descrambled \ {s} ELSE descrambled
  /\ pmt_pid' = [pmt_pid EXCEPT ![s] = new]
  /\ pmt' = [pmt EXCEPT ![s] = NoPmt]
  /\ todo' = todo \ {s}
  /\ phase' = IF todo' = {} THEN "idle" ELSE "pat"
  /\ UNCHANGED <<outputVars, pat, tsid>>

-----------------------------------------------------------------------------
(***************************************************************************)
(* HandlePMT: a PMT section of program s that differs from the current one *)
(* was assembled on the PMT PID.  demux_Handle only parses a PID whose     *)
(* i_psi_refcount is not 0, and only sees the PIDs the device delivers.    *)
(***************************************************************************)
Receives(p) == BudgetMode \/ p \in filter

\* The outputs SelectPID subscribes to p, a PID that is new in PMT t.
Takers(s, t, p) ==
  {o \in OnSid(s) : conf[o].pids = {} \/ p \in conf[o].pids \cup {t.pcr}}

HandlePMT(s, t) ==
  LET old     == mark_pmt_pids(pmt[s])
      new     == mark_pmt_pids(t)
      loses(p) == IF p \in old \ new THEN StopPID(WholeOn(s), p) ELSE {}
      gains(p) == IF p \in new \ old THEN StartPID(Takers(s, t, p), p) ELSE {}
      partial(o) == t.pcr \in new \ old /\ conf[o].pids # {} /\ t.pcr \notin conf[o].pids
  IN
  /\ phase = "idle"
  /\ FindSID(s)
  /\ Receives(pmt_pid[s]) /\ psi_refcount[pmt_pid[s]] # 0
  /\ t # pmt[s]
  /\ subs' = [p \in Pids |-> (subs[p] \ loses(p)) \cup gains(p)]
  /\ CountPIDs([p \in Pids |-> Cardinality(loses(p))],
               [p \in Pids |-> Cardinality(gains(p))])
  /\ i_pcr_pid' = [o \in Slots |->
                     IF o \notin OnSid(s) THEN i_pcr_pid[o]
                     ELSE IF partial(o) THEN t.pcr ELSE NoPid]
  /\ descrambled' = IF ~ SIDIsSelected(s) THEN descrambled
                    ELSE IF t.scrambled THEN descrambled \cup {s}
                    ELSE IF pmt[s].scrambled THEN descrambled \ {s} ELSE descrambled
  /\ pmt' = [pmt EXCEPT ![s] = t]
  /\ UNCHANGED <<phase, valid, still, addr, conf, pat, tsid, todo, pmt_pid, psi_refcount>>

-----------------------------------------------------------------------------
(***************************************************************************)
(* demux_Change gives output o the configuration c; rest are the other     *)
(* valid outputs.  It releases the PMT of the old program and the PIDs no  *)
(* longer wanted, then takes the new PIDs and the PMT of the new program.  *)
(* A configuration that asks for the same changes nothing.                 *)
(***************************************************************************)
demux_Change(o, c, rest) ==
  LET old      == conf[o]
      left     == c.sid # old.sid /\ FindSID(old.sid)
      joined   == c.sid # old.sid /\ FindSID(c.sid)
      others(s) == {q \in rest : conf[q].sid = s}
      loses(p) == IF p \in GetPIDS(old) \ GetPIDS(c) THEN StopPID({o}, p) ELSE {}
      gains(p) == IF p \in GetPIDS(c) \ GetPIDS(old) THEN StartPID({o}, p) ELSE {}
      leaves(p) == left /\ p = pmt_pid[old.sid]
      joins(p)  == joined /\ p = pmt_pid[c.sid]
      camTold(s) == ~ SelectedByOthers(s, rest) /\ pmt[s].scrambled
  IN
  /\ subs' = [p \in Pids |-> (subs[p] \ loses(p)) \cup gains(p)]
  /\ CountPIDs([p \in Pids |-> Cardinality(loses(p))
                               + (IF leaves(p) THEN PmtUnits(others(old.sid)) ELSE 0)],
               [p \in Pids |-> Cardinality(gains(p))
                               + (IF joins(p) THEN PmtUnits(others(c.sid)) ELSE 0)])
  /\ psi_refcount' = [p \in Pids |-> psi_refcount[p] - One(leaves(p)) + One(joins(p))]
  /\ i_pcr_pid' = [i_pcr_pid EXCEPT ![o] = IF c = old THEN @ ELSE PcrOnlyPID(c)]
  /\ descrambled' = (descrambled \ {s \in Sids : left /\ s = old.sid /\ camTold(s)})
                    \cup {s \in Sids : joined /\ s = c.sid /\ camTold(s)}
  /\ conf' = [conf EXCEPT ![o] = c]

(* config_ReadFile.                                                        *)

\* Start-up, or SIGHUP while the loop runs, and the file could be opened.
BeginReload ==
  /\ phase = "idle"
  /\ phase' = "read"
  /\ UNCHANGED <<outputVars, programVars, pidVars, descrambled>>

\* output_Find, or output_Create in the first free slot.
SlotsFor(a) ==
  LET found == {o \in valid : addr[o] = a}
  IN  IF found # {} THEN found
      ELSE {o \in Slots \ valid : \A q \in Slots \ valid : o <= q}

(***************************************************************************)
(* A line sends configuration c to address a.  A line whose output cannot  *)
(* be created is skipped, which leaves everything as it was.               *)
(***************************************************************************)
ReadLine(a, c) ==
  /\ phase = "read"
  /\ \E o \in SlotsFor(a) :
       /\ demux_Change(o, c, valid \ {o})
       /\ valid' = valid \cup {o}
       /\ still' = still \cup {o}
       /\ addr' = [addr EXCEPT ![o] = a]
  /\ UNCHANGED <<phase, programVars>>

EndOfFile ==
  /\ phase = "read"
  /\ phase' = IF valid \subseteq still THEN "idle" ELSE "close"
  /\ still' = IF valid \subseteq still THEN {} ELSE still
  /\ UNCHANGED <<valid, addr, conf, i_pcr_pid, programVars, pidVars, descrambled>>

\* The first output without a line is closed; after the last one the reload ends.
CloseStale(o) ==
  /\ phase = "close"
  /\ o \in valid \ still
  /\ \A q \in valid \ still : o <= q
  /\ demux_Change(o, NoConfig, valid \ {o})
  /\ valid' = valid \ {o}
  /\ phase' = IF valid' \subseteq still THEN "idle" ELSE "close"
  /\ still' = IF valid' \subseteq still THEN {} ELSE still
  /\ UNCHANGED <<addr, programVars>>

-----------------------------------------------------------------------------
Next ==
  \/ \E newPat \in PatTables, newTsid \in TSIDs : HandlePAT(newPat, newTsid)
  \/ \E s \in Sids : CompareProgram(s)
  \/ \E s \in Sids, t \in PmtTables : HandlePMT(s, t)
  \/ BeginReload
  \/ \E a \in Addrs, c \in Configs : ReadLine(a, c)
  \/ EndOfFile
  \/ \E o \in Slots : CloseStale(o)

Spec == Init /\ [][Next]_vars

-----------------------------------------------------------------------------
(* Properties.                                                             *)

\* The PIDs an output is subscribed to.
Subscriptions(o) == {p \in Pids : o \in subs[p]}

(***************************************************************************)
(* Every reference on a PID is accounted for: one per subscribed output,   *)
(* one per user of the sections on it, and the one demux_Open takes on RST *)
(* and TDT.  StartPID, StopPID, SelectPMT and UnselectPMT, called from     *)
(* PAT, PMT and configuration changes in any order, keep the sum.          *)
(***************************************************************************)
RefsBalanced ==
  SelectPmts => \A p \in Pids :
    refcount[p] = Cardinality(subs[p]) + psi_refcount[p] + One(p \in TimePids)

(***************************************************************************)
(* SetPID and UnsetPID keep a filter on every PID with a positive count:   *)
(* the counts can go below 0, but never so that a wanted PID stays closed. *)
(***************************************************************************)
CountedIsOpen ==
  ~ BudgetMode /\ ~ DevMayFail => \A p \in Pids : refcount[p] > 0 => p \in filter

(***************************************************************************)
(* A stream that respects ISO 13818-1: no PMT PID also carries a stream, a *)
(* PCR, or data an output asks for.                                        *)
(***************************************************************************)
PmtPids == {p \in Pids : \E f \in PatTables, s \in Sids : f[s] = p}

PmtPidsCarryOnlyPmts ==
  /\ \A t \in PmtTables : PmtPids \cap mark_pmt_pids(t) = {}
  /\ \A c \in Configs : PmtPids \cap c.pids = {}

(***************************************************************************)
(* In such a stream a PID some output is subscribed to is delivered by the *)
(* device, whatever PATs, PMTs and reloads came before (demux_Handle only  *)
(* forwards what the hardware filters let through).                        *)
(***************************************************************************)
SubscribedIsReceived ==
  SelectPmts /\ ~ DevMayFail /\ PmtPidsCarryOnlyPmts =>
    \A p \in Pids : subs[p] # {} => Receives(p)

(***************************************************************************)
(* No filter outlives its users, even when dev_SetFilter fails now and     *)
(* then: UnsetPID closes the filter of a PID that never carries a PMT with *)
(* the last output that had it.                                            *)
(***************************************************************************)
UnusedIsClosed ==
  \A p \in filter \ (PmtPids \cup TablePids \cup TimePids) : subs[p] # {}

(***************************************************************************)
(* The CAM descrambles exactly the scrambled programs some output streams. *)
(* demux_Change swaps config.i_sid back and forth so that SIDIsSelected    *)
(* answers about the other outputs; HandlePMT and DeleteProgram take their *)
(* own part of the job.                                                    *)
(***************************************************************************)
CamTracksSelection ==
  \A s \in Sids : s \in descrambled <=> SIDIsSelected(s) /\ pmt[s].scrambled

(***************************************************************************)
(* An output is subscribed to what GetPIDS computes for it from the        *)
(* current tables, and a closed output to nothing, although HandlePMT and  *)
(* DeleteProgram maintain the subscriptions by differences.                *)
(***************************************************************************)
RoutingExact ==
  \A o \in Slots : Subscriptions(o) = IF o \in valid THEN GetPIDS(conf[o]) ELSE {}

(***************************************************************************)
(* A reload loses no packet of what an output had before and asks for      *)
(* again: no step of config_ReadFile, about this output or another, drops  *)
(* such a subscription or closes the filter of its PID (README:28).        *)
(***************************************************************************)
ReloadStepLosesNothing ==
  phase \in {"read", "close"} =>
    \A o \in valid \cap valid' :
      \A p \in Subscriptions(o) \cap GetPIDS(conf'[o]) :
        o \in subs'[p] /\ (Receives(p) => Receives(p)')

ReloadLosesNothing == [][ReloadStepLosesNothing]_vars

(***************************************************************************)
(* What the documentation promises and the code breaks.                    *)
(*                                                                         *)
(* README:28, the file "can be reloaded without losing a single packet":   *)
(* the sections of a program an output streams keep being parsed.  Without *)
(* them its PMT is neither updated nor sent.                               *)
(***************************************************************************)
StreamedPmtIsParsed ==
  \A o \in valid :
    FindSID(conf[o].sid) => psi_refcount[pmt_pid[conf[o].sid]] > 0

-----------------------------------------------------------------------------
(***************************************************************************)
(* The routing the demux promises: as RoutingPolicy, read off the slots,   *)
(* the program table and the subscriptions.                                *)
(***************************************************************************)
Policy == INSTANCE RoutingPolicy WITH
            want  <- conf,
            prog  <- pmt_pid,
            table <- pmt,
            route <- [o \in Slots |-> Subscriptions(o)]

\* The maintained subscriptions are the ones recomputed from the tables.
ImplementsPolicy == Policy!Spec

=============================================================================
