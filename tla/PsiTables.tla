------------------------------ MODULE PsiTables ------------------------------
(***************************************************************************)
(* The tables cLdvbdemux makes for each output: a PAT, a PMT, a NIT and an *)
(* SDT with the one program the output streams, kept as sections in        *)
(* output_t and sent whenever a table of the same kind arrives.            *)
(*                                                                         *)
(* A section is rebuilt by the handlers that notice a change of what it is *)
(* made from: a table of the input, the configuration of the output or the *)
(* transport stream id.  Each handler decides which sections to rebuild.   *)
(***************************************************************************)
EXTENDS Integers, FiniteSetsExt

CONSTANTS
  MaxOutputs,  \* number of slots of pp_outputs; bounds the model
  Sids,        \* program numbers, 0 excluded
  Pids,        \* PIDs, 0 excluded
  TSIDs,       \* transport stream ids, 0 excluded
  Texts,       \* what a PMT or an SDT says of a program, sets of descriptors
  Pats,        \* PATs that can arrive
  Sdts,        \* SDTs that can arrive
  Configs,     \* what a configuration line can ask of an output
  GlobalPid,   \* pi_newpids[I_PMTPID] with a global PID map (-0), otherwise 0
  RandomTsid,  \* b_random_tsid (-T)
  MaxRebuilds, \* bounds the PATs made between two that are sent
  None         \* nothing: no text, no section

Slots == 1 .. MaxOutputs

\* A PAT: the transport stream id and the PMT PID of each program, 0 if absent.
Tables == [tsid : TSIDs, pmt_pid : [Sids -> Pids \cup {0}]]

\* pp_current_pat_sections before the first PAT.
NoPat == [tsid |-> -1, pmt_pid |-> [s \in Sids |-> 0]]

(***************************************************************************)
(* The part of output_config_t the tables depend on: sid 0 streams no      *)
(* program, new_sid 0 keeps its number, tsid -1 follows the input, pmt_pid *)
(* is the entry of the output's PID map, 0 without one, and name stands    *)
(* for the names and numbers of /networkid=, /networkname= and /srvname=.  *)
(***************************************************************************)
AllConfigs ==
  [sid : Sids \cup {0}, new_sid : Sids \cup {0}, tsid : TSIDs \cup {-1}, dvb : BOOLEAN,
   pmt_pid : Pids \cup {0}, name : Texts, passthrough : BOOLEAN]

ASSUME SizesAssumption ==
  /\ MaxOutputs \in Nat
  /\ MaxRebuilds \in 2 .. 29
ASSUME NumbersAssumption ==
  /\ Sids \subseteq Nat \ {0}
  /\ Pids \subseteq Nat \ {0}
  /\ TSIDs \subseteq Nat \ {0}
ASSUME InputsAssumption ==
  /\ Pats \subseteq Tables
  /\ Sdts \subseteq [Sids -> Texts \cup {None}]
  /\ Configs \subseteq {c \in AllConfigs : c.passthrough => c.sid = 0}
  /\ GlobalPid \in Pids \cup {0}
  /\ RandomTsid \in BOOLEAN

\* The sections; a PAT with sid 0 announces no program.
PatSections == [tsid : TSIDs, sid : Sids \cup {0}, pid : Pids \cup {0}, nit : BOOLEAN]
PmtSections == [sid : Sids, text : Texts]
NitSections == [tsid : TSIDs, name : Texts]
SdtSections == [tsid : TSIDs, sid : Sids, text : Texts, name : Texts]

(***************************************************************************)
(* The part of output_t the tables live in.  i_pat_version is only told    *)
(* apart from its value in the last PAT sent: rebuilds is the difference.  *)
(* The versions of the other sections move with every rebuild, as this one *)
(* does, and are left out.                                                 *)
(***************************************************************************)
Outputs ==
  [conf : AllConfigs, i_tsid : TSIDs,
   pat : PatSections \cup {None}, pmt : PmtSections \cup {None},
   nit : NitSections \cup {None}, sdt : SdtSections \cup {None},
   rebuilds : Nat, last_pat : PatSections \cup {None}]

ASSUME NoneAssumption ==
  None \notin Texts \cup PatSections \cup PmtSections \cup NitSections \cup SdtSections
           \cup Outputs

VARIABLES
  output,  \* slot -> its output_t, or None without OUTPUT_VALID
  pat,     \* pp_current_pat_sections
  pmt,     \* program -> sid_t.p_current_pmt
  sdt,     \* pp_current_sdt_sections, None before the first one
  air      \* the sections the last step gave to the outputs

vars == <<output, pat, pmt, sdt, air>>

TypeOK ==
  /\ output \in [Slots -> Outputs \cup {None}]
  /\ pat \in Tables \cup {NoPat}
  /\ pmt \in [Sids -> Texts \cup {None}]
  /\ sdt \in [Sids -> Texts \cup {None}] \cup {None}
  /\ \A s \in Sids : pat.pmt_pid[s] = 0 => pmt[s] = None

Valid == {o \in Slots : output[o] # None}

-----------------------------------------------------------------------------
(* The sections made for an output x, from the table that is current.      *)

\* The number a program gets.
SidOf(c) == IF c.new_sid # 0 THEN c.new_sid ELSE c.sid

\* Mutant: forgets the PID map of the output.
AnnouncedPid_NoMap(c, p) == IF GlobalPid # 0 THEN GlobalPid ELSE p.pmt_pid[c.sid]

\* Where the PAT says the PMT is.
AnnouncedPid(c, p) ==
  IF GlobalPid # 0 THEN GlobalPid
  ELSE IF c.pmt_pid # 0 THEN c.pmt_pid ELSE p.pmt_pid[c.sid]

Carries(p, s) == s # 0 /\ p.pmt_pid[s] # 0

ProgramPat(x, p) ==
  [tsid |-> x.i_tsid, sid |-> SidOf(x.conf), pid |-> AnnouncedPid(x.conf, p), nit |-> x.conf.dvb]

\* Mutant: keeps the version.
NewPAT_SameVersion(x, p) ==
  [x EXCEPT !.pat = IF Carries(p, x.conf.sid) THEN ProgramPat(x, p) ELSE None]

NewPAT(x, p) ==
  [x EXCEPT !.pat = IF Carries(p, x.conf.sid) THEN ProgramPat(x, p) ELSE None,
            !.rebuilds = @ + 1]

NewPMT(x, m) ==
  [x EXCEPT !.pmt = IF x.conf.sid # 0 /\ m[x.conf.sid] # None
                    THEN [sid |-> SidOf(x.conf), text |-> m[x.conf.sid]] ELSE None]

NewNIT(x) == [x EXCEPT !.nit = [tsid |-> x.i_tsid, name |-> x.conf.name]]

Described(t, s) == s # 0 /\ t # None /\ t[s] # None

\* Without a description of the program an empty PAT is dropped as well; the
\* next SendPAT makes it again.
DropsEmptyPat(x, t) ==
  /\ x.conf.sid # 0
  /\ t # None
  /\ ~ Described(t, x.conf.sid)
  /\ x.pat # None
  /\ x.pat.sid = 0

NewSDT(x, t) ==
  LET empty == DropsEmptyPat(x, t)
  IN [x EXCEPT !.sdt = IF Described(t, x.conf.sid)
                       THEN [tsid |-> x.i_tsid, sid |-> SidOf(x.conf),
                             text |-> t[x.conf.sid], name |-> x.conf.name]
                       ELSE None,
               !.pat = IF empty THEN None ELSE @,
               !.rebuilds = IF empty THEN @ + 1 ELSE @]

-----------------------------------------------------------------------------
(* Sending.                                                                *)

\* The output after SendPAT made an empty PAT where there was none.
WithPat(x, p) ==
  IF x.conf.passthrough \/ x.pat # None \/ p = NoPat THEN x
  ELSE [x EXCEPT !.pat = [tsid |-> x.i_tsid, sid |-> 0, pid |-> 0, nit |-> FALSE],
                 !.rebuilds = @ + 1]

SendsPat(x) == ~ x.conf.passthrough /\ x.pat # None

\* The outputs after the PATs of xs were sent.
PatsSent(xs) ==
  [o \in Slots |->
    IF xs[o] # None /\ SendsPat(xs[o])
    THEN [xs[o] EXCEPT !.rebuilds = 0, !.last_pat = xs[o].pat] ELSE xs[o]]

\* What SendPAT gives to the outputs xs.
SendPAT(xs) ==
  {[table |-> "PAT", slot |-> o, section |-> xs[o].pat,
    rebuilds |-> xs[o].rebuilds, last |-> xs[o].last_pat] :
     o \in {q \in Slots : xs[q] # None /\ SendsPat(xs[q])}}

\* The outputs that get the PMT of program s.
PmtReceivers(xs, s) ==
  {o \in Slots : xs[o] # None /\ xs[o].conf.sid = s /\ xs[o].pmt # None}

\* i_pmt_pid when SendPMT comes to output o: what the last output with a PMT PID
\* of its own left in it.
PmtPidAt(xs, p, s, o) ==
  LET own == {q \in PmtReceivers(xs, s) : q <= o /\ xs[q].conf.pmt_pid # 0}
  IN IF own # {} THEN xs[Max(own)].conf.pmt_pid
     ELSE IF GlobalPid # 0 THEN GlobalPid ELSE p.pmt_pid[s]

SendPMT(xs, p, s) ==
  {[table |-> "PMT", slot |-> o, section |-> xs[o].pmt, pid |-> PmtPidAt(xs, p, s, o)] :
     o \in PmtReceivers(xs, s)}

\* The outputs that carry the other DVB tables.
DvbOutputs(xs) ==
  {o \in Slots : xs[o] # None /\ ~ xs[o].conf.passthrough /\ xs[o].conf.dvb}

SendNIT(xs) ==
  {[table |-> "NIT", slot |-> o, section |-> xs[o].nit] :
     o \in {q \in DvbOutputs(xs) : xs[q].nit # None}}

SendSDT(xs) ==
  {[table |-> "SDT", slot |-> o, section |-> xs[o].sdt] :
     o \in {q \in DvbOutputs(xs) : xs[q].sdt # None}}

-----------------------------------------------------------------------------
(* The tables that arrive.                                                 *)

Init ==
  /\ output = [o \in Slots |-> None]
  /\ pat = NoPat
  /\ pmt = [s \in Sids |-> None]
  /\ sdt = None
  /\ air = {}

\* A new transport stream id: the outputs that follow the input take it.
UpdateTSID(x, p) ==
  IF x.conf.tsid = -1 /\ ~ RandomTsid THEN NewNIT([x EXCEPT !.i_tsid = p.tsid]) ELSE x

\* p is another transport stream than the current one, or the first.
Resets(p) == pat = NoPat \/ p.tsid # pat.tsid

\* Mutant: without b_change, forgets the programs a new stream id concerns.
Added_SameStream(p) == {s \in Sids : p.pmt_pid[s] # 0 /\ p.pmt_pid[s] # pat.pmt_pid[s]}

\* The programs HandlePAT takes for new, and those that vanished.
Added(p) ==
  {s \in Sids : p.pmt_pid[s] # 0 /\ (p.pmt_pid[s] # pat.pmt_pid[s] \/ Resets(p))}

Removed(p) == {s \in Sids : p.pmt_pid[s] = 0 /\ pat.pmt_pid[s] # 0}

\* The outputs after the comparison of the new PAT p with the current one.
PatCompared(p) ==
  [o \in Slots |->
    IF output[o] = None THEN None
    ELSE LET x == IF Resets(p) THEN UpdateTSID(output[o], p) ELSE output[o]
         IN IF x.conf.sid \in Added(p) \cup Removed(p) THEN NewPAT(x, p) ELSE x]

WithPats(xs, p) == [o \in Slots |-> IF xs[o] = None THEN None ELSE WithPat(xs[o], p)]

HandlePAT(p) ==
  /\ p # pat
  /\ pat' = p
  /\ pmt' = [s \in Sids |-> IF s \in Added(p) \cup Removed(p) THEN None ELSE pmt[s]]
  /\ LET xs == WithPats(PatCompared(p), p)
     IN output' = PatsSent(xs) /\ air' = SendPAT(xs)
  /\ UNCHANGED sdt

\* A PAT that is identical or that pat_table_validate refuses.
RepeatPAT ==
  /\ LET xs == WithPats(output, pat)
     IN output' = PatsSent(xs) /\ air' = SendPAT(xs)
  /\ UNCHANGED <<pat, pmt, sdt>>

\* UpdatePMT with the PMTs m.
PmtsUpdated(s, m) ==
  [o \in Slots |-> IF output[o] # None /\ output[o].conf.sid = s
                   THEN NewPMT(output[o], m) ELSE output[o]]

HandlePMT(s, text) ==
  /\ pat.pmt_pid[s] # 0
  /\ pmt[s] # text
  /\ pmt' = [pmt EXCEPT ![s] = text]
  /\ output' = PmtsUpdated(s, [pmt EXCEPT ![s] = text])
  /\ air' = SendPMT(output', pat, s)
  /\ UNCHANGED <<pat, sdt>>

\* A PMT that is identical or that pmt_validate refuses.
RepeatPMT(s) ==
  /\ pat.pmt_pid[s] # 0
  /\ air' = SendPMT(output, pat, s)
  /\ UNCHANGED <<output, pat, pmt, sdt>>

\* The NIT that arrives says when to send, not what.
HandleNITSection ==
  /\ air' = SendNIT(output)
  /\ UNCHANGED <<output, pat, pmt, sdt>>

InSdt(t) == {s \in Sids : Described(t, s)}

\* UpdateSDT for the programs of the new SDT t and for those that left.
SdtsUpdated(t) ==
  [o \in Slots |-> IF output[o] # None /\ output[o].conf.sid \in InSdt(t) \cup InSdt(sdt)
                   THEN NewSDT(output[o], t) ELSE output[o]]

HandleSDT(t) ==
  /\ t # sdt
  /\ sdt' = t
  /\ output' = SdtsUpdated(t)
  /\ \A o \in Valid : output'[o].rebuilds <= MaxRebuilds
  /\ air' = SendSDT(output')
  /\ UNCHANGED <<pat, pmt>>

\* An SDT that is identical or that sdt_table_validate refuses.
RepeatSDT ==
  /\ air' = SendSDT(output)
  /\ UNCHANGED <<output, pat, pmt, sdt>>

\* A packet with the time (TDT, TOT) goes to the outputs that have an SDT.
SendTDT ==
  /\ air' = {[table |-> "TDT", slot |-> o] :
               o \in {q \in DvbOutputs(output) : output[q].sdt # None}}
  /\ UNCHANGED <<output, pat, pmt, sdt>>

-----------------------------------------------------------------------------
(* The configuration.                                                      *)

\* The transport stream ids an output can get whose /tsid= changes to t.
TsidChoices(t) ==
  IF t # -1 THEN {t}
  ELSE IF pat # NoPat /\ ~ RandomTsid THEN {pat.tsid} ELSE TSIDs

\* The sections demux_Change makes again for output x, which has the new
\* configuration already; old is the configuration it had.
Rebuilt(x, old) ==
  LET c == x.conf
      sid_change == c.sid # old.sid
      remap_change == c.new_sid # old.new_sid \/ c.pmt_pid # old.pmt_pid
      names_change == c.name # old.name
      y == IF c.dvb # old.dvb THEN NewPAT(NewNIT(x), pat)
           ELSE IF names_change THEN NewNIT(x) ELSE x
  IN IF sid_change \/ remap_change THEN NewPMT(NewPAT(NewNIT(NewSDT(x, sdt)), pat), pmt)
     ELSE IF c.tsid # old.tsid THEN NewPAT(NewNIT(NewSDT(x, sdt)), pat)
     ELSE IF names_change THEN NewSDT(y, sdt) ELSE y

\* demux_Change of output o, which is x, to the configuration c.
demux_Change(o, x, c) ==
  /\ \E t \in IF c.tsid # x.conf.tsid THEN TsidChoices(c.tsid) ELSE {x.i_tsid} :
       output' = [output EXCEPT ![o] = Rebuilt([x EXCEPT !.conf = c, !.i_tsid = t], x.conf)]
  /\ output'[o].rebuilds <= MaxRebuilds
  /\ air' = {}
  /\ UNCHANGED <<pat, pmt, sdt>>

\* What output_Init leaves: its config.i_tsid is 0, which no line asks for.
NewOutput(c, t) ==
  [conf |-> [sid |-> 0, new_sid |-> 0, tsid |-> 0, dvb |-> FALSE,
             pmt_pid |-> 0, name |-> c.name, passthrough |-> FALSE],
   i_tsid |-> t, pat |-> None, pmt |-> None, nit |-> None, sdt |-> None,
   rebuilds |-> 0, last_pat |-> None]

\* A line of the configuration file for a new destination.
Create(o, c) ==
  /\ output[o] = None
  /\ \E t \in IF RandomTsid THEN TSIDs ELSE {0} : demux_Change(o, NewOutput(c, t), c)

\* A line for the destination of output o.
Change(o, c) ==
  /\ output[o] # None
  /\ c # output[o].conf
  /\ demux_Change(o, output[o], c)

\* The file has no line for output o any more.
Close(o) ==
  /\ output[o] # None
  /\ output' = [output EXCEPT ![o] = None]
  /\ air' = {}
  /\ UNCHANGED <<pat, pmt, sdt>>

Next ==
  \/ \E p \in Pats : HandlePAT(p)
  \/ RepeatPAT
  \/ \E s \in Sids, text \in Texts : HandlePMT(s, text)
  \/ \E s \in Sids : RepeatPMT(s)
  \/ HandleNITSection
  \/ \E t \in Sdts : HandleSDT(t)
  \/ RepeatSDT
  \/ SendTDT
  \/ \E o \in Slots, c \in Configs : Create(o, c) \/ Change(o, c)
  \/ \E o \in Slots : Close(o)

Spec == Init /\ [][Next]_vars

-----------------------------------------------------------------------------
(* What the sections have to agree with.                                   *)

PatFollows(x, p) ==
  IF Carries(p, x.conf.sid) THEN x.pat = ProgramPat(x, p)
  ELSE x.pat = None \/ x.pat.sid = 0

PmtFollows(x, m) ==
  x.conf.sid # 0 /\ m[x.conf.sid] # None
    => x.pmt = [sid |-> SidOf(x.conf), text |-> m[x.conf.sid]]

NitFollows(x) == x.nit = [tsid |-> x.i_tsid, name |-> x.conf.name]

SdtFollows(x, t) ==
  IF Described(t, x.conf.sid)
  THEN /\ x.sdt # None
       /\ x.sdt.sid = SidOf(x.conf)
       /\ x.sdt.text = t[x.conf.sid]
       /\ x.sdt.name = x.conf.name
  ELSE x.sdt = None

TsidFollows(x, p) ==
  /\ x.conf.tsid # -1 => x.i_tsid = x.conf.tsid /\ (x.sdt # None => x.sdt.tsid = x.i_tsid)
  /\ x.conf.tsid = -1 /\ ~ RandomTsid /\ p # NoPat => x.i_tsid = p.tsid

(***************************************************************************)
(* Whatever order tables and configuration lines come in, the PAT, PMT,    *)
(* NIT and SDT of an output are the ones its configuration asks for and    *)
(* the current tables of the input have: HandlePAT, HandlePMT, HandleSDT,  *)
(* UpdateTSID and demux_Change together miss no section a change concerns. *)
(* Two are left out: the PMT of a program that is gone, which is kept, and *)
(* the transport stream id in the SDT of an output that follows the input. *)
(***************************************************************************)
SectionsFollowInput ==
  \A o \in Valid :
    /\ PatFollows(output[o], pat)
    /\ PmtFollows(output[o], pmt)
    /\ NitFollows(output[o])
    /\ SdtFollows(output[o], sdt)
    /\ TsidFollows(output[o], pat)

(***************************************************************************)
(* SendPMT puts the PMT on the PID the PAT of the output announces, which  *)
(* NewPAT found out by other tests, with two exceptions: an output without *)
(* a PMT PID of its own comes after one of the same program that has one,  *)
(* or has one while there is a global PID map.                             *)
(***************************************************************************)
PmtWhereAnnounced ==
  \A e \in air :
    LET x == output[e.slot]
        leaked == \E q \in 1 .. e.slot - 1 :
                    /\ output[q] # None
                    /\ output[q].conf.sid = x.conf.sid
                    /\ output[q].conf.pmt_pid # 0
    IN e.table = "PMT" =>
         \/ e.pid = x.pat.pid
         \/ GlobalPid # 0 /\ (leaked \/ x.conf.pmt_pid # 0)
         \/ x.conf.pmt_pid = 0 /\ leaked

(***************************************************************************)
(* A receiver that looks at the version only sees every change of the PAT: *)
(* the PAT that is sent has another version than the last one, modulo 32,  *)
(* or the same contents.  Four functions build and drop it.                *)
(***************************************************************************)
VersionTells ==
  \A e \in air :
    e.table = "PAT" /\ e.last # None /\ e.section # e.last => e.rebuilds % 32 # 0
=============================================================================
