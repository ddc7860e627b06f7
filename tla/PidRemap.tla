------------------------------ MODULE PidRemap -------------------------------
(***************************************************************************)
(* PID remapping.  NewPMT gives every ES of an output's program a PID near *)
(* the one its map asks for (map_es_pid) and announces it in the output's  *)
(* PMT.  The packets keep the PID they came with while they wait, since    *)
(* one block is shared by all the outputs that take it; output_Flush       *)
(* writes the new PID into the block, sends the block and puts the old     *)
(* PID back for the next output.                                           *)
(***************************************************************************)
EXTENDS Integers, FiniteSetsExt, SequencesExt

CONSTANTS
  Slots,      \* outputs
  MaxPid,     \* MAX_PIDS - 1
  GlobalMap,  \* pi_newpids of cLdvbdemux (-0), NoMap without it
  Lines,      \* what the lines of the configuration file ask of an output
  Pmts,       \* PMTs of the program that can arrive
  MaxBlocks,  \* blocks in use at a time; bounds the model
  None        \* nothing: no PMT, no block

Pids == 1 .. MaxPid
Kinds == {"audio", "video", "spu"}
Unused == 0                           \* UNUSED_PID
BlockIds == 1 .. MaxBlocks

\* The PIDs the packets of the program come with.
Carried == UNION {{p.pcr} \cup {p.es[i].pid : i \in DOMAIN p.es} : p \in Pmts}

\* Where the map wants the first ES of each kind; 0 leaves the kind alone.
Bases == [Kinds -> Pids \cup {0}]
NoMap == [k \in Kinds |-> 0]

\* An ES: kind "other" has no place in a map; wanted is PIDWouldBeSelected.
Streams == [pid : Pids, kind : Kinds \cup {"other"}, wanted : BOOLEAN]

ASSUME PidsAssumption ==
  /\ IsFiniteSet(Slots)
  /\ MaxPid \in Nat \ {0}
  /\ MaxBlocks \in Nat
  /\ None \notin [pid : Pids, tmp_pid : Pids \cup {Unused}, i_refcount : Nat, origin : Pids]
ASSUME PmtsAssumption ==
  /\ Pmts \subseteq [es : Seq(Streams), pcr : Pids]
  /\ \A p \in Pmts : \A i, j \in DOMAIN p.es : i # j => p.es[i].pid # p.es[j].pid
ASSUME LinesAssumption ==
  /\ GlobalMap \in Bases
  /\ Lines \subseteq [program : BOOLEAN, pids : SUBSET Pids, pidmap : Seq(Pids)]

(***************************************************************************)
(* conf is the part of output_config_t that counts here: whether i_sid is  *)
(* the program, pi_pids, b_do_remap and the ES entries of pi_confpids.     *)
(***************************************************************************)
VARIABLES
  conf,     \* output -> its configuration
  newpids,  \* output -> pi_newpids: where the packets of a PID go
  freepids, \* output -> pi_freepids: the PID that took a new PID
  section,  \* output -> p_pmt_section, with the PID each ES came with
  pmt,      \* p_current_pmt of the program
  block,    \* the packets that wait
  queue,    \* output -> its blocks, the oldest first
  wire      \* the packets the last step sent

vars == <<conf, newpids, freepids, section, pmt, block, queue, wire>>

Unmapped == [p \in Pids |-> Unused]

Announcements == [from : Pids, to : Pids]

TypeOK ==
  /\ conf \in [Slots -> [program : BOOLEAN, pids : SUBSET Pids, b_do_remap : BOOLEAN,
                         confpids : Bases]]
  /\ newpids \in [Slots -> [Pids -> Pids \cup {Unused}]]
  /\ freepids \in [Slots -> [Pids -> Pids \cup {Unused}]]
  /\ section \in [Slots -> {None} \cup [es : SUBSET Announcements, pcr : Announcements]]
  /\ pmt \in Pmts \cup {None}
  /\ block \in [BlockIds -> {None} \cup
                  [pid : Pids, tmp_pid : Pids \cup {Unused}, i_refcount : Nat, origin : Pids]]
  /\ queue \in [Slots -> Seq(BlockIds)]
  /\ wire \subseteq [out : Slots, from : Pids, pid : Pids]

-----------------------------------------------------------------------------
(* The map of an output.                                                   *)

\* b_do_remap of the program or of configuration c.
Remaps(c) == GlobalMap # NoMap \/ c.b_do_remap

\* The PID configuration c wants for a stream.
Base(c, e) ==
  CASE e.kind = "other" -> e.pid
    [] e.kind # "other" /\ GlobalMap # NoMap -> GlobalMap[e.kind]
    [] OTHER -> c.confpids[e.kind]

\* Mutant: takes the wanted PID even if another ES has it.
NextFree_Any(free, base) == base

\* The search has no bound in the code: see RoomAssumption.
NextFree(free, base) == Min({p \in Pids : p >= base /\ free[p] = Unused})

\* The maps, and the PID an ES is announced on.
map_es_pid(c, m, e) ==
  LET to == NextFree(m.free, Base(c, e))
  IN  IF ~ Remaps(c) \/ Base(c, e) = 0
      THEN [m EXCEPT !.es = @ \cup {[from |-> e.pid, to |-> e.pid]}]
      ELSE [free |-> [m.free EXCEPT ![to] = e.pid],
            new  |-> [m.new EXCEPT ![e.pid] = to],
            es   |-> m.es \cup {[from |-> e.pid, to |-> to]}]

\* Where packets of PID p go.
Leaves(new, p) == IF new[p] # Unused THEN new[p] ELSE p

\* NewPMT keeps the ESs the output streams.
Streamed(c, e) == IF c.pids = {} THEN e.wanted ELSE e.pid \in c.pids

\* The maps after the ESs of PMT p, m[k] after the first k of them.
MapPmt(c, p) ==
  LET m[k \in 0 .. Len(p.es)] ==
        IF k = 0 THEN [free |-> Unmapped, new |-> Unmapped, es |-> {}]
        ELSE IF Streamed(c, p.es[k]) THEN map_es_pid(c, m[k - 1], p.es[k]) ELSE m[k - 1]
  IN  m[Len(p.es)]

Made(c, p) == c.program /\ p # None

\* Mutant: keeps the PCR PID of the input.
NewPMT_OldPcr(c, p) ==
  [es |-> MapPmt(c, p).es, pcr |-> [from |-> p.pcr, to |-> p.pcr]]

\* The section NewPMT makes; the PCR may be on an ES that has moved.
NewPMT(c, p) ==
  [es |-> MapPmt(c, p).es, pcr |-> [from |-> p.pcr, to |-> Leaves(MapPmt(c, p).new, p.pcr)]]

\* NewPMT for output o.  Without a program or a PMT the maps stay as they are.
Rebuilt(o, c, p) ==
  /\ section' = [section EXCEPT ![o] = IF Made(c, p) THEN NewPMT(c, p) ELSE None]
  /\ newpids' = [newpids EXCEPT ![o] = IF Made(c, p) THEN MapPmt(c, p).new ELSE @]
  /\ freepids' = [freepids EXCEPT ![o] = IF Made(c, p) THEN MapPmt(c, p).free ELSE @]

(***************************************************************************)
(* config_ParseHost splits the value of /pidmap= anew for each of the four *)
(* entries, so every entry gets its first number.                          *)
(***************************************************************************)
Parsed(l) ==
  [program |-> l.program, pids |-> l.pids, b_do_remap |-> l.pidmap # <<>>,
   confpids |-> [k \in Kinds |-> IF l.pidmap # <<>> THEN l.pidmap[1] ELSE Unused]]

\* The search of map_es_pid ends within the PIDs: there are more of them from
\* the wanted one on than ESs that could have taken them.
ASSUME RoomAssumption ==
  \A l \in Lines, p \in Pmts : \A i \in DOMAIN p.es :
    Base(Parsed(l), p.es[i]) + i <= MaxPid + 1

Init ==
  /\ conf \in [Slots -> {Parsed(l) : l \in Lines}]
  /\ newpids = [o \in Slots |-> Unmapped]
  /\ freepids = [o \in Slots |-> Unmapped]
  /\ section = [o \in Slots |-> None]
  /\ pmt = None
  /\ block = [b \in BlockIds |-> None]
  /\ queue = [o \in Slots |-> <<>>]
  /\ wire = {}

-----------------------------------------------------------------------------
(* Tables and configuration.                                               *)

\* A new PMT of the program: HandlePMT makes the section of its outputs again.
HandlePMT(p) ==
  /\ p # pmt
  /\ pmt' = p
  /\ section' = [o \in Slots |-> IF conf[o].program
                                 THEN IF p # None THEN NewPMT(conf[o], p) ELSE None
                                 ELSE section[o]]
  /\ newpids' = [o \in Slots |-> IF Made(conf[o], p) THEN MapPmt(conf[o], p).new ELSE newpids[o]]
  /\ freepids' = [o \in Slots |-> IF Made(conf[o], p) THEN MapPmt(conf[o], p).free
                                  ELSE freepids[o]]
  /\ wire' = {}
  /\ UNCHANGED <<conf, block, queue>>

\* demux_Change: a change of any of these parts makes the section again.
demux_Change(o, l) ==
  /\ conf[o] # Parsed(l)
  /\ conf' = [conf EXCEPT ![o] = Parsed(l)]
  /\ Rebuilt(o, Parsed(l), pmt)
  /\ wire' = {}
  /\ UNCHANGED <<pmt, block, queue>>

-----------------------------------------------------------------------------
(* Packets.                                                                *)

\* A packet of PID p goes to the outputs of set S, which share its block.
demux_Handle(p, S) ==
  /\ S # {}
  /\ \E b \in BlockIds :
       /\ block[b] = None
       /\ block' = [block EXCEPT ![b] = [pid |-> p, tmp_pid |-> Unused,
                                         i_refcount |-> Cardinality(S), origin |-> p]]
       /\ queue' = [o \in Slots |-> IF o \in S THEN Append(queue[o], b) ELSE queue[o]]
  /\ wire' = {}
  /\ UNCHANGED <<conf, newpids, freepids, section, pmt>>

\* The block as output o sends it.
Rewritten(o, b) ==
  IF ~ Remaps(conf[o]) THEN b
  ELSE IF newpids[o][b.pid] = Unused THEN [b EXCEPT !.tmp_pid = Unused]
  ELSE [b EXCEPT !.pid = newpids[o][b.pid], !.tmp_pid = b.pid]

\* Mutant: the old PID is not put back.
Restored_Not(o, b) == b

\* The block as output o leaves it to the others.
Restored(o, b) ==
  IF Remaps(conf[o]) /\ b.tmp_pid # Unused THEN [b EXCEPT !.pid = b.tmp_pid] ELSE b

Released(o, b) ==
  IF b.i_refcount = 1 THEN None
  ELSE [Restored(o, Rewritten(o, b)) EXCEPT !.i_refcount = @ - 1]

\* Output o sends its oldest datagram, which has n blocks.
output_Flush(o, n) ==
  LET sent == {queue[o][i] : i \in 1 .. n}
  IN  /\ wire' = {[out |-> o, from |-> block[b].origin, pid |-> Rewritten(o, block[b]).pid] :
                    b \in sent}
      /\ block' = [b \in BlockIds |-> IF b \in sent THEN Released(o, block[b]) ELSE block[b]]
      /\ queue' = [queue EXCEPT ![o] = SubSeq(@, n + 1, Len(@))]
      /\ UNCHANGED <<conf, newpids, freepids, section, pmt>>

Next ==
  \/ \E p \in Pmts \cup {None} : HandlePMT(p)
  \/ \E o \in Slots, l \in Lines : demux_Change(o, l)
  \/ \E p \in Carried, S \in SUBSET Slots : demux_Handle(p, S)
  \/ \E o \in Slots : \E n \in 1 .. Len(queue[o]) : output_Flush(o, n)

Spec == Init /\ [][Next]_vars

-----------------------------------------------------------------------------
(***************************************************************************)
(* A packet that leaves an output leaves on the PID the PMT of the output  *)
(* announces for its ES or for the PCR, whatever the other outputs that    *)
(* share its block did to the PID before, and in whatever order.           *)
(***************************************************************************)
WireAsAnnounced ==
  \A w \in wire :
    section[w.out] # None =>
      \A a \in section[w.out].es \cup {section[w.out].pcr} : a.from = w.from => a.to = w.pid

(***************************************************************************)
(* Two ESs that are remapped keep apart: "we do this to ensure that        *)
(* multiple audios get unique pids" (cLdvbdemux.cpp:208).                  *)
(***************************************************************************)
MappedApart ==
  \A o \in Slots : \A p, q \in Pids :
    p # q /\ newpids[o][p] # Unused => newpids[o][p] # newpids[o][q]

(***************************************************************************)
(* A block that waits has the PID it came with, and as many references as  *)
(* there are queues that hold it, so the first output that sends it does   *)
(* not free it or leave it remapped for the second.                        *)
(***************************************************************************)
SharedIsIntact ==
  \A b \in BlockIds :
    LET holders == {o \in Slots : b \in Range(queue[o])}
    IN  IF block[b] = None THEN holders = {}
        ELSE block[b].pid = block[b].origin /\ block[b].i_refcount = Cardinality(holders)
=============================================================================
