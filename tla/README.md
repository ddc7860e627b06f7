# dvblast-cpp: TLA+ specifications

Modules, model-checking configurations and proofs for the program in `src/`: a
DVB demultiplexer that reads one transport stream (from a DVB card, an ASI
board or the network), selects programs and PIDs, rewrites the tables and
sends the result to any number of network outputs.

`PROJECT.json` ties every definition to the lines it models, lists the runs
with what they show, the hazards of the code and the theorems. This file
explains how the parts fit together and how far to trust them.

* [The system](#the-system)
* [The modules](#the-modules)
* [Runs and bounds](#runs-and-bounds)
* [Fairness](#fairness)
* [What is proved](#what-is-proved)
* [Where the code and its documentation disagree](#where-the-code-and-its-documentation-disagree)
* [What is not modelled](#what-is-not-modelled)
* [Plan](#plan)

Run a model with `tlc -config <run>.cfg <module>`, a proof with
`tlapm <module>.tla`.

## The system

The program is one thread around a libev loop. `cLdvbapp` calls
`demux_Setup`, `output_Setup`, `demux_Open`, the loop, `demux_Close`. All the
rest runs in callbacks, each to its end: readable devices, timers, and
`SIGHUP`, which reloads the configuration. The inheritance chain `cLdvbobj` →
`cLdvboutput` → `cLdvben50221` → `cLdvbdemux` → (`cLdvbdev` | `cLdvbudp` |
`cLdvbasi`) makes one object of it all, so that every part sees the state of
the others. What is hard here is not parallelism but *long sequences of
callbacks*: state that is kept incrementally, in several copies, by handlers
that run in any order, and timers that one callback sets from what another
left.

| Part | State | Operations | Talks to |
|---|---|---|---|
| PID routing and program tracking (`cLdvbdemux.cpp`) | `p_pids[]` (outputs, `i_refcount`, `i_psi_refcount`, filter), `pp_sids[]` (PMT PID, current PMT), PAT sections | `HandlePAT`, `HandlePMT`, `demux_Change` | outputs (subscriptions), device (filters), CAM (programs) |
| Configuration reload (`cLdvbdemux.cpp`, `cLdvboutput.cpp`) | `pp_outputs[]`, `config_t` of each | `config_ReadFile`, `output_Find`, `output_Create`, `output_Change` | routing |
| Output queues (`cLdvboutput.cpp`) | packets of each output, block counts, `i_next_send`, `i_wallclock`, one timer | `output_Put`, `outputs_Send`, `output_Flush`, `output_Close` | demux, sockets |
| PSI assembly (`cLdvbdemux.cpp`) | a section buffer per PID, next table per kind | `HandlePSIPacket`, `HandleSection` | table handlers |
| PSI generation | PAT, PMT, NIT, SDT of each output, versions | `New*`, `Update*`, `Send*` | output queues |
| PID remapping | `pi_newpids`, `pi_freepids`, `tmp_pid` of a block | `map_es_pid`, `output_Flush` | generation, queues |
| CAT/EMM, EIT, TDT | current CAT, `b_emm`, EIT tables and buffers | `HandleCAT`, `HandleEIT`, `FlushEIT`, `SendTDT`, `SendEMM` | routing, queues |
| ES supervision | `i_pes_status`, a timer per PID, error counters | `demux_Handle`, `PrintESCb` | CAM (reset) |
| Conditional access (`cLdvben50221.cpp`) | slots (active, expecting, queues, pending session), sessions, selected programs | `TPDURecv/Send`, `Session*`, `en50221_Poll`, `ResetSlot`, `Add/Update/DeletePMT`, MMI | device, routing |
| DVB front end (`cLdvbdev.cpp`) | `i_last_status`, `lock_watcher`, `mute_watcher`, `quit_watcher` | `FrontendSet`, `FrontendRead`, `DVRRead`, `DVRMuteCb`, `FrontendLockCb` | demux, CAM (reset) |
| UDP and ASI input | sequence numbers, mute timer | `udp_Read`, `asi_Read` | demux |

The state of the other parts (sockets, MRTG file, command line, loop wrapper)
is set once or only written.

What makes each of them correct:

* **Routing.** An output gets the PIDs its line asks for under the current
  PAT and PMTs, no matter how the tables and the lines got there; a PID is
  received exactly while someone uses it; the CAM descrambles exactly the
  scrambled programs somebody streams; a reload disturbs no output it keeps.
* **Queues.** Blocks leave in order and once, none is freed early or kept,
  none waits longer than its latency, and none for ever.
* **Front end.** A locked front end is watched for packets, an unlocked one for
  its lock; when either fails it is tuned again.
* **PSI input.** A section is handed on once and whole if all its packets
  came, and not at all otherwise.
* **PSI output.** Every output has tables that say what its line and the
  current input say, a PMT where its PAT announces it, and a version that
  changes with the contents.
* **PID remapping.** A packet leaves on the PID the PMT of its output announces,
  although all outputs share one copy of it.
* **Passthrough.** EIT packets have consecutive counters and the numbers of
  their own output, none waits for ever; the EMM PIDs of the current CAT are
  received, whoever else uses them.
* **Supervision.** A PID is down exactly when it was silent for its timeout; the
  CAM is reset when it fails, and not again before it could start.
* **Conditional access.** No command is lost between two answers, a session
  belongs to a running module, a module knows the selected programs once it
  has said it is ready, and a module that stops answering is reset.

The hazards in `PROJECT.json` name the lines where each of these can break.

## The modules

| Module | Models |
|---|---|
| `PidRouting` | subscriptions, reference counts, filters, programs, CAM selection, reload |
| `RoutingPolicy` | abstract: what an output receives as a function of tables and lines |
| `MCPidRouting` | constants and bounds for TLC |
| `PidRoutingProofs` | invariants of `PidRouting`, and that it implements `RoutingPolicy`, proved |
| `OutputQueue` | packets, blocks, the clock of the loop, the send timer |
| `OutputLine` | abstract: one FIFO of blocks per output, and who holds a block |
| `MCOutputQueue` | symmetry for TLC |
| `OutputQueueProofs` | invariants of `OutputQueue`, and that it implements `OutputLine`, proved |
| `CamLink` | EN 50221: TPDU queues, sessions, slots, their timers and resets |
| `CaPmt` | the list of programs each CAM module is told to descramble |
| `MCCaPmt` | symmetry for TLC |
| `CaPmtProofs` | invariants of `CaPmt`, proved |
| `Frontend` | lock, mute and quit timers, status events, transport errors |
| `DeviceProofs` | invariants of `CamLink` and `Frontend`, proved |
| `PsiAssembly` | sections put together from packets that get lost, repeated or spoilt |
| `MCPsiAssembly` | lengths for TLC |
| `PsiTables` | PAT, PMT, NIT and SDT of each output: when rebuilt, to whom sent |
| `MCPsiTables` | tables and lines for TLC |
| `PsiTablesProofs` | invariants of `PsiTables`, proved |
| `PidRemap` | PID maps, announced PIDs, and the rewriting of shared blocks |
| `MCPidRemap` | PMTs and lines for TLC |
| `PidRemapProofs` | invariants of shared blocks, of the maps and of what is sent, proved |
| `Passthrough` | EIT renumbering and packing, CAT and EMM PIDs |
| `MCPassthrough` | sections, CATs and lines for TLC |
| `PassthroughProofs` | invariants of `Passthrough`, proved |
| `PacketWatch` | ES timers, CAM and tuner watchdogs |
| `MCPacketWatch` | subscribers for TLC |
| `PacketWatchProofs` | invariants of `PacketWatch`, proved |

### PidRouting

An output is a slot of `pp_outputs` (`1 .. MaxOutputs`); `valid` is
`OUTPUT_VALID`, `still` is `OUTPUT_STILL_PRESENT`, `conf[o]` the program and
the PID list of its line, `addr` what `output_Find` compares. `pat` and
`tsid` are the current PAT; `todo` the programs of it that `HandlePAT` has
still to compare, so that the loop of that function is one step per program
(`CompareProgram`) and its effects on counts appear in every order of program
numbers. `pmt_pid` and `pmt` are the `sid_t` records. `subs[p]` is
`pp_outputs` of the PID, `refcount` and `psi_refcount` its counts, `filter` the
PIDs whose device filter is open, `descrambled` the programs the CAM was asked
for.

* `HandlePAT` takes a new table, `CompareProgram` handles one program of it,
  `DeleteProgram` included.
* `HandlePMT` acts only when the PMT PID is received and parsed
  (`psi_refcount > 0`), as `demux_Handle` does.
* `demux_Change` is the action of a line (`ReadLine`), of the end of the file
  for an output that is gone (`CloseStale`). The arguments are the ones the
  code passes; the order inside (temporary values of `config.i_sid`, stop
  before start, CAM after) is kept through `SelectedByOthers` and the order of
  `Closes` and `Opens`.
* `BeginReload`, `ReadLine`, `EndOfFile` and `CloseStale` are
  `config_ReadFile`. No callback runs between them, and `phase` says so.
* Counts may go negative, as they can in the code (`i_refcount` is a signed
  field that `UnsetPID` decrements without a test): hiding that would hide the
  drift of `i_psi_refcount`.

ECM passthrough (`-Y`) is off: the ECM PID of a selected ES would be one more PID in
`es`. A line has no passthrough, remap or watch flag here. `PmtTables`, `PatTables`
and `Configs` are the tables and lines the environment may produce.

`RoutingPolicy` has the lines (`want`), the tables (`prog`, `table`) and the
routes, and each of its steps sets every route to what the lines and tables
say. `ImplementsPolicy` maps `subs` onto `route`. It holds for outputs that take
whole programs, which is both checked (run `PidRouting_whole`) and proved. For
outputs with a PID list it does not, for the reasons under
[disagreements](#where-the-code-and-its-documentation-disagree).

The model also has `-w` (`SelectPmts` FALSE) and budget mode (`BudgetMode`
TRUE). The theorems quantify over them where their statement allows it; the TLC
runs use the defaults.

### OutputQueue

`now` is the real time and `i_wallclock` what the program believes, read at
the start of a read and after each `writev`. The difference between the two is
the source of the timing properties. `queue[o]` is the list of packets (date and
blocks) of an output, `refcount` the count of each block, `timer` the moment
libev calls `outputs_Send`, `i_next_send` the deadline that function keeps for
all outputs. `cursor` is its program counter: the loop over the outputs is cut
at every `writev`, which may take up to `MaxWrite`, and no other callback runs
meanwhile; `started` is the time libev has for that callback, from which it
counts a new delay. `Handle(b, ..)` is `demux_Handle` of a block that is routed
to a set of outputs: the set is arbitrary, which covers what `PidRouting` can
produce. `dts` and `last_dts` are the dates `SetDTS` may give, `Configure` and
`Close` the reload (`valid`, `latency`).

A block with a PCR changes the date of the packet it joins, as the code does, so
that the retention window slides: no property bounds the age of a datagram that
gets PCRs all the time.

The bounds `MaxNow` and `MaxWrite` limit time. A block that has been freed can
arrive again, as the freelist of `block_New` reuses it.

`OutputLine` forgets packets, dates and timers: blocks wait in one line per
output and leave from its head. `ImplementsLines` also maps the reference
count: it is the number of lines that hold the block. `Line` joins the blocks of
the first n datagrams for each n, as a recursive function.

### Frontend

A timer is the time it has still to run, or `Off`. Time passes (`Tick`) only
when no timer has expired, which is libev being prompt: a timer that is
late would only widen the time between two callbacks, and every callback may
already come at any time before. `FrontendRead` is cut at each event it
takes from the driver; `reading` keeps others out. `FrontendSet` is modelled
by what matters to the timers: it drops the queued events, forgets the status
and starts the lock timer, or the program exits.

The names of `Init`, `Next` and their like have the prefix `Frontend`, so that
`DeviceProofs` can extend this module next to `CamLink`; the two share nothing.

In `FrontendInit` the lock timer is off although `dev_Open` has tuned the front end:
it calls `FrontendSet` before `cLev_timer_init(&lock_watcher)`. The memory of
the object is larger than what malloc serves from its heap and comes zeroed,
on which the program relies elsewhere (`p_freelist`), so `cLev_timer_again`
finds a watcher with no repeat value and starts nothing.

The quit timer (`-Q`) is started by `demux_Open` and looks at nothing else, so
that `Ends` holds without any assumption about the front end. (The usage text
speaks of quitting *when locked*; nothing in the code does.)

### PsiAssembly

One PID. The sender's side is `rest` (units of the current section still to be
sent), `id` and `cc`; a packet holds `Room` units, and a section may start in it
when the one before ends. What arrives is decided by five actions: `Deliver`,
`Skip` (a transport error, or nobody listens: `demux_Handle` takes the counter
and does not call `HandlePSIPacket`), `Lose`, and `Repeat` (the packet comes
once more). `UnselectPMT` and `SelectPMT` stop and start the listening.

The receiver is `buffer` (`p_psi_buffer`), `last_cc` and `psi`. `Finished` and
`FromPointer` are the two calls of `psi_assemble_payload` in `HandlePSIPacket`,
and `LengthOf` is what makes them fragile: the end of a section is known from
the first unit of the buffer only, which need not be the start of one.
`whole`, `due` and `misled` are history. `AssemblyExact` compares what
`HandleSection` got with what was sent and read in full. `misled` marks its one
exception: an erroneous packet in the middle of a section leaves the counter in
step and the buffer out of step.

`psi_table_section` and the `*_table_validate` of biTStream, which collect
the sections of a table, are not part of the repository's code, and the other
modules take whole tables.

### PsiTables

`output[o]` is the part of `output_t` that concerns tables: the line (`conf`),
`i_tsid`, and the four sections. A section is a record of the fields that can
go wrong: transport stream id, program number, PMT PID, whether the NIT is
announced, and one value for all descriptors. `rebuilds` is the distance of
`i_pat_version` from its value in the last PAT that was sent, which is all a
receiver can tell.

`pat`, `pmt` and `sdt` are the current tables. `HandlePAT`, `HandlePMT` and
`HandleSDT` rebuild what they think is concerned and send; `RepeatPAT`,
`RepeatPMT`, `RepeatSDT` and `HandleNITSection` only send, but `SendPAT` makes an
empty PAT where there is none, and `NewSDT` drops it again. `demux_Change`
keeps the three branches of the code, in which different sections are made
again. `Create` starts from what `output_Init` leaves, with `config.i_tsid` 0,
so that the first line always counts as a change.

`air` is what the last step sent. `PmtPidAt` reproduces that `SendPMT` never resets
`i_pmt_pid` in its loop, and `PmtWhereAnnounced` names the outputs this
concerns. `SectionsFollowInput` leaves out two things the code does not do: it
keeps the PMT of a program that is gone, and `UpdateTSID` rebuilds the NIT only.

### PidRemap

One program and any number of outputs. `MapPmt` is the loop of `NewPMT` over the
first n ESs with `map_es_pid`, as a recursive function of n; `newpids` and `freepids` are the two arrays
of the output, and `section` pairs each announced PID with the one the packets
come on. `Parsed` is what `config_ParseHost` makes of `/pidmap=`: its four
entries all get the first number.

`demux_Handle` puts one block in the queues of a set of outputs, `output_Flush`
sends a datagram of one output: it writes the new PID into the block, remembers
the old one in `tmp_pid`, and puts it back when other outputs still hold the
block (`Rewritten`, `Restored`, `Released`). PMT and line changes happen at any
moment while blocks wait. `wire` has the packets of the last step, with the PID
they came on.

`RoomAssumption` keeps the search for a free PID below `MaxPid`: the PID
wanted for the i-th ES leaves i - 1 PIDs above it. The loop of `map_es_pid` has no
bound and runs off its array otherwise; with 8191 PIDs and the 200 ESs a PMT has
room for, only a map to the last few PIDs comes near.

`WireAsAnnounced` takes the PMT that is current when the packet leaves, as the
code does. `MappedApart` speaks of remapped ESs only: an ES that keeps its PID
may collide with the target of another.

### Passthrough

Two mechanisms that share the outputs. **EIT:** `HandleEIT` gives a section to
the outputs that stream its program; `Stamped` is what `SendEIT` writes into the
section before it is packed, with the restoring of `onid` between outputs;
`Packed` is `OutputPSISection`: the packet that waits (`tail`) is filled first,
then packets of the section's own, and the last one waits again if another
section could start in it. Programs are not numbered 0 (`ProgramsAssumption`),
which is the NIT in a PAT: an EIT section with service 0 would find the entry of
any program that is gone (`FindSID(0)`), and is not modelled. `FlushEIT` is part
of `demux_Handle`: it sends a tail that is older than `MAX_EIT_RETENTION` when
*any* packet is put in its output.

**CAT** (EMM passthrough, `-W`): `HandleCAT` references every EMM PID of the new CAT and releases the
PIDs of the old one that are gone. `refs` is `i_refcount`; `SetPID` and `UnsetPID`
are the outputs that stream such a PID as an ES (`users`). References therefore
grow with each CAT that keeps a PID, which `MaxRefs` cuts; `EmmIsReceived` only
needs them never to be too few.

### PacketWatch

`demux_Handle` of one packet: `Watched` is the ES timer (`i_pes_status`,
`timeout_watcher`), `TunerChecked` the count of transport errors, and
`CamChecked` the loop over the watched outputs of the PID, in which the first
output over the limit resets the CAM and clears the counters of all, so that the
outputs after it count nothing. A packet is four bits and a PID: scrambled,
erroneous, with a unit start, with a PES header. `PrintESCb` is the expiry of a
timer. A date (`i_last_error`, `i_last_reset`) is kept as the time since then.

### CamLink

One half-duplex channel per slot. `b_expect_answer`, `b_active`, `p_send`,
`pending` (`i_pending_session_id`) and `init_watcher` are `ci_slot_t`,
`resource`, `i_slot`, `opened` (the handlers are set) and `p_sys` are
`en50221_session_t`. A TPDU is one of `CREATE_TC`, `RCV` and `DATA`.

A callback runs to its end, but each of its writes may fail and changes what
the next one sees. So a callback puts what it has still to do in `calls`, and
each `Call...` action does the first of it: `TPDURecv` handles the answer and
leaves the replies and the tail of the function (`TailCalls`);
`en50221_Poll` looks at each slot, which may fail, and then polls the idle ones; `Notify` and
`HandleCaInfo` send to several sessions. Nothing else runs until `calls` is
empty.

The module of a slot is external: `ready`, `connected` and `asked` are what it
does. It is *polite*: it answers each TPDU once, sends data only when asked
with `T_RCV`, and speaks only of its own open sessions. It may still fall silent,
be removed with or without a reset, and come back, at any moment between two
callbacks. `CA_RESET` takes it down.

`failed` is a history variable: the slots where a write has failed since their
reset. A failed write loses a TPDU and breaks the chain of answers until
`en50221_Poll` mends it; `QueuedIsAwaited`, `NoneHalfOpen` and `PendingIsKept`
say what holds until then.

`ResetSlot` does not clear `i_pending_session_id`, and the model keeps that:
after a reset a slot may open a session by a number that now belongs to another
slot, a second time. `SysFollowsSession` and `NoneHalfOpen` hold all the same;
the state of the session that is opened twice is lost (a leak, and its systems
and count with it), which `CaPmt` leaves out.

### CaPmt

`selected` are the programs for which the demux has called `en50221_AddPMT` and
not `en50221_DeletePMT` (`descrambled` in `PidRouting`). A session of the CA
resource is `free`, `asked` for (`SessionOpen`) or `open` (`SessionOpenCb`);
`ids`, `count` and `list` are the systems its module has declared, its
`i_selected_programs` and the list its module has. `todo` makes the loop of
`dev_ResendCAPMTs` one step per program; no other callback runs meanwhile.

`running` becomes FALSE where the process may die: `en50221_AddPMT` and its kind
look at the resource of a session only, and between `SessionOpen` and
`SessionOpenCb` its `p_sys` is null or left from another session
(`AfterWrite`, `AfterRead`).

Assumed here: the link delivers what is sent (`CamLink` has the failures), a
session is opened once, a selected program has a selected stream and keeps its
CA systems, and a module that repeats `AOT_CA_INFO` repeats the same systems.

### Composition

The parts meet at few points, and each module keeps the other side of them
free: the routing decides which outputs a block goes to (any set in
`OutputQueue`, `PidRemap` and `Passthrough`); tables come in any order
(`PsiTables`, `PidRouting`) because nothing the assembly does depends on them;
which blocks share a datagram is free in `PidRemap` and decided in
`OutputQueue`; the mute timer and the watchdog reset the CAM (nothing in
`Frontend` or `PacketWatch` depends on it); the CAM is told of programs
(`descrambled` in `PidRouting`, `selected` in `CaPmt`), through a link that
carries any notification at any time (`Notify` in `CamLink`).

## Runs and bounds

`PROJECT.json` has one line per run. Here is why the bounds are enough.

* **PidRouting**: two outputs, because every rule distinguishes only this
  output and the others; two programs, which share or exchange a PMT PID; a
  video and an audio PID, of which one can be the PCR, and `z`, which no PMT
  lists. PATs with none, one and both of the programs, with one PMT PID for
  both or two. PMTs where the PCR is on a stream, on a PID of its own, or
  absent, clear and scrambled. `BoundedCounts` cuts the drift of the counts:
  one below and one above what correct counts reach is where the behaviour
  changes (a test against zero); beyond that the same steps repeat.
  `PidRouting_whole` lets `dev_SetFilter` fail at any call; `PidRouting_named`
  mixes whole programs and PID lists.
* **OutputQueue**: two outputs with different latencies for the one timer, a
  datagram of two blocks for full and partly filled packets, three blocks for
  a queue of two packets. In `OutputQueue_timer` blocks arrive until time 2
  with latencies of 1 and 2, a retention of 1 and writes of up to 1, and the
  clock goes on as long as anything is queued: every deadline passes. It uses
  no symmetry, because it checks liveness.
* **Frontend**: lock, mute and quit timeouts of 2, 3 and 4 make every order of
  expiry possible, two queued events give a loop of `FrontendRead` that is cut
  by a retune, and one tolerated error gives a count at its limit. Each
  behaviour starts with or without `-Q`.
* **CamLink**: two slots, because a callback of one may send on sessions of the
  other and sessions are shared; two sessions, so that they run out and numbers
  pass from one slot to another; one resource of each kind the code treats
  differently (with CA PMTs, with a timer, silent when opened, refused).
  `MaxQueue` lets notifications go to slots with an empty queue only, but one may
  send on two sessions of a slot and replies join it, so that queues of two
  arise; longer ones only repeat.
* **CaPmt**: two modules, because what one declares counts in the session of the
  other; three programs, for a list that is replaced, grown and reduced;
  `MaxCount` cuts the repetition of `AOT_CA_INFO` where the count has passed the
  number of programs by one.

* **PsiTables**: two outputs, because `SendPMT` leaks from one to the next; two
  programs, which share a PMT PID in one PAT; a PAT with another transport stream
  id; an SDT without one program and one with both; four lines: plain, with
  another program number and no DVB tables, with a PMT PID and a transport stream
  id of its own, and passthrough. `MaxRebuilds` of 2 lets two PATs be made
  between two that are sent, and the theorem covers up to 29.
* **PsiAssembly**: sections of 1, 2 and 5 units in packets of 3: several in one
  packet, one that ends where the packet does, one that takes three packets or
  two. Up to 2 packets lost in a row with a counter modulo 4: more could not be
  noticed, in the code at 16 as here at 4 (`LossAssumption`). Three section
  numbers tell a section from the one before and the one after. A misread
  length of 2 ends inside a packet.
* **PidRemap**: six PIDs and two blocks; PMTs that share ESs and differ in their
  kinds, their order and the PCR (on an ES that moves, and on one without a
  place in the map); lines without a map, with one, with one and a PID list, and
  without a program. Two blocks in two queues give every overlap of datagrams.
* **Passthrough**: two outputs of one program with sections of 1 and of 7 units
  in packets of 4, so that a packet is left waiting, filled up by the next
  section, and padded; counters modulo 3, less than the packets of two
  sections; a retention of 1. One PID is enough for the CAT part: the PIDs do
  not interact.
* **PacketWatch**: the TDT with its own timeout and a video PID that two outputs
  watch; one tolerated error, so that a second one resets and the order of the
  outputs in the loop matters; a wait shorter than the refractory period, as in
  the code.

`CHECK_DEADLOCK FALSE` is in the Frontend and CaPmt configurations only: there the
program may end (a failed ioctl, `-Q`; a null `p_sys`), and a stopped loop does
nothing.

## Fairness

* `OutputQueue`: weak fairness of the steps of `outputs_Send` and of its
  expiry (libev runs an expired timer) and strong fairness of the clock. Nothing
  is assumed of the input: it may never come, and may come all the time.
* `Frontend`: strong fairness of the clock (`Tick` is disabled by each
  callback for a moment; real time passes whatever the loop does), weak
  fairness of the callbacks of expired timers and of the loop of `FrontendRead`.
  Neither packets nor status events need come.
* `PacketWatch`: weak fairness of the clock and of expired timers. That the
  packets of a failing stream keep coming is the hypothesis of `FailingIsReset`.
* `Passthrough`: weak fairness of the clock only. `FlushEIT` runs when a packet
  is put in the output, so `TailLeaves` has the packets of the output as its
  hypothesis: without any the tail stays.
* `PidRouting`, `PsiTables`, `PsiAssembly`, `PidRemap`, `CamLink` and `CaPmt`
  state safety only. Tables, lines, packets and modules come when they come.

## What is proved

The theorems hold for any values of the constants that the named
assumptions allow (`ASSUME` in the modules, which TLC evaluates in every run).
Every invariant and every action property that a run checks is proved, except
`AssemblyExact`.

Some operators are recursive functions (`Line`, `MapPmt`, `OnidAt`). What they
compute is proved without an induction theorem that takes a predicate: the
arguments for which the claim fails are a set of numbers, and it has no least
element (`WFMin`). Where the definition has to be shown to exist first,
`CountUp` says that a set that has 0 and the successors of its members has every
number, and is applied to the set of the lengths up to which it does
(`LoopExists`).

**PidRoutingProofs.** `TypeOK` is inductive with the links it contains between
`phase`, `todo` and `still`. `ReferencesBalanced` is the core: every reference
of a PID is one of its subscriptions, a section user, or the one that
`demux_Open` took. The proof goes through each handler and shows that
`CountPIDs` moves counts, subscriptions and section users together.
`CountedOpen` (no failing device) follows the filter through `SetPID` and
`UnsetPID`; `SubscribedReceived` combines the two for streams where PMT PIDs
carry only PMTs (`Separated`: there a PMT PID has section users only, which
drift, and every other PID has subscriptions only, which do not). `UnusedClosed`
needs `FilterIsUsed`, the converse of `CountedIsOpen` for elementary PIDs.
`ReloadKeeps` is an action property: `SetPID` comes before `UnsetPID` wherever a
PID passes from one wish to the next. `CamTracks` shows that the three handlers
that tell the CAM agree on who selects a program.

`RoutesAreExact` is proved from `RouteInv`: an output is subscribed to a PID
exactly when its program is in the PAT and its PMT marks the PID. Each handler
moves the subscriptions by a difference (of two PMTs, of two wishes), so every
case starts from an exact state and shows that the difference leads to an exact
one. `PolicyIsImplemented` is the refinement: `Routed` says that the routes are
the ones of the policy, and each action maps to the policy's step for a PAT, a
PMT or a line, or to a stutter. Both are stated for whole programs
(`WholePrograms`) in streams where PMT PIDs carry only PMTs, as is the run.

**OutputQueueProofs.** `PendingArmed`: a queued datagram has a running timer
or `outputs_Send` is at work; the invariant behind it relates the timer,
`i_next_send` and the outputs that the loop has already accounted for.
`LatenessBounded`: the timer is never later than `i_next_send` by more than
the age of `i_wallclock` when it was set. This is the exact extent of the
latency defect below. `NextSendIsCovering`: `i_next_send` is early enough for
every queue. Its invariant (`CoverInv`) says of a running `outputs_Send` that
the outputs before `cursor` are accounted for.

`LinesImplemented` is the refinement of `OutputLine`. Its invariant (`BlocksInv`):
every datagram has a block and at most `BlockCount` of them (`Filling`), no queue
holds a block twice (`Once`), and a count is the cardinality of the set of
outputs that hold the block. Lemmas about `Line` say what a block that joins the
last datagram, one that opens a new one, and a datagram that leaves do to the
line. Each action then maps: `demux_Handle` to a block that arrives at a set of
lines, `output_Flush` and `output_Close` to blocks that leave from a head, the rest
to stutters.

**DeviceProofs, CamLink.** All its properties speak of the moments between two
callbacks; `LinkInv` says what holds within them, for any number of calls left to
do. `Ordered` is about `calls` alone: which call may come after which, so that the
response to a module comes first, its queue goes on before `SessionOpenCb`, and
`T_RCV` comes last. With it:

* `AwaitedInv`: a queue is awaited, or its `Write` is still in `calls`. This
  becomes `QueuedIsAwaited`.
* `ActiveInv`: sessions, queues and calls belong to slots with a connection, but
  for the calls of a poll. This becomes `InactiveIsClean`; `ResetSlot` is only called
  when nothing or a poll runs, so no call is left for a slot it has reset.
* `AskedInv`, `RcvInv`, `ResponseInv`: `T_RCV` is never queued, a module is not asked
  for data while its session waits to be opened, so when `SessionOpen` runs there
  is no such session. This gives `PendingIsKept`, an action property.
* `HalfInv`: a session that is taken is open, pending, on a slot whose write
  failed, or its response is still in `calls`. This becomes `NoneHalfOpen`.

One lemma per kind of step (`SendStep`, `SkipStep`, `OpenStep`, `RecvStep`,
`ResetStep`, `StartStep`, `QuietStep`) keeps the invariant; the actions are
instances of them. TLC has checked `LinkInv` on the instance of
`CamLink_sessions`.

**DeviceProofs, Frontend.** `LockWatched`: a front end the program takes for locked
has its packets watched and no lock timer; the invariant adds that a stopped
mute timer implies a status without lock. `StaysSupervised` is an action
property, proved case by case.

**CaPmtProofs.** `ListsOnlySelected` is inductive with `TypeOK`. For
`CountedAreListed` the loop of `dev_ResendCAPMTs` needs a strengthening
(`CountCovers`): a session whose count and the programs still to be added
together reach the number of selected programs lists all of those that are not
waiting. The steps compare cardinalities of sets that differ by one program.

**PsiTablesProofs.** `SectionsFollow` and `VersionsTell` come from one
invariant over single outputs: the sections fit the line and the tables
(`Fits`, which is `SectionsFollowInput` for one output), and the output is
`Sound`: it has its type, few enough rebuilds, and none only if its PAT is the
one that was sent last (`Told`). Outputs do not depend on each other here, so a
lemma per rebuilding function (`NewPAT`, `NewPMT`, `NewNIT`, `NewSDT`, `Rebuilt`)
is enough, and the actions only say which outputs it applies to. `PmtAnnounced` adds that an output that has a PMT has a PAT that announces a
program, and bounds `PmtPidAt` by the outputs before.

**PassthroughProofs.** `EmmReceived` needs `EmmPidsHeld`: the references of a PID
are at least its users and the descriptors of the current CAT together.
Equality does not hold, because `HandleCAT` references a PID again that it
already holds. `EitContinuous` needs `CcFollows`: the packet that waits, or the
next one if none does, has the counter after the last one sent; the rest is
arithmetic modulo `CcMod`. `EitOwn`: whatever the outputs before it wrote into
the section they share, an output finds the network id of the input, because each
of them puts it back (`OnidLeftIsInput`), and an output that gets a section has a
line with a program (`ProgramsAssumption`).

**PidRemapProofs.** `SharedIntact`: no queue holds a block twice (`HeldOnce`), and
the count of a block is the cardinality of the set of queues that hold it
(`Counted`). It holds for any map, whatever the maps become while blocks wait:
`output_Flush` undoes what it did with the map of the moment.

`MapInv` is about the maps: `freepids` is an inverse of `newpids` (`Paired`), and
what the section of an output announces is where its map sends the PIDs
(`Announces`). `MapPmtMakes` proves both of the loop of `NewPMT`, for a PMT of any
length: after n ESs at most n PIDs are taken, so `RoomAssumption` leaves one for
the next ES (`FreeIsFound`), an ES that has its place keeps it, and a new one
disturbs no pair. `MappedStayApart` follows from `Paired`. `WireIsAsAnnounced` needs
both invariants: the block has the PID it came with, and the map of the moment is
the one the current PMT was made with.

**PacketWatchProofs.** `WatchExact` is inductive with the types. `ResetsAreSpaced`
follows from the counters being at most `MaxErrors` between two packets: during
the refractory period nothing counts, so nothing passes the limit.

Only model-checked: `AssemblyExact`, whose receiver is a fold over the units of a
packet; and all liveness (`EverySent`, `Retried`, `Ends`,
`TailLeaves`, `FailingIsReset`), which this prover cannot do.

## Where the code and its documentation disagree

One has a run whose counterexample shows it (`PidRouting_reload_pmt`,
`StreamedPmtIsParsed`): with a PID filter on PMTs, `UnselectPMT` lowers
`i_psi_refcount` for each output that leaves a program, `HandlePAT` raised it once.
After a reload that drops one of two outputs of a program its PMT is no longer
parsed or sent to the other. README:28 promises a reload without losing a packet.

The others are in the models as the code has them:

* **PID lists and the PCR.** An output with a PID list gets the PCR PID when a
  PMT introduces it (`cLdvbdemux.cpp:2050`), not when the PCR moves to a PID the
  PMT already had; a former PCR PID stays; and a reload that names a PID the
  output missed starts nothing, because `demux_Change` takes it for current
  (`cLdvbdemux.cpp:667`). README:191 says that the named PIDs are output, NEWS:36
  that the PCR is added.
* **PCR packets only.** `i_pcr_pid` is cleared on every PMT and set again only for
  a new PCR PID (`cLdvbdemux.cpp:2039`): after an update the whole PID passes.
  NEWS:36: "but drop non-PCR packets".
* **Latency.** The send timer is set from `i_wallclock`, which may be old
  (`cLdvboutput.cpp:872`): a datagram waits for its latency and the time nothing
  was read. The usage text calls `-L` a maximum.
* **Lock timeout.** `dev_Open` tunes before it initialises `lock_watcher`
  (`cLdvbdev.cpp:119`): the first tuning has no timeout, whatever `-O` says.
* **CAM start.** `init_watcher` fires once, and does nothing when no answer is
  expected at that moment (`cLdvben50221.cpp:1518`); a later `T_CREATE_TC` without
  an answer is not watched (`CAM_INIT_TIMEOUT`, "no answer from CAM, resetting").
* **`/pidmap=`.** Each of the four entries is parsed from the start of the value
  again (`cLdvboutput.cpp:475`): all are the first number. README:156 and 205 list
  four different ones.
* **EIT p/f.** `SendEIT` requires `OUTPUT_EPG` for present/following, too; README:54
  has it in DVB compliance mode alone, and the comment at `cLdvbdemux.cpp:1432`
  says "always", as the SDT the output gets then does.
* **`/epg`.** README:146: "turns on -C -e"; it turns on the second only
  (`cLdvboutput.cpp:417`).
* **PIDs only.** README:201: no PAT is generated; `SendPAT` sends an empty one.

Seen while modelling, and not contradicted by a text:

* Queues: the retention window slides with each PCR (`output_Put`).
* Front end: `-Q` does not look at the lock.
* CAM: a pending session survives the reset of its slot; `en50221_AddPMT` may
  write through a null `p_sys`; after `en50221_DeletePMT` has come between the
  opening of a CA session and its first `AOT_CA_INFO`, the count of the session
  is one too low, and a second program is sent with "only", which takes the
  first one off; `en50221_Reset` clears timers that run.
* Tables: `SendPMT` keeps the PMT PID of one output for those after it;
  `UpdateTSID` leaves the old id in the SDT and in an empty PAT; the last
  schedule table (0x5f) is beyond `MAX_EIT_TABLES` (`cLdvboutput.h:43`), so that
  `HandleEIT` sends its sections and then neither stores nor frees them.
* ECM (`-Y`): `GetPIDS` takes the ECM PIDs of selected ESs (`cLdvbdemux.cpp:942`),
  `mark_pmt_pids` and `DeleteProgram` those of every ES: what an output gets
  depends on whether its PMT or its line came last.
* Remapping: the search for a free PID has no bound; the PMT PID of the output
  takes no part in it, and neither do PIDs without a place in the map, so that
  two streams may meet on one PID; the map stays when the program or its PMT
  goes.
* EMM: references of a PID grow with each CAT that keeps it; `b_emm` stays set in
  budget mode; an output that streams an EMM, TDT or TOT PID gets its packets
  twice.
* Assembly: a packet with a transport error in the middle of a section spoils
  the sections of the next packet, too.

## What is not modelled

* **Text and sockets.** The parsing of addresses and lines (but for `/pidmap=`),
  sockets, RTP headers and the command line: no state after start-up.
* **Tuning.** The parameters of `FrontendSet`: arguments of one ioctl.
* **Statistics.** `PrintCb`, bit rates, continuity errors of streams, the MRTG
  file: written, and read by nobody.
* **UDP and ASI input.** One read per callback that ends in `demux_Run`, with a mute
  timer and an RTP sequence number that are only logged. The reads can give any
  blocks, which is what the other modules assume of the input. (`p_readv`, for
  piped input, does not return at the end of the pipe: it takes 0 for progress.)
* **The communication socket** (`cLdvbcomm.cpp`) is not part of the build, and the
  store of EIT sections (`eit_table`) has no other reader.
* **ATSC.** With `i_delsysatsc` the program reads the sections of every PID, and
  `HandleATSCSection` makes an SDT out of a channel table with the code of
  `cLdvbatsc.c`, which keeps nothing. What arrives that way is an SDT like any
  other (`HandleSDT` in `PsiTables`); the conversion and the additional reading
  are not modelled.
* **Completion of tables** of several sections is biTStream's, as is the
  validation of tables; a handler gets a whole table or a refused one.
* **CAM.** The MMI dialogue (menus and answers between a user and a module), the
  contents of APDUs, the reassembly of SPDUs from `T_DATA_MORE`, and the
  high-level CA_CI interface.
* **Change of MTU.** `output_Change` reallocates the packet that is being filled;
  what can go wrong there is memory layout. `outputs_Close` at the end of the
  program is left out as well.
* **`SetDTS`.** The division that spreads dates over a read; `OutputQueue` takes
  any non-decreasing dates.

libev, the driver, the CAM and biTStream are external: what the code relies on is
in the actions that stand for them.

## Plan

All modules above are written. What would add most next, in this order:

1. A proof of `AssemblyExact`, with an invariant that relates the buffer to what
   the sender has still to send, packet by packet.
2. Compositions: `CaPmt` with `selected` from `PidRouting`; `CamLink` with the
   mute timer of `Frontend` and the watchdog of `PacketWatch`; `PidRemap` on the
   datagrams of `OutputQueue`.
3. The MMI dialogue and the reassembly of long SPDUs.
4. The change of MTU, `outputs_Close` and the arithmetic of `SetDTS`.
