---------------------------- MODULE RoutingPolicy ----------------------------
(***************************************************************************)
(* What the demux promises about routing, without reference counts,        *)
(* filters or differences of tables: the PIDs an output gets are always a  *)
(* function of its own configuration line and of the tables of the         *)
(* program it names.  A step changes the line of one output, announces or  *)
(* withdraws one program, or replaces the table of one program; nobody     *)
(* else's route moves.                                                     *)
(***************************************************************************)
CONSTANTS Slots, Sids, Pids, Pmts, AllConfigs, NoSid, NoPid, NoPmt, NoConfig

VARIABLES
  want,   \* output -> what its line asks for, NoConfig if it has none
  prog,   \* program -> its PMT PID, NoPid if the PAT does not list it
  table,  \* program -> its PMT
  route   \* output -> PIDs it gets

vars == <<want, prog, table, route>>

Known(s) == s # NoSid /\ prog[s] # NoPid

\* The streams asked for, by name or as everything in the program.
Streams(c) == IF c.pids # {} THEN c.pids ELSE IF Known(c.sid) THEN table[c.sid].es ELSE {}

\* The clock of the program, unless it travels on the PMT PID.
Clock(c) == IF Known(c.sid) THEN {table[c.sid].pcr} \ {NoPid, prog[c.sid]} ELSE {}

Route(c) == Streams(c) \cup Clock(c)

Init ==
  /\ want = [o \in Slots |-> NoConfig]
  /\ prog = [s \in Sids |-> NoPid]
  /\ table = [s \in Sids |-> NoPmt]
  /\ route = [o \in Slots |-> {}]

\* Every route follows the new lines and tables.
Rerouted == route' = [o \in Slots |-> Route(want[o])']

Configure(o, c) ==
  /\ want' = [want EXCEPT ![o] = c]
  /\ UNCHANGED <<prog, table>>
  /\ Rerouted

Announce(s, p) ==
  /\ prog' = [prog EXCEPT ![s] = p]
  /\ table' = [table EXCEPT ![s] = NoPmt]
  /\ UNCHANGED want
  /\ Rerouted

Describe(s, t) ==
  /\ Known(s)
  /\ table' = [table EXCEPT ![s] = t]
  /\ UNCHANGED <<want, prog>>
  /\ Rerouted

Next ==
  \/ \E o \in Slots, c \in AllConfigs : Configure(o, c)
  \/ \E s \in Sids, p \in Pids \cup {NoPid} : Announce(s, p)
  \/ \E s \in Sids, t \in Pmts : Describe(s, t)

Spec == Init /\ [][Next]_vars

=============================================================================
