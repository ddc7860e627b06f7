---------------------------- MODULE MCPidRouting ----------------------------
(* Small values for the constants of PidRouting.                           *)
EXTENDS PidRouting, TLC

CONSTANTS s1, s2, m1, m2, v, a, z,  \* the names the values below use
          MaxDrift, MaxPsi            \* bounds on psi_refcount, see BoundedCounts

\* Two programs that come, go, and move or share a PMT PID.
MCPatTables ==
  { [s \in {s1, s2} |-> NoPid],
    [s \in {s1, s2} |-> IF s = s1 THEN m1 ELSE NoPid],
    [s \in {s1, s2} |-> m1],
    [s \in {s1, s2} |-> IF s = s1 THEN m2 ELSE m1] }

\* The same without the PAT that lists only one of them.
PairPatTables ==
  { [s \in {s1, s2} |-> NoPid],
    [s \in {s1, s2} |-> m1],
    [s \in {s1, s2} |-> IF s = s1 THEN m2 ELSE m1] }

\* A PCR on a stream, on a PID of its own, or nowhere; clear or scrambled.
MCPmtTables ==
  { [pcr |-> v, es |-> {v}, scrambled |-> FALSE],
    [pcr |-> a, es |-> {v}, scrambled |-> TRUE],
    [pcr |-> NoPid, es |-> {a, v}, scrambled |-> TRUE] }

\* A PID of its own for the PCR that becomes a stream, scrambled or clear.
NamedPmtTables ==
  { [pcr |-> a, es |-> {v}, scrambled |-> TRUE],
    [pcr |-> NoPid, es |-> {a, v}, scrambled |-> FALSE] }

WholeConfigs == { [sid |-> s1, pids |-> {}], [sid |-> s2, pids |-> {}], NoConfig }

MixedConfigs ==
  { [sid |-> s1, pids |-> {}], [sid |-> s1, pids |-> {v}], [sid |-> s2, pids |-> {a, z}] }

\* Addresses are only compared, so they can be exchanged.
AddrSymmetry == Permutations(Addrs)

(***************************************************************************)
(* Reloading the file between PAT changes drifts the counts without end;   *)
(* the runs follow them a little way to both sides of the values correct   *)
(* counts take.                                                            *)
(***************************************************************************)
BoundedCounts ==
  \A p \in Pids : /\ psi_refcount[p] \in (-MaxDrift) .. MaxPsi
                  /\ refcount[p] \in (-MaxDrift) .. MaxPsi + MaxOutputs

=============================================================================
