----------------------------- MODULE MCPidRemap ------------------------------
(* Two outputs, two PMTs with two audio ESs, and lines with and without a map. *)
EXTENDS PidRemap

ES(p, k) == [pid |-> p, kind |-> k, wanted |-> k # "other"]

MCPmts == {[es |-> <<ES(1, "video"), ES(2, "audio"), ES(3, "audio")>>, pcr |-> 1],
           [es |-> <<ES(2, "audio"), ES(4, "other"), ES(1, "spu")>>, pcr |-> 4]}

MCLines == {[program |-> TRUE, pids |-> {}, pidmap |-> <<>>],
            [program |-> TRUE, pids |-> {}, pidmap |-> <<2, 4, 5, 6>>],
            [program |-> TRUE, pids |-> {1, 2, 4}, pidmap |-> <<4, 5, 6, 3>>],
            [program |-> FALSE, pids |-> {1, 2}, pidmap |-> <<>>]}

MCNoMap == [k \in Kinds |-> 0]
=============================================================================
