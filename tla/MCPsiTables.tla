---------------------------- MODULE MCPsiTables ----------------------------
(* Two programs, PATs with both, one and another id, and six kinds of line. *)
EXTENDS PsiTables

MCPats == {[tsid |-> 7, pmt_pid |-> [s \in {1, 2} |-> IF s = 1 THEN 100 ELSE 0]],
           [tsid |-> 7, pmt_pid |-> [s \in {1, 2} |-> 200]],
           [tsid |-> 8, pmt_pid |-> [s \in {1, 2} |-> IF s = 1 THEN 100 ELSE 0]]}

MCSdts == {[s \in {1, 2} |-> IF s = 1 THEN "a" ELSE None], [s \in {1, 2} |-> "b"]}

Line == [sid |-> 1, new_sid |-> 0, tsid |-> -1, dvb |-> TRUE,
         pmt_pid |-> 0, name |-> "a", passthrough |-> FALSE]

MCConfigs == {Line,
              [Line EXCEPT !.sid = 2, !.new_sid = 1, !.dvb = FALSE, !.name = "b"],
              [Line EXCEPT !.pmt_pid = 200, !.tsid = 8],
              [Line EXCEPT !.sid = 0, !.passthrough = TRUE]}
=============================================================================
