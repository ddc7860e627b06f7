--------------------------- MODULE MCPassthrough -----------------------------
(* Two lines of one program, one with numbers of its own, a passthrough     *)
(* line, and sections of less and of more than a packet.                    *)
EXTENDS Passthrough

Line == [sid |-> 1, new_sid |-> 0, tsid |-> 7, onid |-> 0, dvb |-> TRUE, epg |-> TRUE,
         passthrough |-> FALSE]

MCConfigs == {Line, [Line EXCEPT !.new_sid = 2, !.tsid = 8, !.onid = 9],
              [Line EXCEPT !.sid = 0, !.passthrough = TRUE]}

MCSections == {[table |-> 78, sid |-> 1, onid |-> 5, units |-> 1],
               [table |-> 95, sid |-> 1, onid |-> 5, units |-> 7]}

MCCats == {[p \in Pids |-> 0], [p \in Pids |-> 1]}
=============================================================================
