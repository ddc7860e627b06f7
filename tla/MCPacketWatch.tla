--------------------------- MODULE MCPacketWatch ---------------------------
(* A video PID two outputs take, and the TDT. *)
EXTENDS PacketWatch

MCTakers == [p \in Pids |-> IF p = TdtPid THEN {} ELSE Slots]
=============================================================================
