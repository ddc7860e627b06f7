----------------------------- MODULE OutputLine -----------------------------
(***************************************************************************)
(* What the outputs promise about blocks: each output is a line.  A block  *)
(* joins the end of several lines at once, leaves each of them at the      *)
(* front, and exists as long as it is in some line.                        *)
(***************************************************************************)
EXTENDS Naturals, Sequences

CONSTANTS Outputs, Blocks

VARIABLES
  line,  \* output -> blocks it has still to send
  held   \* blocks whose memory is in use

vars == <<line, held>>

InLine(b) == \E o \in Outputs : \E i \in 1 .. Len(line[o]) : line[o][i] = b

\* Memory is in use exactly for the blocks some line still has.
Reclaimed == held' = {b \in Blocks : InLine(b)'}

Init ==
  /\ line = [o \in Outputs |-> << >>]
  /\ held = {}

Join(b, outs) ==
  /\ b \notin held
  /\ line' = [o \in Outputs |-> IF o \in outs THEN Append(line[o], b) ELSE line[o]]
  /\ Reclaimed

\* One datagram leaves.
Leave(o, n) ==
  /\ line' = [line EXCEPT ![o] = SubSeq(@, n + 1, Len(@))]
  /\ Reclaimed

\* The output is closed.
Drop(o) ==
  /\ line' = [line EXCEPT ![o] = << >>]
  /\ Reclaimed

Next ==
  \/ \E b \in Blocks, outs \in SUBSET Outputs : Join(b, outs)
  \/ \E o \in Outputs : \E n \in 1 .. Len(line[o]) : Leave(o, n)
  \/ \E o \in Outputs : Drop(o)

Spec == Init /\ [][Next]_vars

=============================================================================
