----------------------------- MODULE PsiAssembly -----------------------------
(***************************************************************************)
(* How the sections of one PID are put together from its packets           *)
(* (demux_Handle, HandlePSIPacket), when packets get lost on the way, come *)
(* twice or have a transport error, and while the demux stops listening to *)
(* the PID and starts again (SelectPMT, UnselectPMT).                      *)
(*                                                                         *)
(* A section is a number of units of which a packet holds Room.  The bytes *)
(* are abstract, but their place matters: the receiver finds the end of a  *)
(* section from the length in its first unit alone, and the start of the   *)
(* next one from the pointer of the packet.                                *)
(***************************************************************************)
EXTENDS Integers, FiniteSetsExt, SequencesExt

CONSTANTS
  Ids,      \* number of sections told apart
  Lengths,  \* units of a section
  Room,     \* units in a packet
  CcMod,    \* modulus of the continuity counter, 16
  MaxLoss,  \* packets lost in a row; bounds the channel
  Misread   \* the length read from a unit that is not the first of a section

ASSUME SizesAssumption ==
  /\ Ids \in Nat \ {0}
  /\ Room \in Nat \ {0}
  /\ Lengths \subseteq Nat \ {0}
  /\ Misread \in Nat \ {0}
\* Losses of a multiple of CcMod packets cannot be noticed.
ASSUME LossAssumption == MaxLoss \in Nat /\ CcMod \in Nat /\ MaxLoss + 1 < CcMod

Units == [id : 1 .. Ids, at : 1 .. Max(Lengths), of : Lengths]

\* The units of section id with n units.
Section(id, n) == [i \in 1 .. n |-> [id |-> id, at |-> i, of |-> n]]

VARIABLES
  rest,    \* units of the current section that are still to be sent
  id,      \* the current section
  cc,      \* continuity counter of the last packet sent
  lost,    \* packets lost in a row
  last,    \* the last packet, its counter and units, if it came through
  buffer,  \* p_psi_buffer
  last_cc, \* i_last_cc
  psi,     \* i_psi_refcount # 0
  handed,  \* what the last step gave to HandleSection
  whole,   \* history: every packet with a unit of the current section was read
  due,     \* history: sections the last step completed with every packet read
  misled   \* history: a packet with an error passed and the buffer is out of step

vars == <<rest, id, cc, lost, last, buffer, last_cc, psi, handed, whole, due, misled>>

TypeOK ==
  /\ rest \in Seq(Units)
  /\ id \in 1 .. Ids
  /\ cc \in 0 .. CcMod - 1
  /\ lost \in 0 .. MaxLoss
  /\ buffer \in Seq(Units)
  /\ last_cc \in -1 .. CcMod - 1
  /\ psi \in BOOLEAN
  /\ whole \in BOOLEAN
  /\ misled \in BOOLEAN

Init ==
  /\ rest = <<>>
  /\ id = 1
  /\ cc = 0
  /\ lost = 0
  /\ last = {}
  /\ buffer = <<>>
  /\ last_cc = -1
  /\ psi = TRUE
  /\ handed = <<>>
  /\ whole = TRUE
  /\ due = {}
  /\ misled = FALSE

-----------------------------------------------------------------------------
(* HandlePSIPacket.                                                        *)

\* The length psi_assemble_payload reads at the start of the buffer.
LengthOf(b) == IF b[1].at = 1 THEN b[1].of ELSE Misread

\* psi_assemble_payload: one more unit, which may complete the section.
Fed(s, u) ==
  LET b == Append(s.buffer, u)
  IN  IF Len(b) = LengthOf(b)
      THEN [buffer |-> <<>>, handed |-> Append(s.handed, b)]
      ELSE [s EXCEPT !.buffer = b]

\* The end of the section in the buffer, if there is one: the first call,
\* which starts at ts_section and ignores where the pointer says it ends.
Finished(b, units) ==
  IF b = <<>> THEN [buffer |-> b, handed |-> <<>>]
  ELSE FoldLeft(Fed, [buffer |-> b, handed |-> <<>>],
                SubSeq(units, 1, Min({LengthOf(b) - Len(b), Len(units)})))

\* The units from ts_next_section on, the first that starts a section.
FromPointer(units) ==
  LET starts == {i \in DOMAIN units : units[i].at = 1}
  IN  IF starts = {} THEN <<>> ELSE SubSeq(units, Min(starts), Len(units))

Assembled(b, units) == FoldLeft(Fed, Finished(b, units), FromPointer(units))

\* Buffer b is what was sent of section i when r is still to be sent, or empty
\* if there is nothing to go on with.
InStep(b, r, i, start_read) ==
  IF start_read /\ r # <<>>
  THEN r[1].at = Len(b) + 1 /\ \A k \in DOMAIN b : b[k].id = i /\ b[k].at = k
  ELSE b = <<>>

Discontinuous(c) == last_cc # -1 /\ c # (last_cc + 1) % CcMod

\* Mutant: a discontinuity does not drop the part in the buffer.
Kept_Always(c) == buffer

\* The part of a section that goes on in a packet with counter c.
Kept(c) == IF Discontinuous(c) THEN <<>> ELSE buffer

-----------------------------------------------------------------------------
(* The channel.                                                            *)

\* What the next packet holds, if the sender starts a section of n units, 0
\* for none, in the room that is left.
Begun(n) == IF n = 0 THEN <<>> ELSE Section((id % Ids) + 1, n)
Content(n) == SubSeq(rest \o Begun(n), 1, Min({Room, Len(rest) + n}))

\* The sender's next packet leaves.
Sent(n) ==
  /\ n # 0 => Len(rest) < Room
  /\ Content(n) # <<>>
  /\ cc' = (cc + 1) % CcMod
  /\ rest' = SubSeq(rest \o Begun(n), Room + 1, Len(rest) + n)
  /\ id' = IF n = 0 THEN id ELSE (id % Ids) + 1

\* The ends of sections in the packet that were read from their start on.
Completed(n) ==
  {u.id : u \in {v \in Range(Content(n)) : v.at = v.of /\ (v.id = id => whole)}}

\* A packet comes through and is read.
Deliver(n) ==
  /\ psi
  /\ Sent(n)
  /\ LET a == Assembled(Kept(cc'), Content(n))
     IN  /\ buffer' = a.buffer
         /\ handed' = a.handed
         /\ misled' = (misled /\ ~ InStep(a.buffer, rest', id', n # 0 \/ whole))
  /\ last_cc' = cc'
  /\ last' = {[cc |-> cc', units |-> Content(n)]}
  /\ lost' = 0
  /\ whole' = IF n = 0 THEN whole ELSE TRUE
  /\ due' = Completed(n)
  /\ UNCHANGED psi

\* A packet comes through with a transport error, or while the demux does not
\* listen to the PID: it is not read, but its counter is kept.
Skip(n, error) ==
  /\ error \/ ~ psi
  /\ Sent(n)
  /\ last_cc' = cc'
  /\ last' = {[cc |-> cc', units |-> Content(n)]}
  /\ lost' = 0
  /\ whole' = FALSE
  /\ misled' = (misled \/ buffer # <<>>)
  /\ handed' = <<>>
  /\ due' = {}
  /\ UNCHANGED <<buffer, psi>>

\* A packet does not come through: lost, or no filter is open for the PID.
Lose(n) ==
  /\ lost < MaxLoss
  /\ Sent(n)
  /\ lost' = lost + 1
  /\ last' = {}
  /\ whole' = FALSE
  /\ handed' = <<>>
  /\ due' = {}
  /\ UNCHANGED <<buffer, last_cc, psi, misled>>

\* Mutant: a packet that comes twice is read twice.
Duplicate_Read(c) == FALSE

Duplicate(c) == c = last_cc

\* The last packet comes once more.
Repeat ==
  /\ psi
  /\ \E k \in last :
       LET a == Assembled(Kept(k.cc), k.units)
       IN  /\ buffer' = IF Duplicate(k.cc) THEN buffer ELSE a.buffer
           /\ handed' = IF Duplicate(k.cc) THEN <<>> ELSE a.handed
  /\ due' = {}
  /\ UNCHANGED <<rest, id, cc, lost, last, last_cc, psi, whole, misled>>

\* Mutant: the part of a section stays in the buffer.
Unselected_Kept == buffer

Unselected == <<>>

\* UnselectPMT drops the last reference to the sections of the PID.
UnselectPMT ==
  /\ psi
  /\ psi' = FALSE
  /\ buffer' = Unselected
  /\ whole' = FALSE
  /\ misled' = FALSE
  /\ handed' = <<>>
  /\ due' = {}
  /\ UNCHANGED <<rest, id, cc, lost, last, last_cc>>

\* SelectPMT takes the first one.
SelectPMT ==
  /\ ~ psi
  /\ psi' = TRUE
  /\ handed' = <<>>
  /\ due' = {}
  /\ UNCHANGED <<rest, id, cc, lost, last, buffer, last_cc, whole, misled>>

Next ==
  \/ \E n \in Lengths \cup {0} : Deliver(n)
  \/ \E n \in Lengths \cup {0}, error \in BOOLEAN : Skip(n, error)
  \/ \E n \in Lengths \cup {0} : Lose(n)
  \/ Repeat
  \/ UnselectPMT
  \/ SelectPMT

Spec == Init /\ [][Next]_vars

-----------------------------------------------------------------------------
(* psi_validate, by which HandleSection drops what is not a section.       *)

Valid(b) == b = Section(b[1].id, b[1].of)

(***************************************************************************)
(* HandleSection gets every section all packets of which were read, once   *)
(* and whole, and nothing else, whatever was lost before it or came twice. *)
(* The exception is a packet with a transport error in the middle of a     *)
(* section: its counter is kept, so the next packet is taken for the rest  *)
(* of the section, and its own sections may be spoilt.                     *)
(***************************************************************************)
AssemblyExact ==
  [][~ misled => /\ \A i \in DOMAIN handed' : Valid(handed'[i])
                 /\ {handed'[i][1].id : i \in DOMAIN handed'} = due'
                 /\ Len(handed') = Cardinality(due')]_vars
=============================================================================
