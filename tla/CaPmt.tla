------------------------------- MODULE CaPmt --------------------------------
(***************************************************************************)
(* How cLdvben50221 keeps each CAM module's list of programs to descramble *)
(* in step with what the demux streams.  The list is only changed by CA    *)
(* PMTs: "add" and "update" put a program on it, "update" with the command *)
(* not_selected takes it off, and "only" makes it the whole list.          *)
(*                                                                         *)
(* The link below (CamLink) delivers what is sent and opens a session      *)
(* once.  The demux calls at any time between two callbacks.  Outputs take *)
(* whole programs here, and a selected program keeps its CA systems: what  *)
(* CAPMTBuild looks for (a selected stream, a known system) only depends   *)
(* on the program and the module.                                          *)
(***************************************************************************)
EXTENDS Integers, FiniteSets

CONSTANTS
  Sessions,  \* session numbers
  Programs,  \* programs whose PMT needs descrambling
  MaxCount   \* a module repeats AOT_CA_INFO up to this count; bounds the model

ASSUME ProgramsAssumption == IsFiniteSet(Programs)

VARIABLES
  selected,  \* programs the demux has the CAM descramble
  stage,     \* session of the CA resource: free, asked for, open
  p_sys,     \* session -> its system_ids_t: never allocated, live, freed
  ids,       \* session -> programs scrambled with a system its module knows
  count,     \* session -> i_selected_programs
  list,      \* session -> the list of its module
  todo,      \* programs dev_ResendCAPMTs has still to add
  running    \* the process has not died

sessionVars == <<stage, p_sys>>
vars == <<selected, sessionVars, ids, count, list, todo, running>>

TypeOK ==
  /\ selected \subseteq Programs
  /\ stage \in [Sessions -> {"free", "asked", "open"}]
  /\ p_sys \in [Sessions -> {"null", "live", "freed"}]
  /\ ids \in [Sessions -> SUBSET Programs]
  /\ count \in [Sessions -> Int]
  /\ list \in [Sessions -> SUBSET Programs]
  /\ todo \subseteq selected
  /\ running \in BOOLEAN
  /\ \A i \in Sessions : stage[i] = "open" <=> p_sys[i] = "live"
  /\ \A i \in Sessions : stage[i] # "open" => ids[i] = {} /\ list[i] = {} /\ count[i] = 0

-----------------------------------------------------------------------------
Init ==
  /\ selected = {} /\ todo = {}
  /\ stage = [i \in Sessions |-> "free"]
  /\ p_sys = [i \in Sessions |-> "null"]
  /\ ids = [i \in Sessions |-> {}]
  /\ count = [i \in Sessions |-> 0]
  /\ list = [i \in Sessions |-> {}]
  /\ running = TRUE

Idle == running /\ todo = {}

Open(i) == stage[i] = "open"

(***************************************************************************)
(* SessionOpen gives a session its resource, and en50221_AddPMT and its    *)
(* kind look at nothing else; p_sys is set when SessionOpenCb runs.  Until *)
(* then CAPMTAdd and CAPMTDelete write through a null or a stale pointer.  *)
(* CAPMTBuild only reads, and takes a null pointer for no systems.         *)
(***************************************************************************)
Stray(p) == \E i \in Sessions : stage[i] = "asked" /\ p_sys[i] = p

AfterWrite == IF Stray("null") THEN {FALSE} ELSE IF Stray("freed") THEN BOOLEAN ELSE {TRUE}
AfterRead == IF Stray("freed") THEN BOOLEAN ELSE {TRUE}

\* The module's list after CAPMTBuild and APDUSend; what the module cannot
\* descramble is not sent.
Added(i, p) == list[i] \cup ({p} \cap ids[i])
Removed(i, p) == list[i] \ ({p} \cap ids[i])
First(i, p) == IF p \in ids[i] THEN {p} ELSE list[i]

\* Mutant: only the first program is taken off the list.
CAPMTDelete_Unsent(p) ==
  /\ count' = [i \in Sessions |-> IF Open(i) THEN count[i] - 1 ELSE count[i]]
  /\ list' = [i \in Sessions |-> IF Open(i) /\ count[i] = 1 THEN {} ELSE list[i]]

CAPMTDelete(p) ==
  /\ count' = [i \in Sessions |-> IF Open(i) THEN count[i] - 1 ELSE count[i]]
  /\ list' = [i \in Sessions |-> IF Open(i) THEN Removed(i, p) ELSE list[i]]

\* Mutant: the first program is looked for before it is counted.
CAPMTAdd_Late(p) ==
  /\ count' = [i \in Sessions |-> IF Open(i) THEN count[i] + 1 ELSE count[i]]
  /\ list' = [i \in Sessions |-> IF ~ Open(i) THEN list[i]
                                 ELSE IF count[i] = 1 THEN First(i, p) ELSE Added(i, p)]

CAPMTAdd(p) ==
  /\ count' = [i \in Sessions |-> IF Open(i) THEN count[i] + 1 ELSE count[i]]
  /\ list' = [i \in Sessions |-> IF ~ Open(i) THEN list[i]
                                 ELSE IF count[i] + 1 = 1 THEN First(i, p) ELSE Added(i, p)]

-----------------------------------------------------------------------------
(* The demux: a program is selected, has a new PMT, or is left.            *)

en50221_AddPMT(p) ==
  /\ Idle
  /\ p \notin selected
  /\ selected' = selected \cup {p}
  /\ running' \in AfterWrite
  /\ CAPMTAdd(p)
  /\ UNCHANGED <<sessionVars, ids, todo>>

en50221_UpdatePMT(p) ==
  /\ Idle
  /\ p \in selected
  /\ running' \in AfterRead
  /\ list' = [i \in Sessions |-> IF Open(i) THEN Added(i, p) ELSE list[i]]
  /\ UNCHANGED <<selected, sessionVars, ids, count, todo>>

en50221_DeletePMT(p) ==
  /\ Idle
  /\ p \in selected
  /\ selected' = selected \ {p}
  /\ running' \in AfterWrite
  /\ CAPMTDelete(p)
  /\ UNCHANGED <<sessionVars, ids, todo>>

-----------------------------------------------------------------------------
(* The module.                                                             *)

\* The number may have been that of a session of another resource.
SessionOpen(i) ==
  /\ Idle
  /\ stage[i] = "free"
  /\ stage' = [stage EXCEPT ![i] = "asked"]
  /\ p_sys' \in {p_sys, [p_sys EXCEPT ![i] = "freed"]}
  /\ UNCHANGED <<selected, ids, count, list, todo, running>>

ConditionalAccessOpen(i) ==
  /\ Idle
  /\ stage[i] = "asked"
  /\ stage' = [stage EXCEPT ![i] = "open"]
  /\ p_sys' = [p_sys EXCEPT ![i] = "live"]
  /\ UNCHANGED <<selected, ids, count, list, todo, running>>

\* ConditionalAccessClose frees the state of the session.
Closed(i, S) == IF i \in S /\ Open(i) THEN "freed" ELSE p_sys[i]

\* SessionClose, or ResetSlot for the sessions of a slot.
Close(S) ==
  /\ Idle
  /\ \A i \in S : stage[i] # "free"
  /\ stage' = [i \in Sessions |-> IF i \in S THEN "free" ELSE stage[i]]
  /\ p_sys' = [i \in Sessions |-> Closed(i, S)]
  /\ ids' = [i \in Sessions |-> IF i \in S THEN {} ELSE ids[i]]
  /\ count' = [i \in Sessions |-> IF i \in S THEN 0 ELSE count[i]]
  /\ list' = [i \in Sessions |-> IF i \in S THEN {} ELSE list[i]]
  /\ UNCHANGED <<selected, todo, running>>

\* AOT_CA_INFO: the systems a module knows.  It may repeat them.
ConditionalAccessHandle(i, known) ==
  /\ Idle
  /\ Open(i)
  /\ ids[i] # {} => known = ids[i]
  /\ \A j \in Sessions : count[j] + Cardinality(selected) <= MaxCount
  /\ ids' = [ids EXCEPT ![i] = known]
  /\ todo' = selected
  /\ UNCHANGED <<selected, sessionVars, count, list, running>>

\* One program of its loop, in the order of pp_sids.  It goes to all sessions.
dev_ResendCAPMTs(p) ==
  /\ running
  /\ p \in todo
  /\ todo' = todo \ {p}
  /\ running' \in AfterWrite
  /\ CAPMTAdd(p)
  /\ UNCHANGED <<selected, sessionVars, ids>>

-----------------------------------------------------------------------------
Next ==
  \/ \E p \in Programs : \/ en50221_AddPMT(p)
                         \/ en50221_UpdatePMT(p)
                         \/ en50221_DeletePMT(p)
                         \/ dev_ResendCAPMTs(p)
  \/ \E i \in Sessions : \/ SessionOpen(i)
                         \/ ConditionalAccessOpen(i)
                         \/ \E known \in SUBSET Programs : ConditionalAccessHandle(i, known)
  \/ \E S \in SUBSET Sessions : Close(S)

Spec == Init /\ [][Next]_vars

-----------------------------------------------------------------------------
(* Properties.                                                             *)

(***************************************************************************)
(* A module never descrambles a program that nobody streams any more: what *)
(* CAPMTAdd and dev_ResendCAPMTs put on any list, CAPMTDelete takes off,   *)
(* in every order of tables, reloads, sessions and resets.                 *)
(***************************************************************************)
OnlySelected == \A i \in Sessions : list[i] \subseteq selected \cap ids[i]

(***************************************************************************)
(* A module whose session counts at least the selected programs has them   *)
(* all on its list: CAPMTFirst, which replaces the list, is then only sent *)
(* for a list that is empty, repeated AOT_CA_INFO and the double counting  *)
(* by other sessions' AOT_CA_INFO included.  (The count can fall behind:   *)
(* DeletePMT between the opening of a session and its first AOT_CA_INFO    *)
(* lowers it for a program it never counted, and the second program added  *)
(* then is sent as the only one.)                                          *)
(***************************************************************************)
CountedIsListed ==
  todo = {} =>
    \A i \in Sessions :
      count[i] >= Cardinality(selected) => selected \cap ids[i] \subseteq list[i]

=============================================================================
