------------------------------- MODULE CamLink ------------------------------
(***************************************************************************)
(* The EN 50221 link of cLdvben50221: one half-duplex channel per slot and *)
(* the sessions its module opens.  The host writes one TPDU and waits for  *)
(* the answer of the module; what it has to send meanwhile is queued.      *)
(*                                                                         *)
(* A callback runs to its end.  What it has still to do is in calls, one   *)
(* step per TPDU, since each write may fail.  A module is polite: it       *)
(* answers what it is asked, and sends data when it is asked with T_RCV.   *)
(* It may be removed, come back or fall silent at any time.                *)
(***************************************************************************)
EXTENDS Integers, Sequences, FiniteSets, SequencesExt

CONSTANTS
  NbSlots,      \* i_nb_slots
  MaxSessions,  \* MAX_SESSIONS
  Resources,    \* resources the modules ask for
  MaxQueue      \* nobody sends on a longer queue; bounds the model

Slots == 1 .. NbSlots
Sessions == 1 .. MaxSessions

\* The resource manager and the application information have no state.
Kinds == {"RM", "AI", "CA", "DT", "MMI", "HC"}

ASSUME SlotsAssumption ==
  /\ NbSlots \in Nat \ {0}
  /\ MaxSessions \in Nat \ {0}
  /\ Resources \subseteq Kinds
  /\ MaxQueue \in Nat

VARIABLES
  ready,            \* slots whose module says CA_CI_MODULE_READY
  connected,        \* slots whose module has a transport connection
  asked,            \* slot -> the TPDU its module has to answer, or "none"
  b_active,         \* slots
  b_expect_answer,  \* slots
  init_watcher,     \* slots whose timer runs
  p_send,           \* slot -> queued TPDUs
  pending,          \* slot -> i_pending_session_id
  resource,         \* session -> i_resource_id, "none" if free
  i_slot,           \* session -> its slot
  opened,           \* sessions whose handler is set by their *Open
  p_sys,            \* sessions whose p_sys is an allocation of theirs
  calls,            \* what the running callback has still to do
  failed            \* slots with a failed write since their reset (a history)

moduleVars == <<ready, connected, asked>>
slotVars == <<b_active, init_watcher>>
linkVars == <<b_expect_answer, p_send, asked, failed>>
sessionVars == <<resource, i_slot, opened, p_sys>>
vars == <<ready, connected, slotVars, linkVars, pending, sessionVars, calls>>

Tags == {"CREATE_TC", "RCV", "DATA"}

Calls ==
  [do : {"Slot", "Poll", "Write", "SessionOpenCb", "T_RCV"}, slot : Slots]
    \cup [do : {"APDU", "Response"}, slot : Slots, session : Sessions]

TypeOK ==
  /\ ready \subseteq Slots /\ connected \subseteq Slots
  /\ asked \in [Slots -> Tags \cup {"none"}]
  /\ b_active \subseteq Slots
  /\ b_expect_answer \subseteq Slots
  /\ init_watcher \subseteq Slots
  /\ p_send \in [Slots -> Seq(Tags)]
  /\ pending \in [Slots -> 0 .. MaxSessions]
  /\ resource \in [Sessions -> Kinds \cup {"none"}]
  /\ i_slot \in [Sessions -> Slots]
  /\ opened \subseteq Sessions
  /\ p_sys \subseteq Sessions
  /\ calls \in Seq(Calls)
  /\ failed \subseteq Slots
  /\ \A i \in opened : resource[i] # "none"

-----------------------------------------------------------------------------
Init ==
  /\ ready = {} /\ connected = {}
  /\ asked = [s \in Slots |-> "none"]
  /\ b_active = {} /\ b_expect_answer = {}
  /\ init_watcher = Slots
  /\ p_send = [s \in Slots |-> << >>]
  /\ pending = [s \in Slots |-> 0]
  /\ resource = [i \in Sessions |-> "none"]
  /\ i_slot = [i \in Sessions |-> 1]
  /\ opened = {}
  /\ p_sys = {}
  /\ calls = << >>
  /\ failed = {}

Idle == calls = << >>

Call(do, s) == [do |-> do, slot |-> s]
APDU(i) == [do |-> "APDU", slot |-> i_slot[i], session |-> i]
APDUs(C) == [n \in 1 .. Cardinality(C) |-> APDU(SetToSeq(C)[n])]
Response(s, i) == [do |-> "Response", slot |-> s, session |-> i]

\* The call the running callback is at, and what is left after it.
At(do) == calls # << >> /\ Head(calls).do = do
Now == Head(calls)
Return == calls' = Tail(calls)

-----------------------------------------------------------------------------
(* The transport layer.                                                    *)

\* TPDUWrite of the first TPDU of queue q.  Without a module it fails.
TPDUWrite(s, q, ok) ==
  /\ ok => s \in ready
  /\ p_send' = [p_send EXCEPT ![s] = Tail(q)]
  /\ b_expect_answer' = IF ok THEN b_expect_answer \cup {s} ELSE b_expect_answer
  /\ asked' = IF ok THEN [asked EXCEPT ![s] = Head(q)] ELSE asked
  /\ failed' = IF ok THEN failed ELSE failed \cup {s}

\* ok is what TPDUSend returns: it writes the first TPDU of the queue, which
\* need not be the one it was called with.
TPDUSend(s, tag, ok) ==
  LET q == Append(p_send[s], tag)
  IN  IF s \in b_expect_answer
      THEN /\ ok
           /\ p_send' = [p_send EXCEPT ![s] = q]
           /\ UNCHANGED <<b_expect_answer, asked, failed>>
      ELSE TPDUWrite(s, q, ok)

-----------------------------------------------------------------------------
(* Closing sessions.                                                       *)

HasSys(i) == i \in opened /\ resource[i] \in {"CA", "DT", "MMI"}

\* Mutants: the handler stays; p_sys is not freed.
CloseSessions_KeepHandler(S) ==
  /\ p_sys' = p_sys \ {i \in S : HasSys(i)}
  /\ resource' = [i \in Sessions |-> IF i \in S THEN "none" ELSE resource[i]]
  /\ i_slot' = [i \in Sessions |-> IF i \in S THEN 1 ELSE i_slot[i]]
  /\ UNCHANGED opened

CloseSessions_KeepSys(S) ==
  /\ resource' = [i \in Sessions |-> IF i \in S THEN "none" ELSE resource[i]]
  /\ opened' = opened \ S
  /\ i_slot' = [i \in Sessions |-> IF i \in S THEN 1 ELSE i_slot[i]]
  /\ UNCHANGED p_sys

\* pf_close of each, which frees p_sys, and the resource is given back.  The
\* slot of a free session means nothing.
CloseSessions(S) ==
  /\ p_sys' = p_sys \ {i \in S : HasSys(i)}
  /\ resource' = [i \in Sessions |-> IF i \in S THEN "none" ELSE resource[i]]
  /\ opened' = opened \ S
  /\ i_slot' = [i \in Sessions |-> IF i \in S THEN 1 ELSE i_slot[i]]

SessionsOf(S) == {i \in Sessions : resource[i] # "none" /\ i_slot[i] \in S}

\* Mutant: the queue of the old connection is kept.
ResetSlots_KeepsQueue(S) ==
  /\ ready' = ready \ S
  /\ connected' = connected \ S
  /\ asked' = [s \in Slots |-> IF s \in S THEN "none" ELSE asked[s]]
  /\ b_active' = b_active \ S
  /\ init_watcher' = init_watcher \cup S
  /\ b_expect_answer' = b_expect_answer \ S
  /\ p_send' = p_send
  /\ failed' = failed \ S
  /\ CloseSessions(SessionsOf(S))

\* ResetSlot for slots S.  CA_RESET takes the module down; it may come back.
ResetSlots(S) ==
  /\ ready' = ready \ S
  /\ connected' = connected \ S
  /\ asked' = [s \in Slots |-> IF s \in S THEN "none" ELSE asked[s]]
  /\ b_active' = b_active \ S
  /\ init_watcher' = init_watcher \cup S
  /\ b_expect_answer' = b_expect_answer \ S
  /\ p_send' = [s \in Slots |-> IF s \in S THEN << >> ELSE p_send[s]]
  /\ failed' = failed \ S
  /\ CloseSessions(SessionsOf(S))

-----------------------------------------------------------------------------
(* TPDURecv: what the module answers, then the tail of the function.       *)

\* Mutant: the queue waits for the next TPDUSend.
TailCalls_NoWrite(s, hasData) ==
  <<Call("SessionOpenCb", s)>> \o (IF hasData THEN <<Call("T_RCV", s)>> ELSE << >>)

\* T_RCV only follows if the answer ends with T_SB and its data indicator.
TailCalls(s, hasData) ==
  <<Call("Write", s), Call("SessionOpenCb", s)>>
    \o (IF hasData THEN <<Call("T_RCV", s)>> ELSE << >>)

Answered(s, tags) ==
  /\ Idle
  /\ s \in ready
  /\ asked[s] \in tags
  /\ asked' = [asked EXCEPT ![s] = "none"]
  /\ b_expect_answer' = b_expect_answer \ {s}
  /\ UNCHANGED <<ready, p_send, failed, pending>>

RecvCtcReply(s, hasData) ==
  /\ Answered(s, {"CREATE_TC"})
  /\ connected' = connected \cup {s}
  /\ b_active' = b_active \cup {s}
  /\ init_watcher' = init_watcher \ {s}
  /\ calls' = TailCalls(s, hasData)
  /\ UNCHANGED sessionVars

\* T_SB, or a part of an SPDU (T_DATA_MORE).
RecvNothing(s, hasData) ==
  /\ Answered(s, {"DATA", "RCV"})
  /\ s \in connected
  /\ calls' = TailCalls(s, hasData)
  /\ UNCHANGED <<connected, slotVars, sessionVars>>

\* The last part of an SPDU, which SPDUHandle takes; it sends replies.
RecvSPDU(s, hasData, replies) ==
  /\ Answered(s, {"RCV"})
  /\ s \in connected
  /\ calls' = replies \o TailCalls(s, hasData)
  /\ UNCHANGED <<connected, slotVars>>

Free == {i \in Sessions : resource[i] = "none"}

\* SessionOpen takes the first free session, for an unknown resource too.
SessionOpen(s, hasData, r) ==
  IF Free = {}
  THEN RecvSPDU(s, hasData, << >>) /\ UNCHANGED sessionVars
  ELSE \E i \in Free :
         /\ \A j \in Free : i <= j
         /\ resource' = [resource EXCEPT ![i] = r]
         /\ i_slot' = [i_slot EXCEPT ![i] = s]
         /\ RecvSPDU(s, hasData, <<Response(s, i)>>)
         /\ UNCHANGED <<opened, p_sys>>

\* The module only speaks of its own sessions.
Known(s) == {i \in opened : i_slot[i] = s}

\* ST_CLOSE_SESSION_REQUEST is answered, ST_CLOSE_SESSION_RESPONSE is not.
SessionClose(s, hasData, i, request) ==
  /\ i \in Known(s)
  /\ CloseSessions({i})
  /\ RecvSPDU(s, hasData, IF request THEN <<APDU(i)>> ELSE << >>)

\* The handlers of the resources answer an APDU with one of their own
\* (profiles, date and time, MMI replies, SessionSendClose) or not at all.
Handle(s, hasData, i, answers) ==
  /\ i \in Known(s)
  /\ answers => resource[i] \in {"RM", "DT", "MMI"}
  /\ RecvSPDU(s, hasData, IF answers THEN <<APDU(i)>> ELSE << >>)
  /\ UNCHANGED sessionVars

\* AOT_CA_INFO: dev_ResendCAPMTs sends CA PMTs to the sessions C, whose
\* modules know the program.  (CaPmt has the sessions not yet opened.)
CaSessions == {i \in opened : resource[i] = "CA"}

HandleCaInfo(s, hasData, i, C) ==
  /\ i \in Known(s) \cap CaSessions
  /\ C \subseteq CaSessions
  /\ \A c \in C : Len(p_send[i_slot[c]]) < MaxQueue
  /\ RecvSPDU(s, hasData, APDUs(C))
  /\ UNCHANGED sessionVars

TPDURecv(s, hasData) ==
  \/ RecvCtcReply(s, hasData)
  \/ RecvNothing(s, hasData)
  \/ \E r \in Resources : SessionOpen(s, hasData, r)
  \/ \E i \in Sessions :
       \/ \E request \in BOOLEAN : SessionClose(s, hasData, i, request)
       \/ \E answers \in BOOLEAN : Handle(s, hasData, i, answers)
       \/ \E C \in SUBSET Sessions : HandleCaInfo(s, hasData, i, C)

-----------------------------------------------------------------------------
(* The rest of a callback.                                                 *)

\* The queue goes on when the answer is there.
CallWrite ==
  /\ At("Write")
  /\ Return
  /\ IF Now.slot \notin b_expect_answer /\ p_send[Now.slot] # << >>
     THEN \E ok \in BOOLEAN : TPDUWrite(Now.slot, p_send[Now.slot], ok)
     ELSE UNCHANGED linkVars
  /\ UNCHANGED <<ready, connected, slotVars, pending, sessionVars>>

MayOpen(s) == s \notin b_expect_answer /\ pending[s] # 0

CallSessionOpenCb ==
  /\ At("SessionOpenCb")
  /\ IF ~ MayOpen(Now.slot)
     THEN Return /\ UNCHANGED <<pending, sessionVars>>
     ELSE LET i == pending[Now.slot]
          IN  /\ pending' = [pending EXCEPT ![Now.slot] = 0]
              /\ IF resource[i] \in {"HC", "none"}
                 THEN /\ Return
                      /\ resource' = [resource EXCEPT ![i] = "none"]
                      /\ i_slot' = [i_slot EXCEPT ![i] = 1]
                      /\ UNCHANGED <<opened, p_sys>>
                 ELSE /\ opened' = opened \cup {i}
                      /\ p_sys' = IF resource[i] \in {"CA", "DT", "MMI"}
                                  THEN p_sys \cup {i} ELSE p_sys
                      /\ calls' = IF resource[i] = "MMI" THEN Tail(calls)
                                  ELSE <<APDU(i)>> \o Tail(calls)
                      /\ UNCHANGED <<resource, i_slot>>
  /\ UNCHANGED <<ready, connected, slotVars, linkVars>>

\* Mutant: the module is asked for data while an answer is expected.
CallRcv_Always ==
  /\ At("T_RCV")
  /\ Return
  /\ \E ok \in BOOLEAN : TPDUSend(Now.slot, "RCV", ok)
  /\ UNCHANGED <<ready, connected, slotVars, pending, sessionVars>>

CallRcv ==
  /\ At("T_RCV")
  /\ Return
  /\ IF Now.slot \in b_expect_answer
     THEN UNCHANGED linkVars
     ELSE \E ok \in BOOLEAN : TPDUSend(Now.slot, "RCV", ok)
  /\ UNCHANGED <<ready, connected, slotVars, pending, sessionVars>>

\* SPDUSend and the like: nobody looks at the result.
CallAPDU ==
  /\ At("APDU")
  /\ Return
  /\ \E ok \in BOOLEAN : TPDUSend(Now.slot, "DATA", ok)
  /\ UNCHANGED <<ready, connected, slotVars, pending, sessionVars>>

\* Mutant: a session that is refused is forgotten.
CallResponse_Granted ==
  /\ At("Response")
  /\ Return
  /\ \E ok \in BOOLEAN :
       /\ TPDUSend(Now.slot, "DATA", ok)
       /\ pending' = IF ok /\ resource[Now.session] # "HC"
                     THEN [pending EXCEPT ![Now.slot] = Now.session] ELSE pending
  /\ UNCHANGED <<ready, connected, slotVars, sessionVars>>

\* The end of SessionOpen.
CallResponse ==
  /\ At("Response")
  /\ Return
  /\ \E ok \in BOOLEAN :
       /\ TPDUSend(Now.slot, "DATA", ok)
       /\ pending' = IF ok THEN [pending EXCEPT ![Now.slot] = Now.session] ELSE pending
  /\ UNCHANGED <<ready, connected, slotVars, sessionVars>>

-----------------------------------------------------------------------------
(* en50221_Poll, the timers, the demux and the modules.                    *)

\* CA_GET_SLOT_INFO: a module that left, or one that is to be connected.
Left(s) == s \in b_active \ ready
Unconnected(s) == s \in ready \ (b_active \cup b_expect_answer)

\* First all slots are looked at, then those that are idle are polled.
en50221_Poll ==
  /\ Idle
  /\ calls' = [s \in Slots |-> Call("Slot", s)] \o [s \in Slots |-> Call("Poll", s)]
  /\ UNCHANGED <<ready, connected, slotVars, linkVars, pending, sessionVars>>

\* Nothing is done either when CA_GET_SLOT_INFO fails.
CallSlot ==
  /\ At("Slot")
  /\ Return
  /\ \/ Left(Now.slot) /\ ResetSlots({Now.slot})
     \/ /\ Unconnected(Now.slot)
        /\ \E ok \in BOOLEAN : TPDUSend(Now.slot, "CREATE_TC", ok)
        /\ UNCHANGED <<ready, connected, slotVars, sessionVars>>
     \/ UNCHANGED <<ready, connected, slotVars, linkVars, sessionVars>>
  /\ UNCHANGED pending

CallPoll ==
  /\ At("Poll")
  /\ Return
  /\ \/ /\ Now.slot \in b_active \ b_expect_answer
        /\ \/ /\ TPDUSend(Now.slot, "DATA", TRUE)
              /\ UNCHANGED <<ready, connected, slotVars, sessionVars>>
           \/ ResetSlots({Now.slot})
     \/ /\ Now.slot \notin b_active \ b_expect_answer
        /\ UNCHANGED <<ready, connected, slotVars, linkVars, sessionVars>>
  /\ UNCHANGED pending

\* init_watcher has expired; it does not repeat.
ResetSlotCb(s) ==
  /\ Idle
  /\ s \in init_watcher
  /\ IF s \in b_active \/ s \notin b_expect_answer
     THEN /\ init_watcher' = init_watcher \ {s}
          /\ UNCHANGED <<ready, connected, b_active, linkVars, sessionVars>>
     ELSE ResetSlots({s})
  /\ UNCHANGED <<pending, calls>>

\* The demux (no TS packets, too many errors) resets all.  It clears the
\* slots first, i_pending_session_id and a running timer included.  libev then
\* has that timer twice, which is undefined: it may expire early (any timer may
\* here) or loop for ever (no step is owed here).
en50221_Reset ==
  /\ Idle
  /\ ResetSlots(Slots)
  /\ pending' = [s \in Slots |-> 0]
  /\ UNCHANGED calls

\* The demux changes a program (AddPMT, UpdatePMT, DeletePMT), or the timer
\* of a date and time session expires.
Notify(C) ==
  /\ Idle
  /\ C # {}
  /\ C \subseteq CaSessions \/ \E i \in opened : C = {i} /\ resource[i] = "DT"
  /\ \A c \in C : Len(p_send[i_slot[c]]) < MaxQueue
  /\ calls' = APDUs(C)
  /\ UNCHANGED <<ready, connected, slotVars, linkVars, pending, sessionVars>>

\* A module leaves, with what it was asked; one comes.
ModuleLeaves(s) ==
  /\ Idle
  /\ s \in ready
  /\ ready' = ready \ {s}
  /\ connected' = connected \ {s}
  /\ asked' = [asked EXCEPT ![s] = "none"]
  /\ UNCHANGED <<slotVars, b_expect_answer, p_send, failed, pending, sessionVars, calls>>

ModuleComes(s) ==
  /\ Idle
  /\ s \notin ready
  /\ ready' = ready \cup {s}
  /\ UNCHANGED <<connected, slotVars, linkVars, pending, sessionVars, calls>>

-----------------------------------------------------------------------------
Returns ==
  CallWrite \/ CallSessionOpenCb \/ CallRcv \/ CallAPDU \/ CallResponse
    \/ CallSlot \/ CallPoll

Next ==
  \/ Returns
  \/ en50221_Poll
  \/ en50221_Reset
  \/ \E s \in Slots : \/ \E hasData \in BOOLEAN : TPDURecv(s, hasData)
                      \/ ResetSlotCb(s)
                      \/ ModuleLeaves(s)
                      \/ ModuleComes(s)
  \/ \E C \in SUBSET Sessions : Notify(C)

Spec == Init /\ [][Next]_vars

-----------------------------------------------------------------------------
(* Properties.                                                             *)

(***************************************************************************)
(* No TPDU is stranded: TPDUSend queues behind an expected answer and      *)
(* TPDURecv writes the next one, so what is queued always has an answer to *)
(* come, whatever callbacks, replies and notifications queued it.  Only a  *)
(* failed write breaks the chain, and en50221_Poll mends it.               *)
(***************************************************************************)
QueuedIsAwaited ==
  Idle => \A s \in Slots \ failed : p_send[s] # << >> => s \in b_expect_answer

(***************************************************************************)
(* A slot without a connection has no session and nothing to send: nothing *)
(* of a module survives its removal, its reset or a failed Poll, and       *)
(* nothing reaches the next module of the slot, though CA PMTs caused by   *)
(* one slot are also sent on the sessions of the others.                   *)
(***************************************************************************)
InactiveIsClean ==
  Idle => \A s \in Slots \ b_active : p_send[s] = << >> /\ SessionsOf({s}) = {}

(***************************************************************************)
(* Every session a module was granted is opened, or will be when its       *)
(* response has been answered, and a refused one is given back: sessions   *)
(* do not run out.  A response that could not be written is the exception: *)
(* its session waits for the reset of the slot.                            *)
(***************************************************************************)
NoneHalfOpen ==
  Idle => \A i \in Sessions : resource[i] # "none" =>
            i \in opened \/ pending[i_slot[i]] = i \/ i_slot[i] \in failed

(***************************************************************************)
(* The state of a resource lives exactly as long as its session: it is     *)
(* freed by the module's close, by the answer to the host's or by a reset, *)
(* and never twice, also when the number passes from one resource or slot  *)
(* to another while an old i_pending_session_id still names it.  (That one *)
(* opens the session of the other slot a second time, and loses its state.)*)
(***************************************************************************)
SysFollowsSession == p_sys = {i \in Sessions : HasSys(i)}

(***************************************************************************)
(* "overwriting pending session" is never logged: TPDURecv asks a module   *)
(* for data only after SessionOpenCb, so it cannot ask for a second        *)
(* session in between.                                                     *)
(***************************************************************************)
PendingIsKept ==
  [][\A s \in Slots \ failed : pending[s] # 0 => pending'[s] \in {0, pending[s]}]_vars

=============================================================================
