---------------------------- MODULE CaPmtProofs -----------------------------
(* Theorems about CaPmt, for any number of sessions and programs.          *)
EXTENDS CaPmt, FiniteSetTheorems, TLAPS

USE ProgramsAssumption

\* While dev_ResendCAPMTs runs, the programs it has still to add will be
\* counted, and may not be listed yet.
CountCovers ==
  \A i \in Sessions :
    count[i] + Cardinality(todo) >= Cardinality(selected) =>
      (selected \ todo) \cap ids[i] \subseteq list[i]

IInv == TypeOK /\ OnlySelected /\ CountCovers

Selecting(p) == en50221_AddPMT(p) \/ en50221_UpdatePMT(p) \/ en50221_DeletePMT(p)
                  \/ dev_ResendCAPMTs(p)

Serving(i) == SessionOpen(i) \/ ConditionalAccessOpen(i)
                \/ \E known \in SUBSET Programs : ConditionalAccessHandle(i, known)

\* The sets whose members are counted.
LEMMA Finite ==
  ASSUME TypeOK
  PROVE  /\ IsFiniteSet(selected) /\ IsFiniteSet(todo)
         /\ Cardinality(selected) \in Nat /\ Cardinality(todo) \in Nat
         /\ Cardinality(todo) <= Cardinality(selected)
         /\ Cardinality(todo) = Cardinality(selected) => todo = selected
<1>1. selected \in SUBSET Programs /\ todo \in SUBSET selected
  BY DEF TypeOK
<1>2. IsFiniteSet(selected)
  BY <1>1, FS_Subset
<1> QED
  BY <1>1, <1>2, FS_Subset, FS_CardinalityType

LEMMA InitInv == Init => IInv
<1> SUFFICES ASSUME Init PROVE IInv
  OBVIOUS
<1>1. TypeOK
  BY DEF Init, TypeOK
<1>2. OnlySelected /\ CountCovers
  BY DEF Init, OnlySelected, CountCovers
<1> QED
  BY <1>1, <1>2 DEF IInv

\* What the two loops over the sessions leave.
LEMMA AddedLists ==
  ASSUME TypeOK, NEW p \in Programs, CAPMTAdd(p)
  PROVE  /\ count' \in [Sessions -> Int]
         /\ list' \in [Sessions -> SUBSET Programs]
         /\ \A i \in Sessions : stage[i] # "open" => count'[i] = count[i] /\ list'[i] = list[i]
         /\ \A i \in Sessions : stage[i] = "open" => count'[i] = count[i] + 1
         /\ \A i \in Sessions : list'[i] \subseteq list[i] \cup ({p} \cap ids[i])
         /\ \A i \in Sessions : {p} \cap ids[i] \cap list'[i] = {p} \cap ids[i] \/ stage[i] # "open"
         /\ \A i \in Sessions : count[i] # 0 => list[i] \subseteq list'[i]
BY DEF TypeOK, CAPMTAdd, Open, Added, First

LEMMA DeletedLists ==
  ASSUME TypeOK, NEW p \in Programs, CAPMTDelete(p)
  PROVE  /\ count' \in [Sessions -> Int]
         /\ list' \in [Sessions -> SUBSET Programs]
         /\ \A i \in Sessions : stage[i] # "open" => count'[i] = count[i] /\ list'[i] = list[i]
         /\ \A i \in Sessions : stage[i] = "open" => count'[i] = count[i] - 1
         /\ \A i \in Sessions : stage[i] = "open" => list'[i] = list[i] \ ({p} \cap ids[i])
BY DEF TypeOK, CAPMTDelete, Open, Removed

LEMMA TypeStep == TypeOK /\ [Next]_vars => TypeOK'
<1> SUFFICES ASSUME TypeOK, [Next]_vars PROVE TypeOK'
  OBVIOUS
<1>1. ASSUME NEW p \in Programs, Selecting(p) PROVE TypeOK'
  <2>1. running' \in BOOLEAN
    BY <1>1 DEF Selecting, en50221_AddPMT, en50221_UpdatePMT, en50221_DeletePMT, dev_ResendCAPMTs,
       AfterWrite, AfterRead
  <2>2. CASE en50221_AddPMT(p)
    BY <2>1, <2>2, AddedLists DEF TypeOK, en50221_AddPMT, Idle, sessionVars
  <2>3. CASE en50221_UpdatePMT(p)
    BY <2>1, <2>3 DEF TypeOK, en50221_UpdatePMT, Open, Added, sessionVars
  <2>4. CASE en50221_DeletePMT(p)
    BY <2>1, <2>4, DeletedLists DEF TypeOK, en50221_DeletePMT, Idle, sessionVars
  <2>5. CASE dev_ResendCAPMTs(p)
    BY <2>1, <2>5, AddedLists DEF TypeOK, dev_ResendCAPMTs, sessionVars
  <2> QED
    BY <1>1, <2>2, <2>3, <2>4, <2>5 DEF Selecting
<1>2. ASSUME NEW i \in Sessions, SessionOpen(i) PROVE TypeOK'
  BY <1>2 DEF TypeOK, SessionOpen
<1>3. ASSUME NEW i \in Sessions, ConditionalAccessOpen(i) PROVE TypeOK'
  BY <1>3 DEF TypeOK, ConditionalAccessOpen
<1>4. ASSUME NEW i \in Sessions, NEW known \in SUBSET Programs, ConditionalAccessHandle(i, known)
      PROVE TypeOK'
  BY <1>4 DEF TypeOK, ConditionalAccessHandle, Open, sessionVars
<1>5. ASSUME NEW S \in SUBSET Sessions, Close(S) PROVE TypeOK'
  BY <1>5 DEF TypeOK, Close, Closed, Open
<1>6. CASE UNCHANGED vars
  BY <1>6 DEF TypeOK, vars, sessionVars
<1> QED
  BY <1>1, <1>2, <1>3, <1>4, <1>5, <1>6 DEF Next, Selecting

-----------------------------------------------------------------------------
LEMMA OnlySelectedStep == TypeOK /\ OnlySelected /\ [Next]_vars => OnlySelected'
<1> SUFFICES ASSUME TypeOK, OnlySelected, [Next]_vars, NEW i \in Sessions
             PROVE  list'[i] \subseteq selected' \cap ids'[i]
  BY DEF OnlySelected
<1>1. list[i] \subseteq selected \cap ids[i]
  BY DEF OnlySelected
<1>2. ASSUME NEW p \in Programs, en50221_AddPMT(p)
      PROVE list'[i] \subseteq selected' \cap ids'[i]
  BY <1>1, <1>2, AddedLists DEF en50221_AddPMT
<1>3. ASSUME NEW p \in Programs, en50221_UpdatePMT(p)
      PROVE list'[i] \subseteq selected' \cap ids'[i]
  BY <1>1, <1>3 DEF en50221_UpdatePMT, Added
<1>4. ASSUME NEW p \in Programs, en50221_DeletePMT(p)
      PROVE list'[i] \subseteq selected' \cap ids'[i]
  <2>1. CASE stage[i] = "open"
    BY <1>1, <1>4, <2>1, DeletedLists DEF en50221_DeletePMT
  <2>2. CASE stage[i] # "open"
    BY <1>4, <2>2, DeletedLists DEF en50221_DeletePMT, TypeOK
  <2> QED
    BY <2>1, <2>2
<1>5. ASSUME NEW p \in Programs, dev_ResendCAPMTs(p)
      PROVE list'[i] \subseteq selected' \cap ids'[i]
  BY <1>1, <1>5, AddedLists DEF dev_ResendCAPMTs, TypeOK
<1>6. ASSUME NEW j \in Sessions, Serving(j)
      PROVE list'[i] \subseteq selected' \cap ids'[i]
  BY <1>1, <1>6 DEF Serving, SessionOpen, ConditionalAccessOpen, ConditionalAccessHandle, TypeOK
<1>7. ASSUME NEW S \in SUBSET Sessions, Close(S)
      PROVE list'[i] \subseteq selected' \cap ids'[i]
  BY <1>1, <1>7 DEF Close
<1>8. CASE UNCHANGED vars
  BY <1>1, <1>8 DEF vars
<1> QED
  BY <1>2, <1>3, <1>4, <1>5, <1>6, <1>7, <1>8 DEF Next, Serving

-----------------------------------------------------------------------------
\* One session.  Its list is only replaced when it counts its first program,
\* and then no other selected program is on it.
LEMMA CountCoversStep == IInv /\ [Next]_vars => CountCovers'
<1> SUFFICES ASSUME IInv, [Next]_vars, NEW i \in Sessions,
                    count'[i] + Cardinality(todo') >= Cardinality(selected')
             PROVE  (selected' \ todo') \cap ids'[i] \subseteq list'[i]
  BY DEF CountCovers
<1> DEFINE Goal == (selected' \ todo') \cap ids'[i] \subseteq list'[i]
<1>1. TypeOK /\ TypeOK'
  BY TypeStep DEF IInv
<1>2. count[i] + Cardinality(todo) >= Cardinality(selected)
        => (selected \ todo) \cap ids[i] \subseteq list[i]
  BY DEF IInv, CountCovers
<1>3. count[i] \in Int /\ count'[i] \in Int
  BY <1>1 DEF TypeOK
<1>4. CASE stage'[i] # "open"
  BY <1>1, <1>4 DEF TypeOK
<1>5. ASSUME stage'[i] = "open", NEW p \in Programs, en50221_AddPMT(p) PROVE Goal
  <2>1. todo = {} /\ todo' = {} /\ stage[i] = "open" /\ ids' = ids
    BY <1>5 DEF en50221_AddPMT, Idle, sessionVars
  <2>2. Cardinality(selected') = Cardinality(selected) + 1
    BY <1>1, <1>5, Finite, FS_AddElement DEF en50221_AddPMT
  <2>3. count'[i] = count[i] + 1 /\ {p} \cap ids[i] \subseteq list'[i]
    BY <1>1, <1>5, <2>1, AddedLists DEF en50221_AddPMT
  <2>4. count[i] >= Cardinality(selected) /\ Cardinality({}) = 0
    BY <1>1, <1>3, <2>1, <2>2, <2>3, Finite, FS_EmptySet
  <2>5. selected \cap ids[i] \subseteq list[i]
    BY <1>1, <1>2, <1>3, <2>1, <2>4, Finite
  <2>6. CASE count[i] = 0
    <3>1. selected = {}
      BY <1>1, <2>4, <2>6, Finite, FS_EmptySet
    <3> QED
      BY <1>5, <2>1, <2>3, <3>1 DEF en50221_AddPMT
  <2>7. CASE count[i] # 0
    <3>1. list[i] \subseteq list'[i]
      BY <1>1, <1>5, <2>7, AddedLists DEF en50221_AddPMT
    <3> QED
      BY <1>5, <2>1, <2>3, <2>5, <3>1 DEF en50221_AddPMT
  <2> QED
    BY <2>6, <2>7
<1>6. ASSUME NEW p \in Programs, en50221_UpdatePMT(p) PROVE Goal
  <2>1. list[i] \subseteq list'[i]
    BY <1>1, <1>6 DEF en50221_UpdatePMT, Added, TypeOK
  <2> QED
    BY <1>2, <1>6, <2>1 DEF en50221_UpdatePMT
<1>7. ASSUME stage'[i] = "open", NEW p \in Programs, en50221_DeletePMT(p) PROVE Goal
  <2>1. todo = {} /\ todo' = {} /\ stage[i] = "open" /\ ids' = ids
    BY <1>7 DEF en50221_DeletePMT, Idle, sessionVars
  <2>2. Cardinality(selected') = Cardinality(selected) - 1
    BY <1>1, <1>7, Finite, FS_RemoveElement DEF en50221_DeletePMT
  <2>3. count'[i] = count[i] - 1 /\ list'[i] = list[i] \ ({p} \cap ids[i])
    BY <1>1, <1>7, <2>1, DeletedLists DEF en50221_DeletePMT
  <2>4. count[i] + Cardinality(todo) >= Cardinality(selected)
    BY <1>1, <1>3, <2>1, <2>2, <2>3, Finite
  <2> QED
    BY <1>2, <1>7, <2>1, <2>3, <2>4 DEF en50221_DeletePMT
<1>8. ASSUME stage'[i] = "open", NEW p \in Programs, dev_ResendCAPMTs(p) PROVE Goal
  <2>1. p \in todo /\ todo' = todo \ {p} /\ selected' = selected /\ stage[i] = "open" /\ ids' = ids
    BY <1>8 DEF dev_ResendCAPMTs, sessionVars
  <2>2. Cardinality(todo') = Cardinality(todo) - 1
    BY <1>1, <2>1, Finite, FS_RemoveElement
  <2>3. count'[i] = count[i] + 1 /\ {p} \cap ids[i] \subseteq list'[i]
    BY <1>1, <1>8, <2>1, AddedLists DEF dev_ResendCAPMTs
  <2>4. count[i] + Cardinality(todo) >= Cardinality(selected)
    BY <1>1, <1>3, <2>1, <2>2, <2>3, Finite
  <2>5. CASE count[i] = 0
    <3>1. todo = selected
      BY <1>1, <2>4, <2>5, Finite
    <3> QED
      BY <2>1, <2>3, <3>1
  <2>6. CASE count[i] # 0
    <3>1. list[i] \subseteq list'[i]
      BY <1>1, <1>8, <2>6, AddedLists DEF dev_ResendCAPMTs
    <3> QED
      BY <1>2, <2>1, <2>3, <2>4, <3>1
  <2> QED
    BY <2>5, <2>6
<1>9. ASSUME NEW j \in Sessions, SessionOpen(j) PROVE Goal
  BY <1>2, <1>9 DEF SessionOpen
<1>10. ASSUME NEW j \in Sessions, ConditionalAccessOpen(j) PROVE Goal
  BY <1>2, <1>10 DEF ConditionalAccessOpen
<1>11. ASSUME NEW j \in Sessions, NEW known \in SUBSET Programs, ConditionalAccessHandle(j, known)
       PROVE Goal
  BY <1>11 DEF ConditionalAccessHandle
<1>12. ASSUME stage'[i] = "open", NEW S \in SUBSET Sessions, Close(S) PROVE Goal
  <2>1. i \notin S
    BY <1>12 DEF Close
  <2> QED
    BY <1>2, <1>12, <2>1 DEF Close
<1>13. CASE UNCHANGED vars
  BY <1>2, <1>13 DEF vars
<1> QED
  BY <1>4, <1>5, <1>6, <1>7, <1>8, <1>9, <1>10, <1>11, <1>12, <1>13 DEF Next

-----------------------------------------------------------------------------
LEMMA Invariant == Spec => []IInv
<1>1. IInv /\ [Next]_vars => IInv'
  BY TypeStep, OnlySelectedStep, CountCoversStep DEF IInv
<1> QED
  BY <1>1, InitInv, PTL DEF Spec

\* Sessions, their state and the loop of dev_ResendCAPMTs stay in step: a
\* session has state exactly while it is open (SessionOpenCb to pf_close).
THEOREM CaPmtTypes == Spec => []TypeOK
<1>1. IInv => TypeOK
  BY DEF IInv
<1> QED
  BY <1>1, Invariant, PTL

\* No module is left descrambling a program nobody streams: CAPMTDelete takes
\* off what CAPMTAdd, CAPMTUpdate and dev_ResendCAPMTs put on a list.
THEOREM ListsOnlySelected == Spec => []OnlySelected
<1>1. IInv => OnlySelected
  BY DEF IInv
<1> QED
  BY <1>1, Invariant, PTL

\* A session that counts all selected programs has them on its list: there
\* CAPMTFirst ("only") has never replaced a list that was in use.
THEOREM CountedAreListed == Spec => []CountedIsListed
<1>1. IInv => CountedIsListed
  <2> SUFFICES ASSUME IInv, todo = {}, NEW i \in Sessions, count[i] >= Cardinality(selected)
               PROVE  selected \cap ids[i] \subseteq list[i]
    BY DEF CountedIsListed
  <2>1. Cardinality(todo) = 0
    BY FS_EmptySet
  <2>2. count[i] + Cardinality(todo) >= Cardinality(selected)
    BY <2>1 DEF IInv, TypeOK
  <2> QED
    BY <2>2 DEF IInv, CountCovers
<1> QED
  BY <1>1, Invariant, PTL

=============================================================================
