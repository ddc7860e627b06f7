-------------------------- MODULE PidRoutingProofs --------------------------
(***************************************************************************)
(* Theorems about PidRouting, for any number of outputs, programs, PIDs    *)
(* and tables, proved by TLAPS.                                            *)
(***************************************************************************)
EXTENDS PidRouting, FiniteSetTheorems, TLAPS

-----------------------------------------------------------------------------
(* Sets of outputs and how they are counted.                               *)

\* A set of outputs is finite and has a natural number of elements.
LEMMA OutputsAreFinite ==
  ASSUME NEW S \in SUBSET Slots
  PROVE  IsFiniteSet(S) /\ Cardinality(S) \in Nat
<1>1. IsFiniteSet(Slots)
  BY SizesAssumption, FS_Interval DEF Slots
<1>2. QED
  BY <1>1, FS_Subset, FS_CardinalityType

\* SelectPMT and UnselectPMT take a natural number of references.
LEMMA PmtUnitsType ==
  ASSUME NEW S \in SUBSET Slots
  PROVE  PmtUnits(S) \in Nat
BY OutputsAreFinite DEF PmtUnits

\* StopPID and StartPID count subscribers exactly.
LEMMA SubscribersChange ==
  ASSUME NEW S \in SUBSET Slots,
         NEW lost \in SUBSET S,
         NEW gained \in SUBSET Slots, gained \cap S = {}
  PROVE  Cardinality((S \ lost) \cup gained)
           = Cardinality(S) - Cardinality(lost) + Cardinality(gained)
<1>1. IsFiniteSet(S) /\ IsFiniteSet(lost) /\ IsFiniteSet(gained) /\ IsFiniteSet(S \ lost)
  BY OutputsAreFinite
<1>2. Cardinality(S \ lost) = Cardinality(S) - Cardinality(lost)
  <2>1. S \cap lost = lost
    OBVIOUS
  <2>2. QED
    BY <1>1, <2>1, FS_Difference
<1>3. Cardinality((S \ lost) \cup gained) = Cardinality(S \ lost) + Cardinality(gained)
  <2>1. Cardinality((S \ lost) \cup gained)
          = Cardinality(S \ lost) + Cardinality(gained) - Cardinality((S \ lost) \cap gained)
    BY <1>1, FS_Union
  <2>2. (S \ lost) \cap gained = {}
    OBVIOUS
  <2>3. Cardinality((S \ lost) \cap gained) = 0
    BY <2>2, FS_EmptySet
  <2>4. Cardinality(S \ lost) \in Nat /\ Cardinality(gained) \in Nat
    BY OutputsAreFinite
  <2>5. QED
    BY <2>1, <2>3, <2>4
<1>4. QED
  BY <1>2, <1>3

\* Some of the outputs are at most all of them.
LEMMA FewerOutputs ==
  ASSUME NEW S \in SUBSET Slots, NEW T \in SUBSET S
  PROVE  Cardinality(T) <= Cardinality(S)
BY OutputsAreFinite, FS_Subset

-----------------------------------------------------------------------------
(* SetPID and UnsetPID.                                                    *)

\* Any calls of UnsetPID and SetPID leave integer counts and filters on PIDs.
LEMMA CountPIDsType ==
  ASSUME refcount \in [Pids -> Int], filter \in SUBSET Pids,
         NEW drop \in [Pids -> Nat], NEW take \in [Pids -> Nat],
         CountPIDs(drop, take)
  PROVE  /\ refcount' \in [Pids -> Int]
         /\ filter' \in SUBSET Pids
         /\ \A p \in Pids : refcount'[p] = refcount[p] - drop[p] + take[p]
BY ModesAssumption DEF CountPIDs

\* They keep a filter on every PID that has a positive count.
LEMMA CountPIDsOpen ==
  ASSUME refcount \in [Pids -> Int], filter \in SUBSET Pids,
         NEW drop \in [Pids -> Nat], NEW take \in [Pids -> Nat],
         CountPIDs(drop, take), CountedIsOpen
  PROVE  CountedIsOpen'
<1> SUFFICES ASSUME ~ BudgetMode, ~ DevMayFail, NEW p \in Pids, refcount'[p] > 0
             PROVE  p \in filter'
  BY DEF CountedIsOpen
<1>1. refcount'[p] = refcount[p] - drop[p] + take[p]
  BY DEF CountPIDs
<1>2. refcount[p] \in Int /\ drop[p] \in Nat /\ take[p] \in Nat
  OBVIOUS
<1>3. filter' = {q \in filter : ~ Closes(q, drop)}
                \cup {q \in Pids \ {r \in filter : ~ Closes(r, drop)} : Opens(q, drop, take)}
  BY DEF CountPIDs
<1>4. CASE Opens(p, drop, take)
  BY <1>3, <1>4
<1>5. CASE ~ Opens(p, drop, take)
  <2>1. take[p] = 0
    BY <1>1, <1>2, <1>5 DEF Opens
  <2>2. refcount[p] > 0 /\ ~ Closes(p, drop)
    BY <1>1, <1>2, <2>1 DEF Closes
  <2>3. QED
    BY <1>3, <2>2 DEF CountedIsOpen
<1>6. QED
  BY <1>4, <1>5

-----------------------------------------------------------------------------
(***************************************************************************)
(* The three handlers that touch subscriptions call SetPID and UnsetPID as *)
(* often as the number of users of each PID moves.                         *)
(***************************************************************************)
Uses(p) == Cardinality(subs[p]) + psi_refcount[p]

\* No program has, or is about to get, its PMT on p.
CarriesNoPmt(p) == \A s \in Sids : pmt_pid[s] # p /\ pat[s] # p

Recounted ==
  /\ subs' \in [Pids -> SUBSET Slots]
  /\ psi_refcount' \in [Pids -> Int]
  /\ \E drop, take \in [Pids -> Nat] :
       /\ CountPIDs(drop, take)
       /\ \A p \in Pids : /\ SelectPmts \/ CarriesNoPmt(p)
                                => Uses(p)' - Uses(p) = take[p] - drop[p]
                          /\ CarriesNoPmt(p) => drop[p] <= Cardinality(subs[p])

LEMMA CompareProgramRecounts ==
  ASSUME TypeOK, NEW s \in Sids, CompareProgram(s)
  PROVE  Recounted
<1> DEFINE old == pmt_pid[s]
           new == pat[s]
           gone == pmt[s].es \cup ({pmt[s].pcr} \ {NoPid, old})
           loses(p) == IF p \in gone THEN StopPID(WholeOn(s), p) ELSE {}
           drop == [p \in Pids |-> Cardinality(loses(p)) + (IF p = old THEN PmtUnits(OnSid(s)) ELSE 0)]
           take == [p \in Pids |-> IF p = new THEN PmtUnits(OnSid(s)) ELSE 0]
<1>1. /\ subs' = [p \in Pids |-> subs[p] \ loses(p)]
      /\ psi_refcount' = [p \in Pids |-> psi_refcount[p] - One(p = old) + One(p = new)]
      /\ CountPIDs(drop, take)
  BY DEF CompareProgram
<1>2. \A p \in Pids : subs[p] \in SUBSET Slots /\ loses(p) \in SUBSET subs[p]
  BY DEF TypeOK, StopPID
<1>3. \A p \in Pids : Cardinality(loses(p)) \in Nat /\ Cardinality(subs[p]) \in Nat
  BY <1>2, OutputsAreFinite
<1>4. PmtUnits(OnSid(s)) \in Nat /\ (SelectPmts => PmtUnits(OnSid(s)) = 1)
  <2>1. OnSid(s) \in SUBSET Slots
    BY DEF TypeOK, OnSid
  <2>2. QED
    BY <2>1, PmtUnitsType DEF PmtUnits
<1>5. drop \in [Pids -> Nat] /\ take \in [Pids -> Nat]
  BY <1>3, <1>4
<1>6. subs' \in [Pids -> SUBSET Slots] /\ psi_refcount' \in [Pids -> Int]
  BY <1>1, <1>2 DEF TypeOK, One
<1>7. ASSUME NEW p \in Pids, SelectPmts \/ CarriesNoPmt(p)
      PROVE  Uses(p)' - Uses(p) = take[p] - drop[p]
  <2>1. Cardinality(subs'[p]) = Cardinality(subs[p]) - Cardinality(loses(p))
    <3>1. subs'[p] = (subs[p] \ loses(p)) \cup {}
      BY <1>1
    <3>2. Cardinality({}) = 0
      BY FS_EmptySet
    <3> HIDE DEF loses
    <3>3. Cardinality((subs[p] \ loses(p)) \cup {})
            = Cardinality(subs[p]) - Cardinality(loses(p)) + Cardinality({})
      BY <1>2, SubscribersChange
    <3>4. QED
      BY <1>3, <3>1, <3>2, <3>3
  <2>2. psi_refcount'[p] = psi_refcount[p] - One(p = old) + One(p = new)
    BY <1>1
  <2>3. psi_refcount[p] \in Int
    BY DEF TypeOK
  <2>4. /\ drop[p] = Cardinality(loses(p)) + One(p = old)
        /\ take[p] = One(p = new)
    BY <1>3, <1>4, <1>7 DEF One, CarriesNoPmt
  <2>5. One(p = old) \in Int /\ One(p = new) \in Int
    BY DEF One
  <2>6. QED
    BY <1>3, <2>1, <2>2, <2>3, <2>4, <2>5 DEF Uses
<1>8. ASSUME NEW p \in Pids, CarriesNoPmt(p)
      PROVE  drop[p] <= Cardinality(subs[p])
  <2>1. drop[p] = Cardinality(loses(p))
    BY <1>3, <1>8 DEF CarriesNoPmt
  <2> HIDE DEF loses, drop
  <2>2. QED
    BY <1>2, <2>1, FewerOutputs
<1>9. QED
  BY <1>1, <1>5, <1>6, <1>7, <1>8 DEF Recounted

LEMMA HandlePMTRecounts ==
  ASSUME TypeOK, NEW s \in Sids, NEW t \in PmtTables, HandlePMT(s, t)
  PROVE  Recounted
<1> DEFINE old == mark_pmt_pids(pmt[s])
           new == mark_pmt_pids(t)
           loses(p) == IF p \in old \ new THEN StopPID(WholeOn(s), p) ELSE {}
           gains(p) == IF p \in new \ old THEN StartPID(Takers(s, t, p), p) ELSE {}
           drop == [p \in Pids |-> Cardinality(loses(p))]
           take == [p \in Pids |-> Cardinality(gains(p))]
<1>1. /\ subs' = [p \in Pids |-> (subs[p] \ loses(p)) \cup gains(p)]
      /\ psi_refcount' = psi_refcount
      /\ CountPIDs(drop, take)
  BY DEF HandlePMT
<1>2. \A p \in Pids : /\ subs[p] \in SUBSET Slots
                      /\ loses(p) \in SUBSET subs[p]
                      /\ gains(p) \in SUBSET Slots
                      /\ gains(p) \cap subs[p] = {}
  BY DEF TypeOK, StopPID, StartPID, Takers, OnSid
<1>3. \A p \in Pids : /\ Cardinality(loses(p)) \in Nat
                      /\ Cardinality(gains(p)) \in Nat
                      /\ Cardinality(subs[p]) \in Nat
  BY <1>2, OutputsAreFinite
<1>4. subs' \in [Pids -> SUBSET Slots] /\ psi_refcount' \in [Pids -> Int]
  BY <1>1, <1>2 DEF TypeOK
<1>5. ASSUME NEW p \in Pids
      PROVE  Uses(p)' - Uses(p) = take[p] - drop[p]
  <2>1. subs'[p] = (subs[p] \ loses(p)) \cup gains(p)
    BY <1>1
  <2>2. Cardinality(subs'[p]) = Cardinality(subs[p]) - Cardinality(loses(p)) + Cardinality(gains(p))
    <3> HIDE DEF loses, gains
    <3>1. QED
      BY <1>2, <2>1, SubscribersChange
  <2>3. psi_refcount[p] \in Int
    BY DEF TypeOK
  <2>4. QED
    BY <1>1, <1>3, <2>2, <2>3 DEF Uses
<1>6. drop \in [Pids -> Nat] /\ take \in [Pids -> Nat]
  BY <1>3
<1>7. ASSUME NEW p \in Pids
      PROVE  drop[p] <= Cardinality(subs[p])
  <2>1. drop[p] = Cardinality(loses(p))
    OBVIOUS
  <2> HIDE DEF loses, drop
  <2>2. QED
    BY <1>2, <2>1, FewerOutputs
<1>8. QED
  BY <1>1, <1>4, <1>5, <1>6, <1>7 DEF Recounted

\* The program number of a known program is one of Sids.
LEMMA KnownProgram ==
  ASSUME TypeOK, NEW c \in AllConfigs
  PROVE  /\ FindSID(c.sid) => c.sid \in Sids
         /\ PcrOnlyPID(c) \in Pids \cup {NoPid}
<1>1. FindSID(c.sid) => c.sid \in Sids
  BY DEF FindSID, AllConfigs
<1>2. FindSID(c.sid) => pmt[c.sid].pcr \in Pids \cup {NoPid}
  BY <1>1 DEF TypeOK, Pmts
<1>3. QED
  BY <1>1, <1>2 DEF PcrOnlyPID

LEMMA ChangeRecounts ==
  ASSUME TypeOK, NEW o \in Slots, NEW c \in AllConfigs, demux_Change(o, c, valid \ {o})
  PROVE  Recounted
<1> DEFINE rest == valid \ {o}
           old == conf[o]
           left == c.sid # old.sid /\ FindSID(old.sid)
           joined == c.sid # old.sid /\ FindSID(c.sid)
           others(s) == {q \in rest : conf[q].sid = s}
           loses(p) == IF p \in GetPIDS(old) \ GetPIDS(c) THEN StopPID({o}, p) ELSE {}
           gains(p) == IF p \in GetPIDS(c) \ GetPIDS(old) THEN StartPID({o}, p) ELSE {}
           leaves(p) == left /\ p = pmt_pid[old.sid]
           joins(p) == joined /\ p = pmt_pid[c.sid]
           leavesOf(p) == IF leaves(p) THEN PmtUnits(others(old.sid)) ELSE 0
           joinsOf(p) == IF joins(p) THEN PmtUnits(others(c.sid)) ELSE 0
           drop == [p \in Pids |-> Cardinality(loses(p)) + leavesOf(p)]
           take == [p \in Pids |-> Cardinality(gains(p)) + joinsOf(p)]
<1>1. /\ subs' = [p \in Pids |-> (subs[p] \ loses(p)) \cup gains(p)]
      /\ psi_refcount' = [p \in Pids |-> psi_refcount[p] - One(leaves(p)) + One(joins(p))]
      /\ CountPIDs(drop, take)
  BY DEF demux_Change
<1>2. \A p \in Pids : /\ subs[p] \in SUBSET Slots
                      /\ loses(p) \in SUBSET subs[p]
                      /\ gains(p) \in SUBSET Slots
                      /\ gains(p) \cap subs[p] = {}
  BY DEF TypeOK, StopPID, StartPID
<1> HIDE DEF loses, gains
<1>3. \A p \in Pids : /\ Cardinality(loses(p)) \in Nat
                      /\ Cardinality(gains(p)) \in Nat
                      /\ Cardinality(subs[p]) \in Nat
  BY <1>2, OutputsAreFinite
<1>4. \A s : PmtUnits(others(s)) \in Nat /\ (SelectPmts => PmtUnits(others(s)) = 1)
  <2>1. \A s : others(s) \in SUBSET Slots
    BY DEF TypeOK
  <2> HIDE DEF others
  <2>2. QED
    BY <2>1, PmtUnitsType DEF PmtUnits
<1> HIDE DEF others
<1>5. \A p : /\ leavesOf(p) \in Nat /\ joinsOf(p) \in Nat
             /\ SelectPmts => leavesOf(p) = One(leaves(p)) /\ joinsOf(p) = One(joins(p))
  BY <1>4 DEF One
<1>6. \A p : CarriesNoPmt(p) => ~ leaves(p) /\ ~ joins(p)
  <2>1. old \in AllConfigs
    BY DEF TypeOK
  <2>2. QED
    BY <2>1, KnownProgram DEF CarriesNoPmt
<1>7. \A p \in Pids : CarriesNoPmt(p) => leavesOf(p) = 0 /\ joinsOf(p) = 0
  BY <1>6
<1> HIDE DEF leaves, joins, leavesOf, joinsOf
<1>8. drop \in [Pids -> Nat] /\ take \in [Pids -> Nat]
  BY <1>3, <1>5
<1>9. subs' \in [Pids -> SUBSET Slots] /\ psi_refcount' \in [Pids -> Int]
  BY <1>1, <1>2 DEF TypeOK, One
<1>10. ASSUME NEW p \in Pids, SelectPmts \/ CarriesNoPmt(p)
      PROVE  Uses(p)' - Uses(p) = take[p] - drop[p]
  <2>1. subs'[p] = (subs[p] \ loses(p)) \cup gains(p)
    BY <1>1
  <2>2. Cardinality(subs'[p]) = Cardinality(subs[p]) - Cardinality(loses(p)) + Cardinality(gains(p))
    BY <1>2, <2>1, SubscribersChange
  <2>3. psi_refcount'[p] = psi_refcount[p] - leavesOf(p) + joinsOf(p)
    BY <1>1, <1>5, <1>6, <1>7, <1>10 DEF One
  <2>4. psi_refcount[p] \in Int
    BY DEF TypeOK
  <2>5. QED
    BY <1>3, <1>5, <2>2, <2>3, <2>4 DEF Uses
<1>11. ASSUME NEW p \in Pids, CarriesNoPmt(p)
      PROVE  drop[p] <= Cardinality(subs[p])
  <2>1. drop[p] = Cardinality(loses(p))
    BY <1>3, <1>7, <1>11
  <2> HIDE DEF drop
  <2>2. QED
    BY <1>2, <2>1, FewerOutputs
<1>12. QED
  BY <1>1, <1>8, <1>9, <1>10, <1>11 DEF Recounted

\* What these steps leave: typed counts and filters, and both count invariants.
LEMMA RecountedKeeps ==
  ASSUME TypeOK, Recounted
  PROVE  /\ refcount' \in [Pids -> Int]
         /\ filter' \in SUBSET Pids
         /\ CountedIsOpen => CountedIsOpen'
         /\ RefsBalanced => RefsBalanced'
<1>1. PICK drop \in [Pids -> Nat], take \in [Pids -> Nat] :
        /\ CountPIDs(drop, take)
        /\ SelectPmts => \A p \in Pids : Uses(p)' - Uses(p) = take[p] - drop[p]
        /\ \A p \in Pids : CarriesNoPmt(p) =>
             /\ Uses(p)' - Uses(p) = take[p] - drop[p]
             /\ drop[p] <= Cardinality(subs[p])
  BY DEF Recounted
<1>2. refcount \in [Pids -> Int] /\ filter \in SUBSET Pids
  BY DEF TypeOK
<1>3. /\ refcount' \in [Pids -> Int]
      /\ filter' \in SUBSET Pids
      /\ \A p \in Pids : refcount'[p] = refcount[p] - drop[p] + take[p]
  BY <1>1, <1>2, CountPIDsType
<1>4. CountedIsOpen => CountedIsOpen'
  BY <1>1, <1>2, CountPIDsOpen
<1>5. ASSUME RefsBalanced PROVE RefsBalanced'
  <2> SUFFICES ASSUME SelectPmts, NEW p \in Pids
               PROVE  refcount'[p] = Cardinality(subs'[p]) + psi_refcount'[p] + One(p \in TimePids)
    BY DEF RefsBalanced
  <2>1. /\ refcount[p] = Cardinality(subs[p]) + psi_refcount[p] + One(p \in TimePids)
        /\ Uses(p)' - Uses(p) = take[p] - drop[p]
        /\ refcount'[p] = refcount[p] - drop[p] + take[p]
    BY <1>1, <1>3, <1>5 DEF RefsBalanced
  <2>2. /\ Cardinality(subs[p]) \in Nat /\ Cardinality(subs'[p]) \in Nat
        /\ psi_refcount[p] \in Int /\ psi_refcount'[p] \in Int
        /\ drop[p] \in Nat /\ take[p] \in Nat /\ refcount[p] \in Int
    BY <1>2, OutputsAreFinite DEF TypeOK, Recounted
  <2>3. One(p \in TimePids) \in Int
    BY DEF One
  <2>4. QED
    BY <2>1, <2>2, <2>3 DEF Uses
<1>6. QED
  BY <1>3, <1>4, <1>5

-----------------------------------------------------------------------------
(* Type correctness.                                                       *)

\* A change of configuration leaves typed slots, counts, filters and programs.
LEMMA ChangeType ==
  ASSUME TypeOK, NEW o \in Slots, NEW c \in AllConfigs, demux_Change(o, c, valid \ {o})
  PROVE  /\ subs' \in [Pids -> SUBSET Slots]
         /\ refcount' \in [Pids -> Int]
         /\ psi_refcount' \in [Pids -> Int]
         /\ filter' \in SUBSET Pids
         /\ i_pcr_pid' \in [Slots -> Pids \cup {NoPid}]
         /\ descrambled' \in SUBSET Sids
         /\ conf' \in [Slots -> AllConfigs]
         /\ conf' = [conf EXCEPT ![o] = c]
<1>1. Recounted
  BY ChangeRecounts
<1>2. PcrOnlyPID(c) \in Pids \cup {NoPid}
  BY KnownProgram
<1>3. i_pcr_pid' \in [Slots -> Pids \cup {NoPid}]
  BY <1>2 DEF demux_Change, TypeOK
<1>4. descrambled' \in SUBSET Sids
  BY DEF demux_Change, TypeOK
<1>5. conf' \in [Slots -> AllConfigs] /\ conf' = [conf EXCEPT ![o] = c]
  BY DEF demux_Change, TypeOK
<1>6. QED
  BY <1>1, <1>3, <1>4, <1>5, RecountedKeeps DEF Recounted

LEMMA InitTypeOK ==
  ASSUME Init
  PROVE  TypeOK
<1>1. NoPmt \in Pmts /\ NoConfig \in AllConfigs
  BY DEF NoPmt, Pmts, NoConfig, AllConfigs
<1>2. QED
  BY <1>1, InputsAssumption DEF Init, TypeOK, One

LEMMA TypeStep ==
  ASSUME TypeOK, [Next]_vars
  PROVE  TypeOK'
<1> USE InputsAssumption
<1>1. ASSUME NEW newPat \in PatTables, NEW newTsid \in TSIDs, HandlePAT(newPat, newTsid)
      PROVE  TypeOK'
  BY <1>1 DEF TypeOK, HandlePAT, outputVars, pidVars
<1>2. ASSUME NEW s \in Sids, CompareProgram(s)
      PROVE  TypeOK'
  <2>1. Recounted
    BY <1>2, CompareProgramRecounts
  <2>2. NoPmt \in Pmts
    BY DEF NoPmt, Pmts
  <2>3. /\ todo' \in SUBSET Sids
        /\ pmt_pid' \in [Sids -> Pids \cup {NoPid}]
        /\ pmt' \in [Sids -> Pmts]
        /\ descrambled' \in SUBSET Sids
    BY <1>2, <2>2 DEF CompareProgram, TypeOK
  <2>4. /\ phase' \in {"idle", "pat", "read", "close"}
        /\ phase' = "pat" <=> todo' # {}
        /\ phase' \in {"idle", "pat"} => still' = {}
        /\ UNCHANGED <<outputVars, pat, tsid>>
    <3>1. /\ phase = "pat"
          /\ phase' = IF todo' = {} THEN "idle" ELSE "pat"
          /\ UNCHANGED <<outputVars, pat, tsid>>
      BY <1>2 DEF CompareProgram
    <3>2. QED
      BY <3>1 DEF TypeOK, outputVars
  <2>5. QED
    BY <2>1, <2>3, <2>4, RecountedKeeps DEF TypeOK, Recounted, outputVars
<1>3. ASSUME NEW s \in Sids, NEW t \in PmtTables, HandlePMT(s, t)
      PROVE  TypeOK'
  <2>1. Recounted
    BY <1>3, HandlePMTRecounts
  <2>2. t \in Pmts /\ t.pcr \in Pids \cup {NoPid}
    BY DEF Pmts
  <2>3. i_pcr_pid' \in [Slots -> Pids \cup {NoPid}]
    BY <1>3, <2>2 DEF HandlePMT, TypeOK
  <2>4. pmt' \in [Sids -> Pmts] /\ descrambled' \in SUBSET Sids
    BY <1>3, <2>2 DEF HandlePMT, TypeOK
  <2>5. UNCHANGED <<phase, valid, still, addr, conf, pat, tsid, todo, pmt_pid>>
    BY <1>3 DEF HandlePMT
  <2>6. QED
    BY <2>1, <2>3, <2>4, <2>5, RecountedKeeps DEF TypeOK, Recounted
<1>4. CASE BeginReload
  BY <1>4 DEF TypeOK, BeginReload, outputVars, programVars, pidVars
<1>5. ASSUME NEW a \in Addrs, NEW c \in Configs, ReadLine(a, c)
      PROVE  TypeOK'
  <2>1. PICK o \in SlotsFor(a) : /\ demux_Change(o, c, valid \ {o})
                                 /\ valid' = valid \cup {o}
                                 /\ still' = still \cup {o}
                                 /\ addr' = [addr EXCEPT ![o] = a]
    BY <1>5 DEF ReadLine
  <2>2. o \in Slots /\ c \in AllConfigs
    BY DEF SlotsFor, TypeOK
  <2>3. /\ phase = "read"
        /\ UNCHANGED <<phase, programVars>>
    BY <1>5 DEF ReadLine
  <2>4. /\ valid' \in SUBSET Slots /\ still' \in SUBSET Slots
        /\ addr' \in [Slots -> Addrs]
    BY <2>1, <2>2 DEF TypeOK
  <2>5. \A q \in Slots \ valid' : conf'[q] = NoConfig
    <3>1. conf' = [conf EXCEPT ![o] = c]
      BY <2>1, <2>2, ChangeType
    <3>2. QED
      BY <2>1, <2>2, <3>1 DEF TypeOK
  <2>6. QED
    BY <2>1, <2>2, <2>3, <2>4, <2>5, ChangeType DEF TypeOK, programVars
<1>6. CASE EndOfFile
  BY <1>6 DEF TypeOK, EndOfFile, programVars, pidVars
<1>7. ASSUME NEW o \in Slots, CloseStale(o)
      PROVE  TypeOK'
  <2>1. NoConfig \in AllConfigs
    BY DEF NoConfig, AllConfigs
  <2>2. demux_Change(o, NoConfig, valid \ {o})
    BY <1>7 DEF CloseStale
  <2>3. /\ phase = "close" /\ phase' \in {"idle", "close"}
        /\ phase' \in {"idle", "pat"} => still' = {}
        /\ valid' = valid \ {o} /\ still' \in SUBSET Slots
        /\ UNCHANGED <<addr, programVars>>
    BY <1>7 DEF CloseStale, TypeOK
  <2>4. \A q \in Slots \ valid' : conf'[q] = NoConfig
    <3>1. conf' = [conf EXCEPT ![o] = NoConfig]
      BY <2>1, <2>2, ChangeType
    <3>2. QED
      BY <2>3, <3>1 DEF TypeOK
  <2>5. QED
    BY <2>1, <2>2, <2>3, <2>4, ChangeType DEF TypeOK, programVars
<1>8. CASE UNCHANGED vars
  BY <1>8 DEF TypeOK, vars, outputVars, programVars, pidVars
<1>9. QED
  BY <1>1, <1>2, <1>3, <1>4, <1>5, <1>6, <1>7, <1>8 DEF Next

(***************************************************************************)
(* The variables keep their types, the todo list of HandlePAT is empty     *)
(* exactly when it is not running, no output is marked as still present    *)
(* outside a reload, and a closed output asks for nothing.                 *)
(***************************************************************************)
THEOREM TypeCorrect == Spec => []TypeOK
BY InitTypeOK, TypeStep, PTL DEF Spec

-----------------------------------------------------------------------------
(* The reference counts.                                                   *)

\* A step moves counts and users together, or leaves both alone.
LEMMA NextRecounts ==
  ASSUME TypeOK, [Next]_vars
  PROVE  Recounted \/ UNCHANGED pidVars
<1>1. ASSUME NEW newPat \in PatTables, NEW newTsid \in TSIDs, HandlePAT(newPat, newTsid)
      PROVE  UNCHANGED pidVars
  BY <1>1 DEF HandlePAT
<1>2. ASSUME NEW s \in Sids, CompareProgram(s)
      PROVE  Recounted
  BY <1>2, CompareProgramRecounts
<1>3. ASSUME NEW s \in Sids, NEW t \in PmtTables, HandlePMT(s, t)
      PROVE  Recounted
  BY <1>3, HandlePMTRecounts
<1>4. CASE BeginReload
  BY <1>4 DEF BeginReload
<1>5. ASSUME NEW a \in Addrs, NEW c \in Configs, ReadLine(a, c)
      PROVE  Recounted
  <2>1. PICK o \in SlotsFor(a) : demux_Change(o, c, valid \ {o})
    BY <1>5 DEF ReadLine
  <2>2. o \in Slots /\ c \in AllConfigs
    BY InputsAssumption DEF SlotsFor, TypeOK
  <2>3. QED
    BY <2>1, <2>2, ChangeRecounts
<1>6. CASE EndOfFile
  BY <1>6 DEF EndOfFile
<1>7. ASSUME NEW o \in Slots, CloseStale(o)
      PROVE  Recounted
  <2>1. NoConfig \in AllConfigs
    BY DEF NoConfig, AllConfigs
  <2>2. demux_Change(o, NoConfig, valid \ {o})
    BY <1>7 DEF CloseStale
  <2>3. QED
    BY <2>1, <2>2, ChangeRecounts
<1>8. CASE UNCHANGED vars
  BY <1>8 DEF vars
<1>9. QED
  BY <1>1, <1>2, <1>3, <1>4, <1>5, <1>6, <1>7, <1>8 DEF Next

LEMMA InitCounts ==
  ASSUME Init
  PROVE  RefsBalanced /\ CountedIsOpen
<1>1. ASSUME NEW p \in Pids
      PROVE  refcount[p] = Cardinality(subs[p]) + psi_refcount[p] + One(p \in TimePids)
  <2>1. Cardinality(subs[p]) = 0
    BY FS_EmptySet DEF Init
  <2>2. p \in TimePids => p \notin TablePids
    BY InputsAssumption
  <2>3. QED
    BY <2>1, <2>2 DEF Init, One
<1>2. CountedIsOpen
  BY DEF Init, CountedIsOpen, One
<1>3. QED
  BY <1>1, <1>2 DEF RefsBalanced

LEMMA CountsStep ==
  ASSUME TypeOK, RefsBalanced, CountedIsOpen, [Next]_vars
  PROVE  RefsBalanced' /\ CountedIsOpen'
<1>1. CASE Recounted
  BY <1>1, RecountedKeeps
<1>2. CASE UNCHANGED pidVars
  BY <1>2 DEF pidVars, RefsBalanced, CountedIsOpen
<1>3. QED
  BY <1>1, <1>2, NextRecounts

LEMMA CountsInvariant == Spec => [](TypeOK /\ RefsBalanced /\ CountedIsOpen)
<1>1. Init => TypeOK /\ RefsBalanced /\ CountedIsOpen
  BY InitTypeOK, InitCounts
<1>2. TypeOK /\ RefsBalanced /\ CountedIsOpen /\ [Next]_vars
        => (TypeOK /\ RefsBalanced /\ CountedIsOpen)'
  BY TypeStep, CountsStep
<1>3. QED
  BY <1>1, <1>2, PTL DEF Spec

(***************************************************************************)
(* The count of a PID is the number of outputs subscribed to it plus the   *)
(* users of its sections, for any interleaving of PAT and PMT handlers     *)
(* and reloads, although UnselectPMT and SelectPMT drift.                  *)
(***************************************************************************)
THEOREM ReferencesBalanced == Spec => []RefsBalanced
BY CountsInvariant, PTL

\* SetPID and UnsetPID keep the filter of every PID with a positive count open.
THEOREM CountedOpen == Spec => []CountedIsOpen
BY CountsInvariant, PTL

-----------------------------------------------------------------------------
(***************************************************************************)
(* What an output is subscribed to is received.  In a stream where PMT     *)
(* PIDs only carry PMTs, the counts of the other PIDs never drift: their   *)
(* section users are those demux_Open set.                                 *)
(***************************************************************************)
Separated ==
  /\ \A s \in Sids : /\ pat[s] \in PmtPids \cup {NoPid}
                     /\ pmt_pid[s] \in PmtPids \cup {NoPid}
                     /\ pmt[s] \in PmtTables \cup {NoPmt}
  /\ \A p \in Pids \ PmtPids : psi_refcount[p] = One(p \in TablePids)
  /\ PmtPidsCarryOnlyPmts => \A p \in Pids : subs[p] # {} => p \notin PmtPids

\* No PMT that can arrive names a PMT PID.
LEMMA MarkedIsNotPmt ==
  ASSUME PmtPidsCarryOnlyPmts, NEW t \in PmtTables \cup {NoPmt}
  PROVE  mark_pmt_pids(t) \cap PmtPids = {}
BY NamesAssumption DEF PmtPidsCarryOnlyPmts, mark_pmt_pids, NoPmt, PmtPids

\* Nor does GetPIDS for a configuration that can arrive.
LEMMA WantedIsNotPmt ==
  ASSUME TypeOK, Separated, PmtPidsCarryOnlyPmts, NEW c \in Configs \cup {NoConfig}
  PROVE  GetPIDS(c) \cap PmtPids = {}
<1>1. c \in AllConfigs /\ c.pids \cap PmtPids = {}
  BY InputsAssumption DEF PmtPidsCarryOnlyPmts, NoConfig, AllConfigs
<1>2. CASE ~ FindSID(c.sid)
  BY <1>1, <1>2 DEF GetPIDS, ElementaryPIDs, PcrOnlyPID
<1>3. CASE FindSID(c.sid)
  <2>1. pmt[c.sid] \in PmtTables \cup {NoPmt}
    BY <1>1, <1>3, KnownProgram DEF Separated
  <2>2. mark_pmt_pids(pmt[c.sid]) \cap PmtPids = {}
    BY <2>1, MarkedIsNotPmt
  <2>3. GetPIDS(c) \subseteq c.pids \cup mark_pmt_pids(pmt[c.sid])
    BY DEF GetPIDS, ElementaryPIDs, PcrOnlyPID, mark_pmt_pids
  <2>4. QED
    BY <1>1, <2>2, <2>3
<1>4. QED
  BY <1>2, <1>3

LEMMA ChangeSeparated ==
  ASSUME TypeOK, Separated, UNCHANGED programVars,
         NEW o \in Slots, NEW c \in Configs \cup {NoConfig}, demux_Change(o, c, valid \ {o})
  PROVE  Separated'
<1>1. c \in AllConfigs
  BY InputsAssumption DEF NoConfig, AllConfigs
<1>2. ASSUME NEW p \in Pids \ PmtPids
      PROVE  psi_refcount'[p] = psi_refcount[p]
  <2>1. \A s : FindSID(s) /\ s \in Sids => pmt_pid[s] # p
    BY DEF Separated, FindSID
  <2>2. \A d \in AllConfigs : FindSID(d.sid) => pmt_pid[d.sid] # p
    BY <2>1, KnownProgram
  <2>3. conf[o] \in AllConfigs /\ psi_refcount[p] \in Int
    BY DEF TypeOK
  <2>4. psi_refcount'[p] = psi_refcount[p] - One(FALSE) + One(FALSE)
    BY <1>1, <2>2, <2>3 DEF demux_Change
  <2>5. QED
    BY <2>3, <2>4 DEF One
<1>3. ASSUME PmtPidsCarryOnlyPmts, NEW p \in Pids, subs'[p] # {}
      PROVE  p \notin PmtPids
  <2>1. CASE subs[p] # {}
    BY <1>3, <2>1 DEF Separated
  <2>2. CASE subs[p] = {}
    <3>1. p \in GetPIDS(c)
      BY <1>3, <2>2 DEF demux_Change
    <3>2. QED
      BY <1>3, <3>1, WantedIsNotPmt
  <2>3. QED
    BY <2>1, <2>2
<1>4. QED
  BY <1>2, <1>3 DEF Separated, programVars, PmtPidsCarryOnlyPmts, PmtPids

LEMMA InitSeparated ==
  ASSUME Init
  PROVE  Separated
BY DEF Init, Separated

LEMMA SeparatedStep ==
  ASSUME TypeOK, Separated, [Next]_vars
  PROVE  Separated'
<1>1. ASSUME NEW newPat \in PatTables, NEW newTsid \in TSIDs, HandlePAT(newPat, newTsid)
      PROVE  Separated'
  <2>1. \A s \in Sids : newPat[s] \in PmtPids \cup {NoPid}
    BY InputsAssumption DEF PmtPids
  <2>2. QED
    BY <1>1, <2>1 DEF HandlePAT, pidVars, Separated, PmtPidsCarryOnlyPmts, PmtPids
<1>2. ASSUME NEW s \in Sids, CompareProgram(s)
      PROVE  Separated'
  <2>1. \A q \in Sids : /\ pat'[q] \in PmtPids \cup {NoPid}
                        /\ pmt_pid'[q] \in PmtPids \cup {NoPid}
                        /\ pmt'[q] \in PmtTables \cup {NoPmt}
    BY <1>2 DEF CompareProgram, Separated, TypeOK
  <2>2. ASSUME NEW p \in Pids \ PmtPids
        PROVE  psi_refcount'[p] = psi_refcount[p]
    <3>1. p # pmt_pid[s] /\ p # pat[s] /\ psi_refcount[p] \in Int
      BY NamesAssumption DEF Separated, TypeOK
    <3>2. psi_refcount'[p] = psi_refcount[p] - One(p = pmt_pid[s]) + One(p = pat[s])
      BY <1>2 DEF CompareProgram
    <3>3. QED
      BY <3>1, <3>2 DEF One
  <2>3. \A p \in Pids : subs'[p] \subseteq subs[p]
    BY <1>2 DEF CompareProgram
  <2>4. QED
    BY <2>1, <2>2, <2>3 DEF Separated, PmtPidsCarryOnlyPmts, PmtPids
<1>3. ASSUME NEW s \in Sids, NEW t \in PmtTables, HandlePMT(s, t)
      PROVE  Separated'
  <2>1. \A q \in Sids : /\ pat'[q] \in PmtPids \cup {NoPid}
                        /\ pmt_pid'[q] \in PmtPids \cup {NoPid}
                        /\ pmt'[q] \in PmtTables \cup {NoPmt}
    BY <1>3 DEF HandlePMT, Separated, TypeOK
  <2>2. psi_refcount' = psi_refcount
    BY <1>3 DEF HandlePMT
  <2>3. ASSUME PmtPidsCarryOnlyPmts, NEW p \in Pids, subs'[p] # {}
        PROVE  p \notin PmtPids
    <3>1. subs[p] # {} \/ p \in mark_pmt_pids(t)
      BY <1>3, <2>3 DEF HandlePMT
    <3>2. QED
      BY <2>3, <3>1, MarkedIsNotPmt DEF Separated
  <2>4. QED
    BY <2>1, <2>2, <2>3 DEF Separated, PmtPidsCarryOnlyPmts, PmtPids
<1>4. CASE BeginReload
  BY <1>4 DEF BeginReload, programVars, pidVars, Separated, PmtPidsCarryOnlyPmts, PmtPids
<1>5. ASSUME NEW a \in Addrs, NEW c \in Configs, ReadLine(a, c)
      PROVE  Separated'
  <2>1. PICK o \in SlotsFor(a) : demux_Change(o, c, valid \ {o})
    BY <1>5 DEF ReadLine
  <2>2. o \in Slots
    BY DEF SlotsFor, TypeOK
  <2>3. QED
    BY <1>5, <2>1, <2>2, ChangeSeparated DEF ReadLine
<1>6. CASE EndOfFile
  BY <1>6 DEF EndOfFile, programVars, pidVars, Separated, PmtPidsCarryOnlyPmts, PmtPids
<1>7. ASSUME NEW o \in Slots, CloseStale(o)
      PROVE  Separated'
  BY <1>7, ChangeSeparated DEF CloseStale
<1>8. CASE UNCHANGED vars
  BY <1>8 DEF vars, programVars, pidVars, Separated, PmtPidsCarryOnlyPmts, PmtPids
<1>9. QED
  BY <1>1, <1>2, <1>3, <1>4, <1>5, <1>6, <1>7, <1>8 DEF Next

LEMMA SeparatedInvariant == Spec => []Separated
<1>1. Init => TypeOK /\ Separated
  BY InitTypeOK, InitSeparated
<1>2. TypeOK /\ Separated /\ [Next]_vars => (TypeOK /\ Separated)'
  BY TypeStep, SeparatedStep
<1>3. QED
  BY <1>1, <1>2, PTL DEF Spec

LEMMA SeparatedIsReceived ==
  ASSUME TypeOK, RefsBalanced, CountedIsOpen, Separated
  PROVE  SubscribedIsReceived
<1> SUFFICES ASSUME SelectPmts, ~ DevMayFail, PmtPidsCarryOnlyPmts, ~ BudgetMode,
                    NEW p \in Pids, subs[p] # {}
             PROVE  p \in filter
  BY DEF SubscribedIsReceived, Receives
<1>1. psi_refcount[p] = One(p \in TablePids)
  BY DEF Separated
<1>2. refcount[p] = Cardinality(subs[p]) + One(p \in TablePids) + One(p \in TimePids)
  BY <1>1 DEF RefsBalanced
<1>3. subs[p] \in SUBSET Slots /\ refcount[p] \in Int
  BY DEF TypeOK
<1>4. Cardinality(subs[p]) > 0
  BY <1>3, OutputsAreFinite, FS_EmptySet
<1>5. Cardinality(subs[p]) \in Nat
  BY <1>3, OutputsAreFinite
<1>6. refcount[p] > 0
  BY <1>2, <1>4, <1>5 DEF One
<1>7. QED
  BY <1>6 DEF CountedIsOpen

(***************************************************************************)
(* Whatever PATs, PMTs and reloads came before, the device delivers every  *)
(* PID some output is subscribed to, as long as PMT PIDs carry only PMTs   *)
(* and no dev_SetFilter fails.                                             *)
(***************************************************************************)
THEOREM SubscribedReceived == Spec => []SubscribedIsReceived
<1>1. TypeOK /\ RefsBalanced /\ CountedIsOpen /\ Separated => SubscribedIsReceived
  BY SeparatedIsReceived
<1>2. QED
  BY <1>1, CountsInvariant, SeparatedInvariant, PTL

-----------------------------------------------------------------------------
(***************************************************************************)
(* The count of a PID that carries no PMT is the number of its subscribers *)
(* and what demux_Open took, whether b_select_pmts is set or not, and the  *)
(* filter of an elementary PID is open only while it has subscribers.      *)
(***************************************************************************)
ElementaryPids == Pids \ (PmtPids \cup TablePids \cup TimePids)

Kept(p) == One(p \in TablePids) + One(p \in TimePids)

FilterIsUsed ==
  /\ \A p \in Pids \ PmtPids : refcount[p] = Cardinality(subs[p]) + Kept(p)
  /\ \A p \in filter \cap ElementaryPids : refcount[p] > 0

LEMMA InitFilterIsUsed ==
  ASSUME Init
  PROVE  FilterIsUsed
<1>1. Cardinality({}) = 0
  BY FS_EmptySet
<1>2. QED
  BY <1>1, InputsAssumption DEF Init, FilterIsUsed, ElementaryPids, Kept, One

\* UnsetPID closes the filter with the last subscriber, SetPID opens it with
\* the first, or fails to.
LEMMA RecountedFilterIsUsed ==
  ASSUME TypeOK, Separated, FilterIsUsed, Recounted, Separated'
  PROVE  FilterIsUsed'
<1>1. PICK drop \in [Pids -> Nat], take \in [Pids -> Nat] :
        /\ CountPIDs(drop, take)
        /\ \A p \in Pids : CarriesNoPmt(p) =>
             /\ Uses(p)' - Uses(p) = take[p] - drop[p]
             /\ drop[p] <= Cardinality(subs[p])
  BY DEF Recounted
<1>2. ASSUME NEW p \in Pids \ PmtPids
      PROVE  /\ refcount[p] = Cardinality(subs[p]) + Kept(p)
             /\ refcount'[p] = Cardinality(subs'[p]) + Kept(p)
             /\ refcount'[p] = refcount[p] - drop[p] + take[p]
             /\ drop[p] \in Nat /\ take[p] \in Nat /\ drop[p] <= Cardinality(subs[p])
             /\ Cardinality(subs[p]) \in Nat /\ Cardinality(subs'[p]) \in Nat
  <2>1. CarriesNoPmt(p)
    BY NamesAssumption DEF Separated, CarriesNoPmt
  <2>2. psi_refcount'[p] = psi_refcount[p] /\ psi_refcount[p] \in Int
    BY DEF Separated, One, PmtPids
  <2>3. /\ refcount'[p] = refcount[p] - drop[p] + take[p]
        /\ drop[p] \in Nat /\ take[p] \in Nat /\ Kept(p) \in Nat
        /\ Cardinality(subs[p]) \in Nat /\ Cardinality(subs'[p]) \in Nat
    BY <1>1, OutputsAreFinite DEF CountPIDs, TypeOK, Recounted, Kept, One
  <2>4. /\ refcount[p] = Cardinality(subs[p]) + Kept(p)
        /\ drop[p] <= Cardinality(subs[p])
        /\ Uses(p)' - Uses(p) = take[p] - drop[p]
    BY <1>1, <2>1 DEF FilterIsUsed
  <2>5. Cardinality(subs'[p]) - Cardinality(subs[p]) = take[p] - drop[p]
    BY <2>2, <2>3, <2>4 DEF Uses
  <2>6. QED
    BY <2>3, <2>4, <2>5
<1>3. ASSUME NEW p \in filter' \cap ElementaryPids
      PROVE  refcount'[p] > 0
  <2>1. p \in Pids \ PmtPids /\ Kept(p) = 0
    BY DEF ElementaryPids, Kept, One
  <2>2. CASE p \in filter /\ ~ Closes(p, drop)
    <3>1. refcount[p] > 0
      BY <2>2 DEF FilterIsUsed
    <3>2. QED
      BY <1>2, <2>1, <2>2, <3>1 DEF Closes
  <2>3. CASE Opens(p, drop, take)
    <3>1. /\ refcount'[p] = refcount[p] - drop[p] + take[p]
          /\ refcount[p] = Cardinality(subs[p]) + 0
          /\ drop[p] <= Cardinality(subs[p])
          /\ drop[p] \in Nat /\ take[p] \in Nat /\ Cardinality(subs[p]) \in Nat
      BY <1>2, <2>1
    <3>2. take[p] >= 1
      BY <2>3, <3>1 DEF Opens
    <3>3. QED
      BY <3>1, <3>2
  <2>4. QED
    BY <1>1, <2>2, <2>3 DEF CountPIDs
<1>4. QED
  BY <1>2, <1>3 DEF FilterIsUsed, ElementaryPids, PmtPids, Kept

LEMMA FilterIsUsedStep ==
  ASSUME TypeOK, Separated, FilterIsUsed, [Next]_vars
  PROVE  FilterIsUsed'
<1>1. CASE Recounted
  BY <1>1, SeparatedStep, RecountedFilterIsUsed
<1>2. CASE UNCHANGED pidVars
  BY <1>2 DEF pidVars, FilterIsUsed, ElementaryPids, PmtPids, Kept
<1>3. QED
  BY <1>1, <1>2, NextRecounts

LEMMA FilterInvariant == Spec => [](TypeOK /\ Separated /\ FilterIsUsed)
<1>1. Init => TypeOK /\ Separated /\ FilterIsUsed
  BY InitTypeOK, InitSeparated, InitFilterIsUsed
<1>2. TypeOK /\ Separated /\ FilterIsUsed /\ [Next]_vars
        => (TypeOK /\ Separated /\ FilterIsUsed)'
  BY TypeStep, SeparatedStep, FilterIsUsedStep
<1>3. QED
  BY <1>1, <1>2, PTL DEF Spec

(***************************************************************************)
(* A filter that dev_SetFilter opened for an elementary PID is closed with *)
(* the last output that had the PID, whatever order PATs, PMTs and reloads *)
(* come in, with failing dev_SetFilter calls and without b_select_pmts.    *)
(***************************************************************************)
THEOREM UnusedClosed == Spec => []UnusedIsClosed
<1>1. TypeOK /\ FilterIsUsed => UnusedIsClosed
  <2> SUFFICES ASSUME TypeOK, FilterIsUsed, NEW p \in filter,
                      p \notin PmtPids \cup TablePids \cup TimePids, subs[p] = {}
               PROVE  FALSE
    BY DEF UnusedIsClosed
  <2>1. p \in ElementaryPids /\ Kept(p) = 0
    BY DEF TypeOK, ElementaryPids, Kept, One
  <2>2. refcount[p] = Cardinality({}) + Kept(p) /\ refcount[p] > 0
    BY <2>1 DEF FilterIsUsed, ElementaryPids
  <2>3. QED
    BY <2>1, <2>2, FS_EmptySet
<1>2. QED
  BY <1>1, FilterInvariant, PTL

-----------------------------------------------------------------------------
(***************************************************************************)
(* A reload.  An output that keeps a PID holds one of the references on it *)
(* that no other output can give up.                                       *)
(***************************************************************************)
LEMMA ChangeLosesNothing ==
  ASSUME TypeOK, Separated, FilterIsUsed, PmtPidsCarryOnlyPmts,
         NEW q \in Slots, NEW c \in AllConfigs, demux_Change(q, c, valid \ {q}),
         NEW o \in Slots, NEW p \in Subscriptions(o) \cap GetPIDS(conf'[o])
  PROVE  o \in subs'[p] /\ (Receives(p) => Receives(p)')
<1> DEFINE old == conf[q]
           loses == IF p \in GetPIDS(old) \ GetPIDS(c) THEN StopPID({q}, p) ELSE {}
           gains == IF p \in GetPIDS(c) \ GetPIDS(old) THEN StartPID({q}, p) ELSE {}
           left == c.sid # old.sid /\ FindSID(old.sid)
           leaves(r) == left /\ r = pmt_pid[old.sid]
           others(s) == {r \in valid \ {q} : conf[r].sid = s}
           joined == c.sid # old.sid /\ FindSID(c.sid)
           drop == [r \in Pids |-> Cardinality(IF r \in GetPIDS(old) \ GetPIDS(c)
                                                THEN StopPID({q}, r) ELSE {})
                                   + (IF leaves(r) THEN PmtUnits(others(old.sid)) ELSE 0)]
           take == [r \in Pids |-> Cardinality(IF r \in GetPIDS(c) \ GetPIDS(old)
                                                THEN StartPID({q}, r) ELSE {})
                                   + (IF joined /\ r = pmt_pid[c.sid]
                                      THEN PmtUnits(others(c.sid)) ELSE 0)]
<1>1. /\ subs'[p] = (subs[p] \ loses) \cup gains
      /\ CountPIDs(drop, take)
      /\ conf' = [conf EXCEPT ![q] = c]
  BY DEF demux_Change, Subscriptions
<1>2. p \in Pids \ PmtPids /\ o \in subs[p]
  BY DEF Subscriptions, Separated
<1>3. loses \subseteq subs[p] \ {o}
  <2>1. o = q => p \in GetPIDS(c)
    BY <1>1 DEF TypeOK
  <2>2. QED
    BY <2>1 DEF StopPID
<1>4. ~ leaves(p)
  <2>1. old \in AllConfigs
    BY DEF TypeOK
  <2>2. FindSID(old.sid) => pmt_pid[old.sid] \in PmtPids
    BY <2>1, KnownProgram DEF Separated, FindSID
  <2>3. QED
    BY <1>2, <2>2
<1>5. drop[p] = Cardinality(loses)
  <2>1. Cardinality(loses) \in Nat
    <3>1. loses \in SUBSET Slots
      BY <1>2, <1>3 DEF TypeOK
    <3> HIDE DEF loses
    <3>2. QED
      BY <3>1, OutputsAreFinite
  <2>2. QED
    BY <1>2, <1>4, <2>1
<1>6. drop[p] < refcount[p] /\ refcount[p] \in Int /\ drop[p] \in Nat
  <2> HIDE DEF loses, drop
  <2>1. /\ IsFiniteSet(subs[p]) /\ Cardinality(subs[p]) \in Nat
        /\ subs[p] \ {o} \in SUBSET Slots
    BY <1>2, OutputsAreFinite DEF TypeOK
  <2>2. Cardinality(subs[p] \ {o}) = Cardinality(subs[p]) - 1
    BY <1>2, <2>1, FS_RemoveElement
  <2>3. Cardinality(loses) <= Cardinality(subs[p] \ {o}) /\ Cardinality(loses) \in Nat
    BY <1>3, <2>1, FewerOutputs, OutputsAreFinite
  <2>4. refcount[p] = Cardinality(subs[p]) + Kept(p) /\ Kept(p) \in Nat
    BY <1>2 DEF FilterIsUsed, Kept, One
  <2>5. QED
    BY <1>5, <2>1, <2>2, <2>3, <2>4
<1>7. p \in filter => p \in filter'
  <2> HIDE DEF drop, take
  <2>1. ~ Closes(p, drop)
    BY <1>6 DEF Closes
  <2>2. QED
    BY <1>1, <2>1 DEF CountPIDs
<1>8. o \in subs'[p]
  BY <1>1, <1>2, <1>3
<1>9. QED
  BY <1>7, <1>8 DEF Receives

LEMMA ReloadStep ==
  ASSUME TypeOK, Separated, FilterIsUsed, PmtPidsCarryOnlyPmts, [Next]_vars
  PROVE  ReloadStepLosesNothing
<1> SUFFICES ASSUME phase \in {"read", "close"}, NEW o \in valid \cap valid',
                    NEW p \in Subscriptions(o) \cap GetPIDS(conf'[o])
             PROVE  o \in subs'[p] /\ (Receives(p) => Receives(p)')
  BY DEF ReloadStepLosesNothing
<1>1. o \in Slots /\ o \in subs[p]
  BY DEF TypeOK, Subscriptions
<1>2. CASE UNCHANGED pidVars
  BY <1>1, <1>2 DEF pidVars, Receives
<1>3. ASSUME NEW a \in Addrs, NEW c \in Configs, ReadLine(a, c)
      PROVE  o \in subs'[p] /\ (Receives(p) => Receives(p)')
  <2>1. PICK q \in SlotsFor(a) : demux_Change(q, c, valid \ {q})
    BY <1>3 DEF ReadLine
  <2>2. q \in Slots /\ c \in AllConfigs
    BY InputsAssumption DEF SlotsFor, TypeOK
  <2>3. QED
    BY <1>1, <2>1, <2>2, ChangeLosesNothing
<1>4. ASSUME NEW q \in Slots, CloseStale(q)
      PROVE  o \in subs'[p] /\ (Receives(p) => Receives(p)')
  <2>1. NoConfig \in AllConfigs
    BY DEF NoConfig, AllConfigs
  <2>2. QED
    BY <1>1, <1>4, <2>1, ChangeLosesNothing DEF CloseStale
<1>5. QED
  BY <1>2, <1>3, <1>4
     DEF Next, HandlePAT, CompareProgram, HandlePMT, BeginReload, EndOfFile, vars, pidVars

(***************************************************************************)
(* In a stream whose PMT PIDs carry only PMTs, a reload of any number of   *)
(* lines drops no subscription that an output still asks for and closes no *)
(* filter under it, even if PIDs move from one output to another: lines    *)
(* are applied one by one, and dropped outputs go last.                    *)
(***************************************************************************)
THEOREM ReloadKeeps ==
  ASSUME PmtPidsCarryOnlyPmts
  PROVE  Spec => ReloadLosesNothing
<1>1. TypeOK /\ Separated /\ FilterIsUsed /\ [Next]_vars => ReloadStepLosesNothing
  BY ReloadStep
<1>2. QED
  BY <1>1, FilterInvariant, PTL DEF Spec, ReloadLosesNothing

-----------------------------------------------------------------------------
(***************************************************************************)
(* The conditional access module.  A program without an entry in pp_sids   *)
(* has no PMT, so the swaps of config.i_sid in demux_Change miss nothing.  *)
(***************************************************************************)
CamInv ==
  /\ CamTracksSelection
  /\ \A s \in Sids : pmt_pid[s] = NoPid => pmt[s] = NoPmt

LEMMA ChangeCam ==
  ASSUME TypeOK, CamInv, UNCHANGED programVars,
         NEW o \in Slots, NEW c \in AllConfigs, demux_Change(o, c, valid \ {o}),
         valid' = valid \cup {o} \/ (valid' = valid \ {o} /\ c = NoConfig)
  PROVE  CamInv'
<1> SUFFICES ASSUME NEW s \in Sids
             PROVE  s \in descrambled' <=> SIDIsSelected(s)' /\ pmt[s].scrambled
  BY DEF CamInv, CamTracksSelection, programVars
<1> DEFINE others == \E q \in valid \ {o} : conf[q].sid = s
<1>1. /\ s \in descrambled <=> SIDIsSelected(s) /\ pmt[s].scrambled
      /\ pmt[s].scrambled \in BOOLEAN
      /\ pmt[s].scrambled => FindSID(s)
  BY NamesAssumption DEF CamInv, CamTracksSelection, TypeOK, Pmts, NoPmt, FindSID
<1>2. SIDIsSelected(s) <=> others \/ conf[o].sid = s
  BY NamesAssumption DEF SIDIsSelected, OnSid, TypeOK, NoConfig
<1>3. SIDIsSelected(s)' <=> others \/ c.sid = s
  <2>1. conf' = [conf EXCEPT ![o] = c] /\ conf \in [Slots -> AllConfigs]
    BY DEF demux_Change, TypeOK
  <2>2. valid \subseteq Slots
    BY DEF TypeOK
  <2>3. \A q \in valid \ {o} : conf'[q] = conf[q]
    BY <2>1, <2>2
  <2>4. conf'[o] = c
    BY <2>1
  <2>5. c = NoConfig => c.sid # s
    BY NamesAssumption DEF NoConfig
  <2>6. SIDIsSelected(s)' <=> \E q \in valid' : conf'[q].sid = s
    BY DEF SIDIsSelected, OnSid
  <2>7. QED
    BY <2>3, <2>4, <2>5, <2>6
<1>4. s \in descrambled' <=>
        \/ /\ s \in descrambled
           /\ ~ (/\ c.sid # conf[o].sid /\ FindSID(conf[o].sid) /\ s = conf[o].sid
                 /\ ~ others /\ pmt[s].scrambled)
        \/ /\ c.sid # conf[o].sid /\ FindSID(c.sid) /\ s = c.sid
           /\ ~ others /\ pmt[s].scrambled
  BY DEF demux_Change, SelectedByOthers
<1>5. QED
  BY <1>1, <1>2, <1>3, <1>4

LEMMA InitCam ==
  ASSUME Init
  PROVE  CamInv
BY DEF Init, CamInv, CamTracksSelection, SIDIsSelected, OnSid, NoPmt

LEMMA CamStep ==
  ASSUME TypeOK, CamInv, [Next]_vars
  PROVE  CamInv'
<1> USE DEF CamInv, CamTracksSelection, SIDIsSelected, OnSid
<1>1. ASSUME NEW newPat \in PatTables, NEW newTsid \in TSIDs, HandlePAT(newPat, newTsid)
      PROVE  CamInv'
  BY <1>1 DEF HandlePAT, outputVars
<1>2. ASSUME NEW s \in Sids, CompareProgram(s)
      PROVE  CamInv'
  <2>1. /\ pmt' = [pmt EXCEPT ![s] = NoPmt]
        /\ pmt_pid' = [pmt_pid EXCEPT ![s] = pat[s]]
        /\ UNCHANGED <<valid, conf>>
        /\ descrambled' = IF SIDIsSelected(s) /\ pmt[s].scrambled
                          THEN descrambled \ {s} ELSE descrambled
    BY <1>2 DEF CompareProgram, outputVars
  <2>2. pmt \in [Sids -> Pmts] /\ pmt_pid \in [Sids -> Pids \cup {NoPid}]
    BY DEF TypeOK
  <2>3. ~ NoPmt.scrambled
    BY DEF NoPmt
  <2>4. QED
    BY <2>1, <2>2, <2>3
<1>3. ASSUME NEW s \in Sids, NEW t \in PmtTables, HandlePMT(s, t)
      PROVE  CamInv'
  <2>1. /\ pmt' = [pmt EXCEPT ![s] = t]
        /\ pmt_pid[s] # NoPid
        /\ UNCHANGED <<valid, conf, pmt_pid>>
        /\ descrambled' = IF ~ SIDIsSelected(s) THEN descrambled
                          ELSE IF t.scrambled THEN descrambled \cup {s}
                          ELSE IF pmt[s].scrambled THEN descrambled \ {s} ELSE descrambled
    BY <1>3 DEF HandlePMT, FindSID
  <2>2. pmt \in [Sids -> Pmts]
    BY DEF TypeOK
  <2>3. QED
    BY <2>1, <2>2
<1>4. CASE BeginReload
  BY <1>4 DEF BeginReload, outputVars, programVars
<1>5. ASSUME NEW a \in Addrs, NEW c \in Configs, ReadLine(a, c)
      PROVE  CamInv'
  <2>1. PICK o \in SlotsFor(a) : demux_Change(o, c, valid \ {o}) /\ valid' = valid \cup {o}
    BY <1>5 DEF ReadLine
  <2>2. o \in Slots /\ c \in AllConfigs
    BY InputsAssumption DEF SlotsFor, TypeOK
  <2>3. QED
    BY <1>5, <2>1, <2>2, ChangeCam DEF ReadLine
<1>6. CASE EndOfFile
  BY <1>6 DEF EndOfFile, programVars
<1>7. ASSUME NEW o \in Slots, CloseStale(o)
      PROVE  CamInv'
  <2>1. NoConfig \in AllConfigs
    BY DEF NoConfig, AllConfigs
  <2>2. QED
    BY <1>7, <2>1, ChangeCam DEF CloseStale
<1>8. CASE UNCHANGED vars
  BY <1>8 DEF vars, outputVars, programVars
<1>9. QED
  BY <1>1, <1>2, <1>3, <1>4, <1>5, <1>6, <1>7, <1>8 DEF Next

LEMMA CamInvariant == Spec => []CamInv
<1>1. Init => TypeOK /\ CamInv
  BY InitTypeOK, InitCam
<1>2. TypeOK /\ CamInv /\ [Next]_vars => (TypeOK /\ CamInv)'
  BY TypeStep, CamStep
<1>3. QED
  BY <1>1, <1>2, PTL DEF Spec

(***************************************************************************)
(* The CAM descrambles the scrambled programs that outputs stream, no more *)
(* and no less, between any two iterations of HandlePAT and of a reload.   *)
(***************************************************************************)
THEOREM CamTracks == Spec => []CamTracksSelection
<1>1. CamInv => CamTracksSelection
  BY DEF CamInv
<1>2. QED
  BY <1>1, CamInvariant, PTL

-----------------------------------------------------------------------------
(***************************************************************************)
(* Routing.  Outputs that take whole programs are subscribed to what the   *)
(* PMT of their program marks.  The handlers move subscriptions by the     *)
(* difference of two PMTs or of two wishes, which is enough because every  *)
(* subscription they start from is exact.                                  *)
(***************************************************************************)
WholePrograms == \A c \in Configs : c.pids = {}

Marked(c) == IF FindSID(c.sid) THEN mark_pmt_pids(pmt[c.sid]) ELSE {}

RouteInv ==
  /\ \A o \in Slots : conf[o].pids = {}
  /\ \A o \in Slots, p \in Pids : o \in subs[p] <=> p \in Marked(conf[o])

\* GetPIDS finds what the PMT marks, since the PCR is never on the PMT PID.
LEMMA WantedIsMarked ==
  ASSUME TypeOK, Separated, PmtPidsCarryOnlyPmts, NEW c \in AllConfigs, c.pids = {}
  PROVE  /\ GetPIDS(c) = Marked(c)
         /\ Policy!Route(c) = Marked(c)
         /\ Marked(c) \subseteq Pids
<1> USE DEF Policy!Route, Policy!Streams, Policy!Clock, Policy!Known
<1>1. CASE ~ FindSID(c.sid)
  BY <1>1 DEF GetPIDS, ElementaryPIDs, PcrOnlyPID, Marked, FindSID
<1>2. CASE FindSID(c.sid)
  <2> DEFINE t == pmt[c.sid]
             m == pmt_pid[c.sid]
  <2>1. c.sid \in Sids /\ c.sid # NoSid /\ m # NoPid
    BY <1>2, KnownProgram DEF FindSID
  <2>2. t \in PmtTables \cup {NoPmt} /\ m \in PmtPids /\ t \in Pmts
    BY <2>1 DEF Separated, TypeOK
  <2>3. mark_pmt_pids(t) \cap PmtPids = {}
    BY <2>2, MarkedIsNotPmt
  <2>4. t.pcr # m \/ t.pcr = NoPid
    BY <2>2, <2>3 DEF mark_pmt_pids
  <2>5. Marked(c) = t.es \cup ({t.pcr} \ {NoPid})
    BY <1>2 DEF Marked, mark_pmt_pids
  <2>6. GetPIDS(c) = t.es \cup ({IF t.pcr \notin t.es \cup {m} THEN t.pcr ELSE NoPid} \ {NoPid})
    BY <1>2 DEF GetPIDS, ElementaryPIDs, PcrOnlyPID
  <2>7. Policy!Route(c) = t.es \cup ({t.pcr} \ {NoPid, m})
    BY <2>1
  <2>8. Marked(c) \subseteq Pids
    BY <2>2, <2>5 DEF Pmts
  <2> HIDE DEF t, m
  <2>9. QED
    BY <2>4, <2>5, <2>6, <2>7, <2>8
<1>3. QED
  BY <1>1, <1>2

LEMMA ChangeRoute ==
  ASSUME TypeOK, Separated, RouteInv, PmtPidsCarryOnlyPmts, UNCHANGED programVars,
         NEW o \in Slots, NEW c \in AllConfigs, c.pids = {}, demux_Change(o, c, valid \ {o})
  PROVE  RouteInv'
<1>1. conf' = [conf EXCEPT ![o] = c] /\ conf[o] \in AllConfigs /\ conf \in [Slots -> AllConfigs]
  BY DEF demux_Change, TypeOK
<1>2. GetPIDS(conf[o]) = Marked(conf[o]) /\ GetPIDS(c) = Marked(c)
  BY <1>1, WantedIsMarked DEF RouteInv
<1>3. \A q \in Slots : Marked(conf[q])' = IF q = o THEN Marked(c) ELSE Marked(conf[q])
  BY <1>1 DEF Marked, FindSID, programVars
<1>4. ASSUME NEW q \in Slots, NEW p \in Pids
      PROVE  q \in subs'[p] <=> p \in Marked(conf[q])'
  <2> DEFINE loses == IF p \in GetPIDS(conf[o]) \ GetPIDS(c) THEN StopPID({o}, p) ELSE {}
             gains == IF p \in GetPIDS(c) \ GetPIDS(conf[o]) THEN StartPID({o}, p) ELSE {}
  <2>1. subs'[p] = (subs[p] \ loses) \cup gains
    BY DEF demux_Change
  <2>2. q \in subs[p] <=> p \in Marked(conf[q])
    BY <1>4 DEF RouteInv
  <2>3. CASE q # o
    BY <1>3, <2>1, <2>2, <2>3 DEF StopPID, StartPID
  <2>4. CASE q = o
    BY <1>2, <1>3, <2>1, <2>2, <2>4 DEF StopPID, StartPID
  <2>5. QED
    BY <2>3, <2>4
<1>5. \A q \in Slots : conf'[q].pids = {}
  BY <1>1 DEF RouteInv
<1>6. QED
  BY <1>4, <1>5 DEF RouteInv

LEMMA InitRoute ==
  ASSUME Init
  PROVE  RouteInv
BY DEF Init, RouteInv, Marked, FindSID, NoConfig

LEMMA CompareProgramRoute ==
  ASSUME TypeOK, Separated, RouteInv, PmtPidsCarryOnlyPmts,
         NEW s \in Sids, CompareProgram(s)
  PROVE  RouteInv'
<1> DEFINE gone == pmt[s].es \cup ({pmt[s].pcr} \ {NoPid, pmt_pid[s]})
<1>1. /\ conf' = conf /\ valid' = valid
      /\ pmt_pid' = [pmt_pid EXCEPT ![s] = pat[s]]
      /\ pmt' = [pmt EXCEPT ![s] = NoPmt]
      /\ pmt \in [Sids -> Pmts] /\ pmt_pid \in [Sids -> Pids \cup {NoPid}]
  BY DEF CompareProgram, outputVars, TypeOK
<1>2. gone = mark_pmt_pids(pmt[s])
  <2>1. pmt[s] \in PmtTables \cup {NoPmt} /\ pmt_pid[s] \in PmtPids \cup {NoPid}
    BY DEF Separated
  <2>2. mark_pmt_pids(pmt[s]) \cap PmtPids = {}
    BY <2>1, MarkedIsNotPmt
  <2>3. QED
    BY <2>1, <2>2 DEF mark_pmt_pids
<1>3. \A p \in Pids :
        subs'[p] = subs[p] \ (IF p \in gone THEN StopPID(WholeOn(s), p) ELSE {})
  BY DEF CompareProgram
<1>4. \A o \in Slots : o \in WholeOn(s) <=> conf[o].sid = s
  <2>1. \A o \in Slots : conf[o].sid = s => o \in valid
    BY NamesAssumption DEF TypeOK, NoConfig
  <2>2. QED
    BY <2>1 DEF WholeOn, OnSid, RouteInv, TypeOK
<1>5. \A o \in Slots : Marked(conf[o])' = IF conf[o].sid = s THEN {} ELSE Marked(conf[o])
  <2>1. mark_pmt_pids(NoPmt) = {}
    BY DEF mark_pmt_pids, NoPmt
  <2>2. \A o \in Slots : conf[o].sid \in Sids \cup {NoSid}
    BY DEF TypeOK, AllConfigs
  <2>3. QED
    BY <1>1, <2>1, <2>2 DEF Marked, FindSID
<1>6. ASSUME NEW o \in Slots, NEW p \in Pids
      PROVE  o \in subs'[p] <=> p \in Marked(conf[o])'
  <2>1. o \in subs[p] <=> p \in Marked(conf[o])
    BY DEF RouteInv
  <2>2. CASE conf[o].sid # s
    BY <1>3, <1>4, <1>5, <2>1, <2>2 DEF StopPID
  <2>3. CASE conf[o].sid = s
    <3>1. o \in subs[p] => p \in gone
      BY <1>2, <2>1, <2>3 DEF Marked
    <3>2. QED
      BY <1>3, <1>4, <1>5, <2>3, <3>1 DEF StopPID
  <2>4. QED
    BY <2>2, <2>3
<1>7. QED
  BY <1>1, <1>6 DEF RouteInv

LEMMA HandlePMTRoute ==
  ASSUME TypeOK, RouteInv, NEW s \in Sids, NEW t \in PmtTables, HandlePMT(s, t)
  PROVE  RouteInv'
<1> DEFINE old == mark_pmt_pids(pmt[s])
           new == mark_pmt_pids(t)
<1>1. /\ conf' = conf /\ valid' = valid /\ pmt_pid' = pmt_pid
      /\ pmt' = [pmt EXCEPT ![s] = t] /\ pmt \in [Sids -> Pmts]
      /\ FindSID(s)
  BY DEF HandlePMT, TypeOK
<1>2. \A p \in Pids :
        subs'[p] = (subs[p] \ (IF p \in old \ new THEN StopPID(WholeOn(s), p) ELSE {}))
                   \cup (IF p \in new \ old THEN StartPID(Takers(s, t, p), p) ELSE {})
  BY DEF HandlePMT
<1>3. \A o \in Slots : conf[o].sid = s <=> o \in OnSid(s)
  BY NamesAssumption DEF TypeOK, NoConfig, OnSid
<1>4. /\ WholeOn(s) = OnSid(s)
      /\ \A p \in Pids : Takers(s, t, p) = OnSid(s)
  BY DEF WholeOn, Takers, OnSid, RouteInv, TypeOK
<1>5. \A o \in Slots : Marked(conf[o])' = IF conf[o].sid = s THEN new ELSE Marked(conf[o])
  <2>1. \A o \in Slots : conf[o].sid \in Sids \cup {NoSid}
    BY DEF TypeOK, AllConfigs
  <2>2. QED
    BY <1>1, <2>1 DEF Marked, FindSID
<1>6. ASSUME NEW o \in Slots, NEW p \in Pids
      PROVE  o \in subs'[p] <=> p \in Marked(conf[o])'
  <2>1. o \in subs[p] <=> p \in Marked(conf[o])
    BY DEF RouteInv
  <2>2. CASE conf[o].sid # s
    BY <1>2, <1>3, <1>4, <1>5, <2>1, <2>2 DEF StopPID, StartPID
  <2>3. CASE conf[o].sid = s
    <3>1. o \in subs[p] <=> p \in old
      BY <1>1, <2>1, <2>3 DEF Marked
    <3> HIDE DEF old, new
    <3>2. QED
      BY <1>2, <1>3, <1>4, <1>5, <2>3, <3>1 DEF StopPID, StartPID
  <2>4. QED
    BY <2>2, <2>3
<1>7. QED
  BY <1>1, <1>6 DEF RouteInv

LEMMA RouteStep ==
  ASSUME TypeOK, Separated, RouteInv, PmtPidsCarryOnlyPmts, WholePrograms, [Next]_vars
  PROVE  RouteInv'
<1> USE DEF RouteInv, Marked, FindSID
<1>1. ASSUME NEW newPat \in PatTables, NEW newTsid \in TSIDs, HandlePAT(newPat, newTsid)
      PROVE  RouteInv'
  BY <1>1 DEF HandlePAT, outputVars, pidVars
<1>2. ASSUME NEW s \in Sids, CompareProgram(s)
      PROVE  RouteInv'
  BY <1>2, CompareProgramRoute
<1>3. ASSUME NEW s \in Sids, NEW t \in PmtTables, HandlePMT(s, t)
      PROVE  RouteInv'
  BY <1>3, HandlePMTRoute
<1>4. CASE BeginReload
  BY <1>4 DEF BeginReload, outputVars, programVars, pidVars
<1>5. ASSUME NEW a \in Addrs, NEW c \in Configs, ReadLine(a, c)
      PROVE  RouteInv'
  <2>1. PICK o \in SlotsFor(a) : demux_Change(o, c, valid \ {o})
    BY <1>5 DEF ReadLine
  <2>2. o \in Slots /\ c \in AllConfigs /\ c.pids = {} /\ UNCHANGED programVars
    BY <1>5, InputsAssumption DEF SlotsFor, TypeOK, ReadLine, WholePrograms
  <2>3. QED
    BY <2>1, <2>2, ChangeRoute
<1>6. CASE EndOfFile
  BY <1>6 DEF EndOfFile, programVars, pidVars
<1>7. ASSUME NEW o \in Slots, CloseStale(o)
      PROVE  RouteInv'
  <2>1. NoConfig \in AllConfigs /\ NoConfig.pids = {}
    BY DEF NoConfig, AllConfigs
  <2>2. QED
    BY <1>7, <2>1, ChangeRoute DEF CloseStale
<1>8. CASE UNCHANGED vars
  BY <1>8 DEF vars, outputVars, programVars, pidVars
<1>9. QED
  BY <1>1, <1>2, <1>3, <1>4, <1>5, <1>6, <1>7, <1>8 DEF Next

\* Every output has the routes the policy gives its line.
Routed == \A o \in Slots : Subscriptions(o) = Policy!Route(conf[o])

LEMMA RouteInvariant ==
  ASSUME WholePrograms, PmtPidsCarryOnlyPmts
  PROVE  Spec => [](TypeOK /\ RoutingExact /\ Routed)
<1>1. Init => TypeOK /\ Separated /\ RouteInv
  BY InitTypeOK, InitSeparated, InitRoute
<1>2. TypeOK /\ Separated /\ RouteInv /\ [Next]_vars => (TypeOK /\ Separated /\ RouteInv)'
  BY TypeStep, SeparatedStep, RouteStep
<1>3. TypeOK /\ Separated /\ RouteInv => TypeOK /\ RoutingExact /\ Routed
  <2> SUFFICES ASSUME TypeOK, Separated, RouteInv, NEW o \in Slots
               PROVE  /\ Subscriptions(o) = IF o \in valid THEN GetPIDS(conf[o]) ELSE {}
                      /\ Subscriptions(o) = Policy!Route(conf[o])
    BY DEF RoutingExact, Routed
  <2>1. conf[o] \in AllConfigs /\ conf[o].pids = {}
    BY DEF TypeOK, RouteInv
  <2>2. /\ GetPIDS(conf[o]) = Marked(conf[o])
        /\ Policy!Route(conf[o]) = Marked(conf[o])
        /\ Marked(conf[o]) \subseteq Pids
    BY <2>1, WantedIsMarked
  <2>3. Subscriptions(o) = Marked(conf[o])
    BY <2>2 DEF Subscriptions, RouteInv
  <2>4. o \notin valid => Marked(conf[o]) = {}
    BY DEF TypeOK, NoConfig, Marked, FindSID
  <2>5. QED
    BY <2>2, <2>3, <2>4
<1>4. QED
  BY <1>1, <1>2, <1>3, PTL DEF Spec

(***************************************************************************)
(* Outputs that take whole programs are subscribed to exactly what GetPIDS *)
(* computes for them, for any number of outputs, programs and PIDs, in a   *)
(* stream whose PMT PIDs carry only PMTs: the differences HandlePMT,       *)
(* DeleteProgram and demux_Change apply never lose or keep a PID.          *)
(***************************************************************************)
THEOREM RoutesAreExact ==
  ASSUME WholePrograms, PmtPidsCarryOnlyPmts
  PROVE  Spec => []RoutingExact
BY RouteInvariant, PTL

-----------------------------------------------------------------------------
(***************************************************************************)
(* The refinement.  The steps that compare a program, take a PMT or apply  *)
(* a line are steps of the policy; the others change nothing of it.        *)
(***************************************************************************)
LEMMA InitPolicy ==
  ASSUME Init
  PROVE  Policy!Init
BY DEF Init, Policy!Init, Subscriptions

LEMMA ChangePolicy ==
  ASSUME Routed', UNCHANGED programVars, conf \in [Slots -> AllConfigs],
         NEW o \in Slots, NEW c \in AllConfigs, demux_Change(o, c, valid \ {o})
  PROVE  Policy!Configure(o, c)
BY DEF Routed, demux_Change, programVars, Policy!Configure, Policy!Rerouted

LEMMA PolicyStep ==
  ASSUME TypeOK, Routed', [Next]_vars
  PROVE  [Policy!Next]_(Policy!vars)
<1>1. ASSUME NEW newPat \in PatTables, NEW newTsid \in TSIDs, HandlePAT(newPat, newTsid)
      PROVE  UNCHANGED Policy!vars
  BY <1>1 DEF HandlePAT, outputVars, pidVars, Policy!vars, Subscriptions
<1>2. ASSUME NEW s \in Sids, CompareProgram(s)
      PROVE  Policy!Announce(s, pat[s]) /\ pat[s] \in Pids \cup {NoPid}
  BY <1>2 DEF TypeOK, Routed, CompareProgram, outputVars, Policy!Announce, Policy!Rerouted
<1>3. ASSUME NEW s \in Sids, NEW t \in PmtTables, HandlePMT(s, t)
      PROVE  Policy!Describe(s, t) /\ t \in Pmts
  BY <1>3, InputsAssumption
     DEF Routed, HandlePMT, FindSID, Policy!Describe, Policy!Known, Policy!Rerouted
<1>4. CASE BeginReload
  BY <1>4 DEF BeginReload, outputVars, programVars, pidVars, Policy!vars, Subscriptions
<1>5. ASSUME NEW a \in Addrs, NEW c \in Configs, ReadLine(a, c)
      PROVE  \E o \in Slots : Policy!Configure(o, c) /\ c \in AllConfigs
  <2>1. PICK o \in SlotsFor(a) : demux_Change(o, c, valid \ {o})
    BY <1>5 DEF ReadLine
  <2>2. o \in Slots /\ c \in AllConfigs /\ UNCHANGED programVars
    BY <1>5, InputsAssumption DEF SlotsFor, TypeOK, ReadLine
  <2>3. QED
    BY <2>1, <2>2, ChangePolicy DEF TypeOK
<1>6. CASE EndOfFile
  BY <1>6 DEF EndOfFile, programVars, pidVars, Policy!vars, Subscriptions
<1>7. ASSUME NEW o \in Slots, CloseStale(o)
      PROVE  Policy!Configure(o, NoConfig) /\ NoConfig \in AllConfigs
  <2>1. NoConfig \in AllConfigs
    BY DEF NoConfig, AllConfigs
  <2>2. QED
    BY <1>7, <2>1, ChangePolicy DEF CloseStale, TypeOK
<1>8. CASE UNCHANGED vars
  BY <1>8 DEF vars, outputVars, programVars, pidVars, Policy!vars, Subscriptions
<1>9. QED
  BY <1>1, <1>2, <1>3, <1>4, <1>5, <1>6, <1>7, <1>8 DEF Next, Policy!Next

(***************************************************************************)
(* PidRouting implements RoutingPolicy for outputs that take whole         *)
(* programs: under the same conditions as RoutesAreExact every step of the *)
(* handlers routes every output as its line and the tables say, or changes *)
(* no line, no table and no route.                                         *)
(***************************************************************************)
THEOREM PolicyIsImplemented ==
  ASSUME WholePrograms, PmtPidsCarryOnlyPmts
  PROVE  Spec => ImplementsPolicy
<1>1. Init => Policy!Init
  BY InitPolicy
<1>2. TypeOK /\ Routed' /\ [Next]_vars => [Policy!Next]_(Policy!vars)
  BY PolicyStep
<1>3. Spec => [](TypeOK /\ Routed)
  BY RouteInvariant, PTL
<1>4. QED
  BY <1>1, <1>2, <1>3, PTL DEF Spec, ImplementsPolicy, Policy!Spec

=============================================================================
