--------------------------- MODULE PsiTablesProofs ---------------------------
(***************************************************************************)
(* The sections of every output follow the input and the configuration for *)
(* all programs, PIDs, tables and lines, and the version of the PAT tells  *)
(* every change.  The argument is one output at a time: Fits says that x   *)
(* agrees with the PAT p, the PMTs m and the SDT t, each function that     *)
(* makes a section makes it fit, and each handler calls the functions of   *)
(* the outputs that would not fit the new table.                           *)
(***************************************************************************)
EXTENDS PsiTables, WellFoundedInduction, TLAPS

-----------------------------------------------------------------------------
(* The invariant.                                                          *)

Fits(x, p, m, t) ==
  /\ PatFollows(x, p)
  /\ PmtFollows(x, m)
  /\ NitFollows(x)
  /\ SdtFollows(x, t)
  /\ TsidFollows(x, p)

\* The version moved since the last PAT was sent, or the PAT is the same.
Told(x) == x.rebuilds = 0 => x.last_pat \in {None, x.pat}

\* What is known of an output between two events.
Sound(x) == x \in Outputs /\ x.conf \in Configs /\ Told(x) /\ x.rebuilds <= MaxRebuilds

Inv ==
  /\ TypeOK
  /\ \A o \in Valid : Sound(output[o]) /\ Fits(output[o], pat, pmt, sdt)

LEMMA ConfigsType ==
  \A c \in Configs : c \in AllConfigs /\ (c.passthrough => c.sid = 0)
BY InputsAssumption

LEMMA NumbersType == -1 \notin TSIDs /\ 0 \notin Sids /\ 0 \notin Pids
<1>1. \A n \in TSIDs : n # -1
  <2> SUFFICES ASSUME NEW n \in TSIDs PROVE n # -1 OBVIOUS
  <2>1. n \in Nat BY NumbersAssumption
  <2> QED BY <2>1
<1>2. 0 \notin Sids BY NumbersAssumption
<1>3. 0 \notin Pids BY NumbersAssumption
<1> QED BY <1>1, <1>2, <1>3

LEMMA PatsType == \A p \in Pats : p \in Tables /\ p # NoPat
<1> SUFFICES ASSUME NEW p \in Pats PROVE p \in Tables /\ p # NoPat OBVIOUS
<1>1. p \in Tables BY InputsAssumption
<1>2. p.tsid \in TSIDs BY <1>1 DEF Tables
<1>4. p.tsid # -1 BY <1>2, NumbersType
<1> QED BY <1>1, <1>4 DEF NoPat

LEMMA InitInv == Init => Inv
BY DEF Init, Inv, TypeOK, Valid, NoPat

-----------------------------------------------------------------------------
(* The functions that make a section.                                      *)

LEMMA ProgramPatType ==
  ASSUME NEW x \in Outputs, NEW p \in Tables \cup {NoPat}, Carries(p, x.conf.sid)
  PROVE  /\ ProgramPat(x, p) \in PatSections
         /\ ProgramPat(x, p) # None
         /\ ProgramPat(x, p).sid # 0
<1>1. x.conf \in AllConfigs /\ x.i_tsid \in TSIDs BY DEF Outputs
<1>2. x.conf.sid \in Sids /\ x.conf.sid # 0 BY <1>1 DEF Carries, AllConfigs
<1>3. SidOf(x.conf) \in Sids /\ SidOf(x.conf) # 0 BY <1>1, <1>2 DEF SidOf, AllConfigs
<1>4. AnnouncedPid(x.conf, p) \in Pids \cup {0}
  <2>1. p.pmt_pid[x.conf.sid] \in Pids \cup {0} BY <1>2 DEF Tables, NoPat
  <2> QED BY <1>1, <2>1, InputsAssumption DEF AnnouncedPid, AllConfigs
<1>5. x.conf.dvb \in BOOLEAN BY <1>1 DEF AllConfigs
<1>6. ProgramPat(x, p) \in PatSections BY <1>1, <1>3, <1>4, <1>5 DEF ProgramPat, PatSections
<1>7. ProgramPat(x, p).sid # 0 BY <1>3 DEF ProgramPat
<1> QED BY <1>6, <1>7, NoneAssumption

LEMMA NewPATMakes ==
  ASSUME NEW x \in Outputs, NEW p \in Tables \cup {NoPat}
  PROVE  LET y == NewPAT(x, p)
         IN /\ y \in Outputs
            /\ y.conf = x.conf /\ y.i_tsid = x.i_tsid
            /\ y.pmt = x.pmt /\ y.nit = x.nit /\ y.sdt = x.sdt
            /\ y.rebuilds = x.rebuilds + 1 /\ y.last_pat = x.last_pat
            /\ PatFollows(y, p)
<1> DEFINE s == IF Carries(p, x.conf.sid) THEN ProgramPat(x, p) ELSE None
           n == x.rebuilds + 1
           y == NewPAT(x, p)
<1>1. s \in PatSections \cup {None} /\ n \in Nat BY ProgramPatType DEF Outputs
<1>2. y = [x EXCEPT !.pat = s, !.rebuilds = n] BY DEF NewPAT
<1> HIDE DEF s, n, y
<1>3. y \in Outputs BY <1>1, <1>2 DEF Outputs
<1>4. /\ y.conf = x.conf /\ y.i_tsid = x.i_tsid
      /\ y.pmt = x.pmt /\ y.nit = x.nit /\ y.sdt = x.sdt
      /\ y.rebuilds = n /\ y.last_pat = x.last_pat /\ y.pat = s
  BY <1>2 DEF Outputs
<1>5. PatFollows(y, p) BY <1>4 DEF PatFollows, ProgramPat, s
<1> QED BY <1>3, <1>4, <1>5 DEF y, n

LEMMA NewNITMakes ==
  ASSUME NEW x \in Outputs
  PROVE  LET y == NewNIT(x)
         IN /\ y \in Outputs
            /\ y.conf = x.conf /\ y.i_tsid = x.i_tsid
            /\ y.pat = x.pat /\ y.pmt = x.pmt /\ y.sdt = x.sdt
            /\ y.rebuilds = x.rebuilds /\ y.last_pat = x.last_pat
            /\ NitFollows(y)
BY DEF NewNIT, Outputs, NitSections, NitFollows, AllConfigs

LEMMA NewPMTMakes ==
  ASSUME NEW x \in Outputs, NEW m \in [Sids -> Texts \cup {None}]
  PROVE  LET y == NewPMT(x, m)
         IN /\ y \in Outputs
            /\ y.conf = x.conf /\ y.i_tsid = x.i_tsid
            /\ y.pat = x.pat /\ y.nit = x.nit /\ y.sdt = x.sdt
            /\ y.rebuilds = x.rebuilds /\ y.last_pat = x.last_pat
            /\ PmtFollows(y, m)
<1> DEFINE made == x.conf.sid # 0 /\ m[x.conf.sid] # None
           s == IF made THEN [sid |-> SidOf(x.conf), text |-> m[x.conf.sid]] ELSE None
           y == NewPMT(x, m)
<1>0. x.conf \in AllConfigs BY DEF Outputs
<1>1. s \in PmtSections \cup {None} BY <1>0 DEF PmtSections, SidOf, AllConfigs
<1>2. y = [x EXCEPT !.pmt = s] BY DEF NewPMT
<1> HIDE DEF s, y
<1>3. y \in Outputs BY <1>1, <1>2 DEF Outputs
<1>4. /\ y.conf = x.conf /\ y.i_tsid = x.i_tsid
      /\ y.pat = x.pat /\ y.nit = x.nit /\ y.sdt = x.sdt
      /\ y.rebuilds = x.rebuilds /\ y.last_pat = x.last_pat /\ y.pmt = s
  BY <1>2 DEF Outputs
<1>5. PmtFollows(y, m) BY <1>4 DEF PmtFollows, s
<1> QED BY <1>3, <1>4, <1>5 DEF y

\* NewSDT may drop an empty PAT, never that of a program.
LEMMA NewSDTMakes ==
  ASSUME NEW x \in Outputs, NEW t \in [Sids -> Texts \cup {None}] \cup {None}
  PROVE  LET y == NewSDT(x, t)
         IN /\ y \in Outputs
            /\ y.conf = x.conf /\ y.i_tsid = x.i_tsid
            /\ y.pmt = x.pmt /\ y.nit = x.nit /\ y.last_pat = x.last_pat
            /\ SdtFollows(y, t)
            /\ y.sdt # None => y.sdt.tsid = x.i_tsid
            /\ \/ y.pat = x.pat /\ y.rebuilds = x.rebuilds
               \/ x.pat.sid = 0 /\ y.pat = None /\ y.rebuilds = x.rebuilds + 1
<1> DEFINE told == Described(t, x.conf.sid)
           empty == DropsEmptyPat(x, t)
           s == IF told THEN [tsid |-> x.i_tsid, sid |-> SidOf(x.conf),
                              text |-> t[x.conf.sid], name |-> x.conf.name] ELSE None
           q == IF empty THEN None ELSE x.pat
           n == IF empty THEN x.rebuilds + 1 ELSE x.rebuilds
           y == NewSDT(x, t)
<1>0. x.conf \in AllConfigs /\ x.i_tsid \in TSIDs BY DEF Outputs
<1>1. s \in SdtSections \cup {None}
  <2>1. CASE told
    <3>1. x.conf.sid \in Sids /\ x.conf.sid # 0 /\ t # None /\ t[x.conf.sid] # None
      BY <1>0, <2>1 DEF Described, AllConfigs
    <3>2. t[x.conf.sid] \in Texts BY <3>1
    <3>3. SidOf(x.conf) \in Sids /\ x.conf.name \in Texts BY <1>0, <3>1 DEF SidOf, AllConfigs
    <3> QED BY <1>0, <2>1, <3>2, <3>3 DEF SdtSections
  <2> QED BY <2>1
<1>2. q \in PatSections \cup {None} /\ n \in Nat BY DEF Outputs
<1>3. y = [x EXCEPT !.sdt = s, !.pat = q, !.rebuilds = n] BY DEF NewSDT
<1>4. told => s # None
  <2> SUFFICES ASSUME told PROVE s # None OBVIOUS
  <2> DEFINE r == [tsid |-> x.i_tsid, sid |-> SidOf(x.conf),
                   text |-> t[x.conf.sid], name |-> x.conf.name]
  <2>1. x.conf.sid \in Sids /\ x.conf.sid # 0 /\ t # None /\ t[x.conf.sid] # None
    BY <1>0 DEF Described, AllConfigs
  <2>2. t[x.conf.sid] \in Texts BY <2>1
  <2>3. SidOf(x.conf) \in Sids /\ x.conf.name \in Texts BY <1>0, <2>1 DEF SidOf, AllConfigs
  <2>4. r \in SdtSections BY <1>0, <2>2, <2>3 DEF SdtSections
  <2> QED BY <2>4, NoneAssumption
<1> HIDE DEF y, s, q, n, told
<1>5. y \in Outputs BY <1>1, <1>2, <1>3 DEF Outputs
<1>6. /\ y.conf = x.conf /\ y.i_tsid = x.i_tsid
      /\ y.pmt = x.pmt /\ y.nit = x.nit /\ y.last_pat = x.last_pat
      /\ y.sdt = s /\ y.pat = q /\ y.rebuilds = n
  BY <1>3 DEF Outputs
<1>7. SdtFollows(y, t)
  <2>1. CASE told
    <3>1. s.sid = SidOf(x.conf) /\ s.text = t[x.conf.sid] /\ s.name = x.conf.name
      BY <2>1 DEF s
    <3> QED BY <1>4, <1>6, <2>1, <3>1 DEF SdtFollows, told
  <2>2. CASE ~ told BY <1>6, <2>2 DEF SdtFollows, told, s
  <2> QED BY <2>1, <2>2
<1>8. s # None => s.tsid = x.i_tsid BY DEF s
<1>9. \/ q = x.pat /\ n = x.rebuilds
      \/ x.pat.sid = 0 /\ q = None /\ n = x.rebuilds + 1
  BY DEF q, n, DropsEmptyPat
<1> QED BY <1>5, <1>6, <1>7, <1>8, <1>9 DEF y

LEMMA UpdateTSIDMakes ==
  ASSUME NEW x \in Outputs, NEW p \in Tables, NitFollows(x)
  PROVE  LET y == UpdateTSID(x, p)
         IN /\ y \in Outputs
            /\ y.conf = x.conf
            /\ y.i_tsid = IF x.conf.tsid = -1 /\ ~ RandomTsid THEN p.tsid ELSE x.i_tsid
            /\ y.pat = x.pat /\ y.pmt = x.pmt /\ y.sdt = x.sdt
            /\ y.rebuilds = x.rebuilds /\ y.last_pat = x.last_pat
            /\ NitFollows(y)
<1>1. CASE x.conf.tsid = -1 /\ ~ RandomTsid
  <2> DEFINE z == [x EXCEPT !.i_tsid = p.tsid]
  <2>1. z \in Outputs BY DEF Outputs, Tables
  <2>2. /\ z.conf = x.conf /\ z.i_tsid = p.tsid
        /\ z.pat = x.pat /\ z.pmt = x.pmt /\ z.sdt = x.sdt
        /\ z.rebuilds = x.rebuilds /\ z.last_pat = x.last_pat
    BY DEF Outputs
  <2>3. UpdateTSID(x, p) = NewNIT(z) BY <1>1 DEF UpdateTSID
  <2> HIDE DEF z
  <2> QED BY <1>1, <2>1, <2>2, <2>3, NewNITMakes
<1>2. CASE ~ (x.conf.tsid = -1 /\ ~ RandomTsid)
  BY <1>2 DEF UpdateTSID
<1> QED BY <1>1, <1>2

-----------------------------------------------------------------------------
(* A PAT.                                                                  *)

\* Only an output that streams a program has its PAT made for the program.
LEMMA ComparedFits ==
  ASSUME TypeOK, NEW p \in Pats, NEW x, Sound(x), Fits(x, pat, pmt, sdt)
  PROVE  LET y == IF Resets(p) THEN UpdateTSID(x, p) ELSE x
             z == IF x.conf.sid \in Added(p) \cup Removed(p) THEN NewPAT(y, p) ELSE y
             m == [s \in Sids |-> IF s \in Added(p) \cup Removed(p) THEN None ELSE pmt[s]]
         IN /\ z \in Outputs
            /\ z.conf = x.conf
            /\ Told(z)
            /\ z.rebuilds <= MaxRebuilds + 1
            /\ z.conf.passthrough => z.rebuilds = x.rebuilds
            /\ Fits(z, p, m, sdt)
<1> DEFINE y == IF Resets(p) THEN UpdateTSID(x, p) ELSE x
           changed == x.conf.sid \in Added(p) \cup Removed(p)
           z == IF changed THEN NewPAT(y, p) ELSE y
           m == [s \in Sids |-> IF s \in Added(p) \cup Removed(p) THEN None ELSE pmt[s]]
<1>0. /\ x \in Outputs /\ x.conf \in AllConfigs /\ x.rebuilds \in Nat
      /\ x.rebuilds <= MaxRebuilds /\ MaxRebuilds \in Nat
      /\ p \in Tables /\ p # NoPat
      /\ 0 \notin Sids
  <2>1. x \in Outputs /\ x.conf \in AllConfigs /\ x.rebuilds <= MaxRebuilds
    BY ConfigsType DEF Sound
  <2>2. x.rebuilds \in Nat BY <2>1 DEF Outputs
  <2>3. MaxRebuilds \in Nat BY SizesAssumption
  <2> QED BY <2>1, <2>2, <2>3, PatsType, NumbersType
<1>1. /\ y \in Outputs
      /\ y.conf = x.conf
      /\ y.i_tsid = IF Resets(p) /\ x.conf.tsid = -1 /\ ~ RandomTsid THEN p.tsid ELSE x.i_tsid
      /\ y.pat = x.pat /\ y.pmt = x.pmt /\ y.sdt = x.sdt
      /\ y.rebuilds = x.rebuilds /\ y.last_pat = x.last_pat
      /\ NitFollows(y)
  BY <1>0, UpdateTSIDMakes DEF Fits
<1> HIDE DEF y
<1>2. /\ z \in Outputs
      /\ z.conf = x.conf /\ z.i_tsid = y.i_tsid
      /\ z.pmt = x.pmt /\ z.nit = y.nit /\ z.sdt = x.sdt
      /\ z.last_pat = x.last_pat
      /\ changed => z.rebuilds = x.rebuilds + 1 /\ PatFollows(z, p)
      /\ ~ changed => z = y
  BY <1>0, <1>1, NewPATMakes
<1>3. changed => ~ x.conf.passthrough
  <2>1. changed => x.conf.sid # 0 BY <1>0 DEF Added, Removed
  <2> QED BY <2>1, ConfigsType DEF Sound
<1>4. Told(z) /\ z.rebuilds <= MaxRebuilds + 1 /\ (z.conf.passthrough => z.rebuilds = x.rebuilds)
  BY <1>0, <1>1, <1>2, <1>3 DEF Told, Sound
<1>5. PatFollows(z, p)
  <2>1. CASE changed BY <1>2, <2>1
  <2>2. CASE ~ changed
    <3>1. z = y BY <1>2, <2>2
    <3>2. CASE Carries(p, x.conf.sid)
      <4>1. x.conf.sid \in Sids BY <1>0, <3>2 DEF Carries, AllConfigs
      <4>2. p.pmt_pid[x.conf.sid] = pat.pmt_pid[x.conf.sid] /\ ~ Resets(p)
        BY <2>2, <3>2, <4>1 DEF Added, Carries
      <4>3. y.i_tsid = x.i_tsid BY <1>1, <4>2
      <4>4. x.pat = ProgramPat(x, pat) BY <3>2, <4>2 DEF Fits, PatFollows, Carries
      <4>5. ProgramPat(y, p) = ProgramPat(x, pat)
        BY <1>1, <4>2, <4>3 DEF ProgramPat, AnnouncedPid
      <4> QED BY <1>1, <3>1, <3>2, <4>4, <4>5 DEF PatFollows
    <3>3. CASE ~ Carries(p, x.conf.sid)
      <4>1. ~ Carries(pat, x.conf.sid)
        BY <1>0, <2>2, <3>3 DEF Removed, Carries, AllConfigs
      <4> QED BY <1>1, <3>1, <3>3, <4>1 DEF Fits, PatFollows
    <3> QED BY <3>2, <3>3
  <2> QED BY <2>1, <2>2
<1>6. PmtFollows(z, m)
  <2> SUFFICES ASSUME x.conf.sid # 0, m[x.conf.sid] # None
               PROVE  x.pmt = [sid |-> SidOf(x.conf), text |-> m[x.conf.sid]]
    BY <1>2 DEF PmtFollows
  <2>1. x.conf.sid \in Sids BY <1>0 DEF AllConfigs
  <2>2. m[x.conf.sid] = pmt[x.conf.sid] BY <2>1
  <2> QED BY <2>2 DEF Fits, PmtFollows
<1>7. NitFollows(z) BY <1>1, <1>2 DEF NitFollows
<1>8. SdtFollows(z, sdt) BY <1>2 DEF Fits, SdtFollows
<1>9. TsidFollows(z, p)
  <2>1. x.conf.tsid # -1 => z.i_tsid = x.i_tsid BY <1>1, <1>2
  <2>2. x.conf.tsid = -1 /\ ~ RandomTsid => z.i_tsid = p.tsid
    BY <1>1, <1>2 DEF Resets, Fits, TsidFollows
  <2> QED BY <1>2, <2>1, <2>2 DEF Fits, TsidFollows
<1> QED BY <1>2, <1>4, <1>5, <1>6, <1>7, <1>8, <1>9 DEF Fits, y

\* The empty PAT for outputs without one.
LEMMA WithPatFits ==
  ASSUME NEW x \in Outputs, NEW p \in Tables \cup {NoPat}, NEW m, NEW t,
         Told(x), Fits(x, p, m, t)
  PROVE  LET y == WithPat(x, p)
         IN /\ y \in Outputs
            /\ y.conf = x.conf
            /\ Told(y)
            /\ y.rebuilds <= x.rebuilds + 1
            /\ y.conf.passthrough => y.rebuilds = x.rebuilds
            /\ Fits(y, p, m, t)
            /\ p # NoPat => y.conf.passthrough \/ y.pat # None
            /\ p = NoPat => y = x
<1> DEFINE e == [tsid |-> x.i_tsid, sid |-> 0, pid |-> 0, nit |-> FALSE]
           n == x.rebuilds + 1
           y == WithPat(x, p)
<1>0. x.rebuilds \in Nat BY DEF Outputs
<1>1. CASE x.conf.passthrough \/ x.pat # None \/ p = NoPat
  <2>1. y = x BY <1>1 DEF WithPat
  <2> QED BY <1>0, <1>1, <2>1
<1>2. CASE ~ (x.conf.passthrough \/ x.pat # None \/ p = NoPat)
  <2>1. e \in PatSections BY DEF PatSections, Outputs
  <2>2. e # None BY <2>1, NoneAssumption
  <2>3. y = [x EXCEPT !.pat = e, !.rebuilds = n] BY <1>2 DEF WithPat
  <2>4. n \in Nat BY <1>0
  <2>5. e.sid = 0 OBVIOUS
  <2> HIDE DEF e, n, y
  <2>6. y \in Outputs BY <2>1, <2>3, <2>4 DEF Outputs
  <2>7. /\ y.conf = x.conf /\ y.i_tsid = x.i_tsid
        /\ y.pmt = x.pmt /\ y.nit = x.nit /\ y.sdt = x.sdt
        /\ y.rebuilds = n /\ y.last_pat = x.last_pat /\ y.pat = e
    BY <2>3 DEF Outputs
  <2>8. Told(y) BY <1>0, <2>7 DEF Told, n
  <2>9. ~ Carries(p, x.conf.sid)
    BY <1>2, ProgramPatType DEF Fits, PatFollows
  <2>10. Fits(y, p, m, t)
    <3>1. PatFollows(y, p) BY <2>5, <2>7, <2>9 DEF PatFollows
    <3>2. PmtFollows(y, m) /\ NitFollows(y) BY <2>7 DEF Fits, PmtFollows, NitFollows
    <3>3. SdtFollows(y, t) /\ TsidFollows(y, p) BY <2>7 DEF Fits, SdtFollows, TsidFollows
    <3> QED BY <3>1, <3>2, <3>3 DEF Fits
  <2> QED BY <1>0, <1>2, <2>2, <2>6, <2>7, <2>8, <2>10 DEF n, y
<1> QED BY <1>1, <1>2

\* What sending its PAT leaves of an output.
Sent(x) == IF SendsPat(x) THEN [x EXCEPT !.rebuilds = 0, !.last_pat = x.pat] ELSE x

LEMMA SentFits ==
  ASSUME NEW x \in Outputs, NEW p, NEW m, NEW t, Told(x), Fits(x, p, m, t)
  PROVE  LET y == Sent(x)
         IN /\ y \in Outputs
            /\ y.conf = x.conf
            /\ Told(y)
            /\ Fits(y, p, m, t)
            /\ y.rebuilds = IF SendsPat(x) THEN 0 ELSE x.rebuilds
<1> DEFINE y == Sent(x)
<1>1. CASE SendsPat(x)
  <2> DEFINE s == x.pat
  <2>1. s \in PatSections \cup {None} /\ 0 \in Nat BY DEF Outputs
  <2>2. y = [x EXCEPT !.rebuilds = 0, !.last_pat = s] BY <1>1 DEF Sent
  <2>3. s = x.pat OBVIOUS
  <2> HIDE DEF s, y
  <2>4. y \in Outputs BY <2>1, <2>2 DEF Outputs
  <2>5. /\ y.conf = x.conf /\ y.i_tsid = x.i_tsid
        /\ y.pmt = x.pmt /\ y.nit = x.nit /\ y.sdt = x.sdt
        /\ y.rebuilds = 0 /\ y.last_pat = s /\ y.pat = x.pat
    BY <2>2 DEF Outputs
  <2>6. Told(y) BY <2>3, <2>5 DEF Told
  <2>7. ProgramPat(y, p) = ProgramPat(x, p) BY <2>5 DEF ProgramPat
  <2>8. Fits(y, p, m, t)
    <3>1. PatFollows(y, p) BY <2>5, <2>7 DEF Fits, PatFollows
    <3>2. PmtFollows(y, m) /\ NitFollows(y) BY <2>5 DEF Fits, PmtFollows, NitFollows
    <3>3. SdtFollows(y, t) /\ TsidFollows(y, p) BY <2>5 DEF Fits, SdtFollows, TsidFollows
    <3> QED BY <3>1, <3>2, <3>3 DEF Fits
  <2> QED BY <1>1, <2>4, <2>5, <2>6, <2>8 DEF y
<1>2. CASE ~ SendsPat(x)
  BY <1>2 DEF Sent
<1> QED BY <1>1, <1>2

\* An output whose PAT was compared and is made and sent.
LEMMA EmittedFits ==
  ASSUME NEW x \in Outputs, NEW p \in Tables \cup {NoPat}, NEW m, NEW t,
         x.conf \in Configs, Told(x), Fits(x, p, m, t),
         \/ x.rebuilds <= MaxRebuilds
         \/ p # NoPat /\ ~ x.conf.passthrough /\ x.rebuilds <= MaxRebuilds + 1
  PROVE  LET y == WithPat(x, p)
         IN /\ y \in Outputs /\ Told(y) /\ y.rebuilds <= 31
            /\ Sound(Sent(y)) /\ Fits(Sent(y), p, m, t)
<1> DEFINE y == WithPat(x, p)
           z == Sent(y)
<1>0. MaxRebuilds \in Nat /\ MaxRebuilds <= 29 /\ x.rebuilds \in Nat
  BY SizesAssumption DEF Outputs
<1>1. /\ y \in Outputs /\ y.conf = x.conf /\ Told(y) /\ y.rebuilds <= x.rebuilds + 1
      /\ y.conf.passthrough => y.rebuilds = x.rebuilds
      /\ Fits(y, p, m, t)
      /\ p # NoPat => y.conf.passthrough \/ y.pat # None
      /\ p = NoPat => y = x
  BY WithPatFits
<1> HIDE DEF y
<1>2. y.rebuilds \in Nat BY <1>1 DEF Outputs
<1>3. /\ z \in Outputs /\ z.conf = y.conf /\ Told(z) /\ Fits(z, p, m, t)
      /\ z.rebuilds = IF SendsPat(y) THEN 0 ELSE y.rebuilds
  BY <1>1, SentFits
<1> HIDE DEF z
<1>4. y.rebuilds <= 31 BY <1>0, <1>1, <1>2
<1>5. ~ SendsPat(y) => y.rebuilds <= MaxRebuilds
  BY <1>0, <1>1, <1>2 DEF SendsPat
<1>6. z.rebuilds <= MaxRebuilds BY <1>0, <1>3, <1>5
<1> QED BY <1>1, <1>3, <1>4, <1>6 DEF Sound, y, z

\* What the outputs xs get is told apart by its version.
LEMMA SendPATTells ==
  ASSUME NEW xs, \A o \in Slots : xs[o] # None => xs[o] \in Outputs /\ Told(xs[o])
                                                   /\ xs[o].rebuilds <= 31
  PROVE  \A e \in SendPAT(xs) :
           e.last # None /\ e.section # e.last => e.rebuilds % 32 # 0
<1> SUFFICES ASSUME NEW o \in Slots, xs[o] # None,
                    xs[o].last_pat # None, xs[o].pat # xs[o].last_pat
             PROVE  xs[o].rebuilds % 32 # 0
  BY DEF SendPAT
<1>1. xs[o].rebuilds \in Nat BY DEF Outputs
<1>2. xs[o].rebuilds # 0 BY DEF Told
<1>3. \A n \in 1 .. 31 : n % 32 # 0 OBVIOUS
<1> QED BY <1>1, <1>2, <1>3

LEMMA HandlePATKeeps ==
  ASSUME Inv, NEW p \in Pats, HandlePAT(p)
  PROVE  Inv' /\ VersionTells'
<1>1. p \in Tables /\ p # NoPat BY PatsType
<1> DEFINE xs == WithPats(PatCompared(p), p)
           m == [s \in Sids |-> IF s \in Added(p) \cup Removed(p) THEN None ELSE pmt[s]]
<1>0. pat' = p /\ pmt' = m /\ sdt' = sdt /\ output' = PatsSent(xs) /\ air' = SendPAT(xs)
  BY DEF HandlePAT
<1>2. \A o \in Slots : output[o] = None => xs[o] = None /\ output'[o] = None
  <2> SUFFICES ASSUME NEW o \in Slots, output[o] = None
               PROVE  xs[o] = None /\ output'[o] = None
    OBVIOUS
  <2> HIDE DEF m
  <2>1. PatCompared(p)[o] = None BY DEF PatCompared
  <2>2. xs[o] = None BY <2>1 DEF WithPats
  <2> HIDE DEF xs
  <2>3. output'[o] = None BY <1>0, <2>2 DEF PatsSent
  <2> QED BY <2>2, <2>3
<1>3. \A o \in Slots : output[o] # None =>
         /\ xs[o] \in Outputs /\ Told(xs[o]) /\ xs[o].rebuilds <= 31
         /\ Sound(output'[o]) /\ Fits(output'[o], p, m, sdt)
  <2> SUFFICES ASSUME NEW o \in Slots, output[o] # None
               PROVE  /\ xs[o] \in Outputs /\ Told(xs[o]) /\ xs[o].rebuilds <= 31
                      /\ Sound(output'[o]) /\ Fits(output'[o], p, m, sdt)
    OBVIOUS
  <2> DEFINE x == output[o]
             z == PatCompared(p)[o]
  <2>1. Sound(x) /\ Fits(x, pat, pmt, sdt) BY DEF Inv, Valid
  <2>2. LET y == IF Resets(p) THEN UpdateTSID(x, p) ELSE x
        IN z = IF x.conf.sid \in Added(p) \cup Removed(p) THEN NewPAT(y, p) ELSE y
    <3>1. x \in Outputs /\ NitFollows(x) BY <2>1 DEF Sound, Fits
    <3>2. UpdateTSID(x, p).conf = x.conf BY <1>1, <3>1, UpdateTSIDMakes
    <3> QED BY <3>2 DEF PatCompared
  <2>3. /\ z \in Outputs /\ z.conf = x.conf /\ Told(z) /\ z.rebuilds <= MaxRebuilds + 1
        /\ z.conf.passthrough => z.rebuilds = x.rebuilds
        /\ Fits(z, p, m, sdt)
    BY <2>1, <2>2, ComparedFits DEF Inv
  <2>4. z # None BY <2>3, NoneAssumption
  <2>5. xs[o] = WithPat(z, p) BY <2>4 DEF WithPats
  <2>6. x.rebuilds <= MaxRebuilds /\ x.conf \in Configs BY <2>1 DEF Sound
  <2> HIDE DEF x, z
  <2>7. /\ WithPat(z, p) \in Outputs /\ Told(WithPat(z, p)) /\ WithPat(z, p).rebuilds <= 31
        /\ Sound(Sent(WithPat(z, p))) /\ Fits(Sent(WithPat(z, p)), p, m, sdt)
    BY <1>1, <2>3, <2>6, EmittedFits
  <2>8. xs[o] # None BY <2>5, <2>7, NoneAssumption
  <2>9. output'[o] = Sent(xs[o]) BY <1>0, <2>8 DEF PatsSent, Sent
  <2> QED BY <2>5, <2>7, <2>9
<1>4. VersionTells'
  <2>1. \A e \in SendPAT(xs) : e.last # None /\ e.section # e.last => e.rebuilds % 32 # 0
    BY <1>2, <1>3, SendPATTells
  <2> QED BY <1>0, <2>1 DEF VersionTells
<1>5. TypeOK'
  <2>1. output' \in [Slots -> Outputs \cup {None}]
    BY <1>0, <1>2, <1>3 DEF PatsSent, Sound
  <2>2. pmt' \in [Sids -> Texts \cup {None}] BY <1>0 DEF Inv, TypeOK
  <2>3. \A s \in Sids : p.pmt_pid[s] = 0 => m[s] = None
    <3> SUFFICES ASSUME NEW s \in Sids, p.pmt_pid[s] = 0 PROVE m[s] = None OBVIOUS
    <3>1. CASE pat.pmt_pid[s] = 0 BY <3>1 DEF Inv, TypeOK
    <3>2. CASE pat.pmt_pid[s] # 0 BY <3>2 DEF Removed
    <3> QED BY <3>1, <3>2
  <2> QED BY <1>0, <1>1, <2>1, <2>2, <2>3 DEF Inv, TypeOK
<1> QED BY <1>0, <1>2, <1>3, <1>4, <1>5 DEF Inv, Valid

LEMMA RepeatPATKeeps ==
  ASSUME Inv, RepeatPAT
  PROVE  Inv' /\ VersionTells'
<1> DEFINE xs == WithPats(output, pat)
<1>0. /\ pat' = pat /\ pmt' = pmt /\ sdt' = sdt
      /\ output' = PatsSent(xs) /\ air' = SendPAT(xs)
  BY DEF RepeatPAT
<1>1. \A o \in Slots : output[o] = None => xs[o] = None /\ output'[o] = None
  BY <1>0 DEF WithPats, PatsSent
<1>2. \A o \in Slots : output[o] # None =>
         /\ xs[o] \in Outputs /\ Told(xs[o]) /\ xs[o].rebuilds <= 31
         /\ Sound(output'[o]) /\ Fits(output'[o], pat, pmt, sdt)
  <2> SUFFICES ASSUME NEW o \in Slots, output[o] # None
               PROVE  /\ xs[o] \in Outputs /\ Told(xs[o]) /\ xs[o].rebuilds <= 31
                      /\ Sound(output'[o]) /\ Fits(output'[o], pat, pmt, sdt)
    OBVIOUS
  <2> DEFINE x == output[o]
  <2>1. /\ x \in Outputs /\ x.conf \in Configs /\ Told(x) /\ x.rebuilds <= MaxRebuilds
        /\ Fits(x, pat, pmt, sdt)
    BY DEF Inv, Valid, Sound
  <2>2. xs[o] = WithPat(x, pat) BY DEF WithPats
  <2>3. pat \in Tables \cup {NoPat} BY DEF Inv, TypeOK
  <2> HIDE DEF x
  <2>4. /\ WithPat(x, pat) \in Outputs /\ Told(WithPat(x, pat))
        /\ WithPat(x, pat).rebuilds <= 31
        /\ Sound(Sent(WithPat(x, pat))) /\ Fits(Sent(WithPat(x, pat)), pat, pmt, sdt)
    BY <2>1, <2>3, EmittedFits
  <2>5. xs[o] # None BY <2>2, <2>4, NoneAssumption
  <2>6. output'[o] = Sent(xs[o]) BY <1>0, <2>5 DEF PatsSent, Sent
  <2> QED BY <2>2, <2>4, <2>6
<1>3. VersionTells'
  <2>1. \A e \in SendPAT(xs) : e.last # None /\ e.section # e.last => e.rebuilds % 32 # 0
    BY <1>1, <1>2, SendPATTells
  <2> QED BY <1>0, <2>1 DEF VersionTells
<1>4. TypeOK'
  <2>1. output' \in [Slots -> Outputs \cup {None}]
    BY <1>0, <1>1, <1>2 DEF PatsSent, Sound
  <2>2. /\ pat \in Tables \cup {NoPat} /\ pmt \in [Sids -> Texts \cup {None}]
        /\ sdt \in [Sids -> Texts \cup {None}] \cup {None}
        /\ \A s \in Sids : pat.pmt_pid[s] = 0 => pmt[s] = None
    BY DEF Inv, TypeOK
  <2>3. pat' = pat /\ pmt' = pmt /\ sdt' = sdt BY <1>0
  <2> QED BY <2>1, <2>2, <2>3 DEF TypeOK
<1> QED BY <1>0, <1>1, <1>2, <1>3, <1>4 DEF Inv, Valid

-----------------------------------------------------------------------------
(* A PMT, an SDT and what only sends.                                      *)

LEMMA NoPatTells ==
  ASSUME \A e \in air' : e.table # "PAT"
  PROVE  VersionTells'
BY DEF VersionTells

\* A handler that leaves the outputs and the tables alone.
LEMMA SendingKeeps ==
  ASSUME Inv, RepeatSDT \/ SendTDT \/ HandleNITSection \/ \E s \in Sids : RepeatPMT(s)
  PROVE  Inv' /\ VersionTells'
<1>1. UNCHANGED <<output, pat, pmt, sdt>>
  BY DEF RepeatSDT, SendTDT, HandleNITSection, RepeatPMT
<1>2. \A e \in air' : e.table # "PAT"
  BY DEF RepeatSDT, SendTDT, HandleNITSection, RepeatPMT, SendSDT, SendNIT, SendPMT
<1> QED BY <1>1, <1>2, NoPatTells DEF Inv, TypeOK, Valid

\* The parts of Fits that a change elsewhere in the output leaves alone.
LEMMA PartsKept ==
  ASSUME NEW x, NEW y, NEW p, NEW m, NEW t, y.conf = x.conf, y.i_tsid = x.i_tsid
  PROVE  /\ y.pat = x.pat /\ PatFollows(x, p) => PatFollows(y, p)
         /\ y.pmt = x.pmt /\ PmtFollows(x, m) => PmtFollows(y, m)
         /\ y.nit = x.nit /\ NitFollows(x) => NitFollows(y)
         /\ y.sdt = x.sdt /\ SdtFollows(x, t) => SdtFollows(y, t)
         /\ y.sdt = x.sdt /\ TsidFollows(x, p) => TsidFollows(y, p)
<1>1. ProgramPat(y, p) = ProgramPat(x, p) BY DEF ProgramPat
<1> QED BY <1>1 DEF PatFollows, PmtFollows, NitFollows, SdtFollows, TsidFollows

LEMMA HandlePMTKeeps ==
  ASSUME Inv, NEW s \in Sids, NEW text \in Texts, HandlePMT(s, text)
  PROVE  Inv' /\ VersionTells'
<1> DEFINE m == [pmt EXCEPT ![s] = text]
<1>0. /\ pat' = pat /\ sdt' = sdt /\ pmt' = m /\ output' = PmtsUpdated(s, m)
      /\ air' = SendPMT(output', pat, s) /\ pat.pmt_pid[s] # 0
  BY DEF HandlePMT
<1>1. m \in [Sids -> Texts \cup {None}] BY DEF Inv, TypeOK
<1>2. \A o \in Slots : output[o] = None => output'[o] = None BY <1>0 DEF PmtsUpdated
<1>3. \A o \in Slots : output[o] # None => Sound(output'[o]) /\ Fits(output'[o], pat, m, sdt)
  <2> SUFFICES ASSUME NEW o \in Slots, output[o] # None
               PROVE  Sound(output'[o]) /\ Fits(output'[o], pat, m, sdt)
    OBVIOUS
  <2> DEFINE x == output[o]
  <2>1. Sound(x) /\ Fits(x, pat, pmt, sdt) BY DEF Inv, Valid
  <2>2. x \in Outputs /\ x.conf \in Configs /\ x.conf \in AllConfigs
    BY <2>1, ConfigsType DEF Sound
  <2>3. CASE x.conf.sid = s
    <3>1. output'[o] = NewPMT(x, m) BY <1>0, <2>3 DEF PmtsUpdated
    <3> HIDE DEF x, m
    <3> DEFINE y == NewPMT(x, m)
    <3>2. /\ y \in Outputs /\ y.conf = x.conf /\ y.i_tsid = x.i_tsid
          /\ y.pat = x.pat /\ y.nit = x.nit /\ y.sdt = x.sdt
          /\ y.rebuilds = x.rebuilds /\ y.last_pat = x.last_pat
          /\ PmtFollows(y, m)
      BY <1>1, <2>2, NewPMTMakes
    <3> HIDE DEF y
    <3>3. Sound(y) BY <2>1, <3>2 DEF Sound, Told
    <3>4. Fits(y, pat, m, sdt) BY <2>1, <3>2, PartsKept DEF Fits
    <3> QED BY <3>1, <3>3, <3>4 DEF y
  <2>4. CASE x.conf.sid # s
    <3>1. output'[o] = x BY <1>0, <2>4 DEF PmtsUpdated
    <3>2. PmtFollows(x, m)
      BY <2>1, <2>2, <2>4 DEF Fits, PmtFollows, AllConfigs, Inv, TypeOK
    <3> QED BY <2>1, <3>1, <3>2 DEF Fits
  <2> QED BY <2>3, <2>4
<1>4. TypeOK'
  <2>1. output' \in [Slots -> Outputs \cup {None}]
    BY <1>0, <1>2, <1>3 DEF PmtsUpdated, Sound
  <2>2. \A q \in Sids : pat.pmt_pid[q] = 0 => m[q] = None
    BY <1>0 DEF Inv, TypeOK
  <2> QED BY <1>0, <1>1, <2>1, <2>2 DEF Inv, TypeOK
<1>5. VersionTells'
  <2>1. \A e \in air' : e.table # "PAT" BY <1>0 DEF SendPMT
  <2> QED BY <2>1, NoPatTells
<1> QED BY <1>0, <1>2, <1>3, <1>4, <1>5 DEF Inv, Valid

\* A PAT that follows is not the one NewSDT drops.
LEMMA NewSDTKeepsPat ==
  ASSUME NEW x \in Outputs, NEW p \in Tables \cup {NoPat},
         NEW t \in [Sids -> Texts \cup {None}] \cup {None}, PatFollows(x, p)
  PROVE  PatFollows(NewSDT(x, t), p)
<1> DEFINE y == NewSDT(x, t)
<1>1. /\ y.conf = x.conf /\ y.i_tsid = x.i_tsid
      /\ \/ y.pat = x.pat
         \/ x.pat.sid = 0 /\ y.pat = None
  BY NewSDTMakes
<1> HIDE DEF y
<1>2. CASE y.pat = x.pat BY <1>1, <1>2, PartsKept DEF y
<1>3. CASE x.pat.sid = 0 /\ y.pat = None
  <2>1. ~ Carries(p, x.conf.sid) BY <1>3, ProgramPatType DEF PatFollows
  <2> QED BY <1>1, <1>3, <2>1 DEF PatFollows, y
<1> QED BY <1>1, <1>2, <1>3

LEMMA NewSDTTold ==
  ASSUME NEW x \in Outputs, NEW t \in [Sids -> Texts \cup {None}] \cup {None}, Told(x)
  PROVE  Told(NewSDT(x, t))
<1>1. x.rebuilds \in Nat BY DEF Outputs
<1> QED BY <1>1, NewSDTMakes DEF Told

LEMMA HandleSDTKeeps ==
  ASSUME Inv, NEW t \in Sdts, HandleSDT(t)
  PROVE  Inv' /\ VersionTells'
<1>0. /\ pat' = pat /\ pmt' = pmt /\ sdt' = t /\ output' = SdtsUpdated(t)
      /\ \A o \in Slots : output[o] # None => output'[o].rebuilds <= MaxRebuilds
      /\ air' = SendSDT(output')
  BY DEF HandleSDT, Valid
<1>1. t \in [Sids -> Texts \cup {None}] BY InputsAssumption
<1>2. \A o \in Slots : output[o] = None => output'[o] = None BY <1>0 DEF SdtsUpdated
<1>3. \A o \in Slots : output[o] # None => Sound(output'[o]) /\ Fits(output'[o], pat, pmt, t)
  <2> SUFFICES ASSUME NEW o \in Slots, output[o] # None
               PROVE  Sound(output'[o]) /\ Fits(output'[o], pat, pmt, t)
    OBVIOUS
  <2> DEFINE x == output[o]
  <2>1. Sound(x) /\ Fits(x, pat, pmt, sdt) BY DEF Inv, Valid
  <2>2. x \in Outputs /\ x.conf \in Configs /\ x.conf \in AllConfigs
    BY <2>1, ConfigsType DEF Sound
  <2>3. pat \in Tables \cup {NoPat} BY DEF Inv, TypeOK
  <2>4. CASE x.conf.sid \in InSdt(t) \cup InSdt(sdt)
    <3>1. output'[o] = NewSDT(x, t) BY <1>0, <2>4 DEF SdtsUpdated
    <3> HIDE DEF x
    <3> DEFINE y == NewSDT(x, t)
    <3>2. /\ y \in Outputs /\ y.conf = x.conf /\ y.i_tsid = x.i_tsid
          /\ y.pmt = x.pmt /\ y.nit = x.nit
          /\ SdtFollows(y, t)
          /\ y.sdt # None => y.sdt.tsid = x.i_tsid
      BY <1>1, <2>2, NewSDTMakes
    <3>3. PatFollows(y, pat) BY <1>1, <2>1, <2>2, <2>3, NewSDTKeepsPat DEF Fits
    <3>4. Told(y) BY <1>1, <2>1, <2>2, NewSDTTold DEF Sound
    <3> HIDE DEF y
    <3>5. y.rebuilds <= MaxRebuilds BY <1>0, <3>1 DEF y
    <3>6. Sound(y) BY <2>2, <3>2, <3>4, <3>5 DEF Sound
    <3>7. PmtFollows(y, pmt) /\ NitFollows(y) BY <2>1, <3>2, PartsKept DEF Fits
    <3>8. TsidFollows(y, pat) BY <2>1, <3>2 DEF Fits, TsidFollows
    <3> QED BY <3>1, <3>2, <3>3, <3>6, <3>7, <3>8 DEF Fits, y
  <2>5. CASE x.conf.sid \notin InSdt(t) \cup InSdt(sdt)
    <3>1. output'[o] = x BY <1>0, <2>5 DEF SdtsUpdated
    <3>2. ~ Described(t, x.conf.sid) /\ ~ Described(sdt, x.conf.sid)
      BY <2>2, <2>5 DEF InSdt, Described, AllConfigs
    <3>3. SdtFollows(x, t) BY <2>1, <3>2 DEF Fits, SdtFollows
    <3> QED BY <2>1, <3>1, <3>3 DEF Fits
  <2> QED BY <2>4, <2>5
<1>4. TypeOK'
  <2>1. output' \in [Slots -> Outputs \cup {None}]
    BY <1>0, <1>2, <1>3 DEF SdtsUpdated, Sound
  <2> QED BY <1>0, <1>1, <2>1 DEF Inv, TypeOK
<1>5. VersionTells'
  <2>1. \A e \in air' : e.table # "PAT" BY <1>0 DEF SendSDT
  <2> QED BY <2>1, NoPatTells
<1> QED BY <1>0, <1>2, <1>3, <1>4, <1>5 DEF Inv, Valid

-----------------------------------------------------------------------------
(* A line of the configuration.                                            *)

\* The transport stream id of an output agrees with its line and the PAT.
TsidAgrees(x, p) ==
  /\ x.conf.tsid # -1 => x.i_tsid = x.conf.tsid
  /\ x.conf.tsid = -1 /\ ~ RandomTsid /\ p # NoPat => x.i_tsid = p.tsid

\* x has the new line, and of its sections those the old line leaves good.
LEMMA RebuiltFits ==
  ASSUME TypeOK, NEW x \in Outputs, NEW old, Told(x), TsidAgrees(x, pat),
         LET c == x.conf
             program == c.sid = old.sid /\ c.new_sid = old.new_sid
             place == program /\ c.pmt_pid = old.pmt_pid /\ c.tsid = old.tsid
         IN /\ program => PmtFollows(x, pmt)
            /\ place /\ c.dvb = old.dvb => PatFollows(x, pat)
            /\ place /\ c.name = old.name => NitFollows(x) /\ SdtFollows(x, sdt)
            /\ place /\ c.tsid # -1 /\ x.sdt # None => x.sdt.tsid = x.i_tsid
  PROVE  LET y == Rebuilt(x, old)
         IN y \in Outputs /\ y.conf = x.conf /\ Told(y) /\ Fits(y, pat, pmt, sdt)
<1> DEFINE c == x.conf
           program == c.sid = old.sid /\ c.new_sid = old.new_sid
           place == program /\ c.pmt_pid = old.pmt_pid /\ c.tsid = old.tsid
<1>0. /\ pat \in Tables \cup {NoPat} /\ pmt \in [Sids -> Texts \cup {None}]
      /\ sdt \in [Sids -> Texts \cup {None}] \cup {None}
  BY DEF TypeOK
<1>1. CASE ~ place
  <2> DEFINE a == NewSDT(x, sdt)
             b == NewNIT(a)
             d == NewPAT(b, pat)
             e == NewPMT(d, pmt)
  <2>1. /\ a \in Outputs /\ a.conf = c /\ a.i_tsid = x.i_tsid /\ a.pmt = x.pmt
        /\ SdtFollows(a, sdt) /\ (a.sdt # None => a.sdt.tsid = x.i_tsid)
    BY <1>0, NewSDTMakes
  <2> HIDE DEF a
  <2>2. /\ b \in Outputs /\ b.conf = c /\ b.i_tsid = x.i_tsid /\ b.pmt = x.pmt
        /\ b.sdt = a.sdt /\ NitFollows(b)
    BY <2>1, NewNITMakes
  <2> HIDE DEF b
  <2>3. /\ d \in Outputs /\ d.conf = c /\ d.i_tsid = x.i_tsid /\ d.pmt = x.pmt
        /\ d.sdt = a.sdt /\ d.nit = b.nit /\ PatFollows(d, pat)
        /\ d.rebuilds = b.rebuilds + 1
    BY <1>0, <2>2, NewPATMakes
  <2> HIDE DEF d
  <2>4. /\ e \in Outputs /\ e.conf = c /\ e.i_tsid = x.i_tsid /\ e.pat = d.pat
        /\ e.sdt = a.sdt /\ e.nit = b.nit /\ PmtFollows(e, pmt)
        /\ e.rebuilds = d.rebuilds
    BY <1>0, <2>3, NewPMTMakes
  <2> HIDE DEF e
  <2>5. b.rebuilds \in Nat BY <2>2 DEF Outputs
  <2>6. SdtFollows(d, sdt) /\ NitFollows(d) /\ TsidFollows(d, pat) /\ Told(d)
    <3>1. SdtFollows(d, sdt) BY <2>1, <2>3, PartsKept
    <3>2. NitFollows(d) BY <2>2, <2>3, PartsKept
    <3>3. TsidFollows(d, pat) BY <2>1, <2>3 DEF TsidFollows, TsidAgrees
    <3>4. Told(d) BY <2>3, <2>5 DEF Told
    <3> QED BY <3>1, <3>2, <3>3, <3>4
  <2>7. CASE ~ program \/ c.pmt_pid # old.pmt_pid
    <3>1. Rebuilt(x, old) = e BY <2>7 DEF Rebuilt, a, b, d, e
    <3>2. PatFollows(e, pat) /\ SdtFollows(e, sdt) /\ NitFollows(e) /\ TsidFollows(e, pat)
      BY <2>3, <2>4, <2>6, PartsKept
    <3>3. Told(e) BY <2>3, <2>4, <2>5 DEF Told
    <3> QED BY <2>4, <3>1, <3>2, <3>3 DEF Fits
  <2>8. CASE program /\ c.pmt_pid = old.pmt_pid
    <3>1. Rebuilt(x, old) = d BY <1>1, <2>8 DEF Rebuilt, a, b, d
    <3>2. PmtFollows(d, pmt) BY <2>3, <2>8, PartsKept
    <3> QED BY <2>3, <2>6, <3>1, <3>2 DEF Fits
  <2> QED BY <2>7, <2>8
<1>2. CASE place
  <2> DEFINE y == IF c.dvb # old.dvb THEN NewPAT(NewNIT(x), pat)
                  ELSE IF c.name # old.name THEN NewNIT(x) ELSE x
             z == NewSDT(y, sdt)
  <2>0. Rebuilt(x, old) = IF c.name # old.name THEN z ELSE y BY <1>2 DEF Rebuilt
  <2>1. /\ y \in Outputs /\ y.conf = c /\ y.i_tsid = x.i_tsid /\ y.pmt = x.pmt
        /\ y.sdt = x.sdt /\ PatFollows(y, pat) /\ NitFollows(y) /\ Told(y)
    <3> DEFINE n == NewNIT(x)
    <3>1. /\ n \in Outputs /\ n.conf = c /\ n.i_tsid = x.i_tsid /\ n.pmt = x.pmt
          /\ n.sdt = x.sdt /\ n.pat = x.pat /\ n.rebuilds = x.rebuilds
          /\ n.last_pat = x.last_pat /\ NitFollows(n)
      BY NewNITMakes
    <3>2. n.rebuilds \in Nat BY <3>1 DEF Outputs
    <3> HIDE DEF n
    <3>3. CASE c.dvb # old.dvb
      <4> DEFINE q == NewPAT(n, pat)
      <4>1. /\ q \in Outputs /\ q.conf = c /\ q.i_tsid = x.i_tsid /\ q.pmt = x.pmt
            /\ q.sdt = x.sdt /\ q.nit = n.nit /\ q.rebuilds = n.rebuilds + 1
            /\ PatFollows(q, pat)
        BY <1>0, <3>1, NewPATMakes
      <4>2. y = q BY <3>3 DEF n
      <4> HIDE DEF q, y
      <4>3. NitFollows(q) BY <3>1, <4>1, PartsKept
      <4>4. Told(q) BY <3>2, <4>1 DEF Told
      <4> QED BY <4>1, <4>2, <4>3, <4>4
    <3>4. CASE c.dvb = old.dvb /\ c.name # old.name
      <4>1. y = n BY <3>4 DEF n
      <4> HIDE DEF y
      <4>2. PatFollows(n, pat) BY <1>2, <3>1, <3>4, PartsKept
      <4> QED BY <3>1, <4>1, <4>2 DEF Told
    <3>5. CASE c.dvb = old.dvb /\ c.name = old.name
      BY <1>2, <3>5
    <3> QED BY <3>3, <3>4, <3>5
  <2> HIDE DEF y
  <2>2. PmtFollows(y, pmt) BY <1>2, <2>1, PartsKept
  <2>3. CASE c.name = old.name
    <3>1. SdtFollows(y, sdt) BY <1>2, <2>1, <2>3, PartsKept
    <3>2. TsidFollows(y, pat) BY <1>2, <2>1 DEF TsidFollows, TsidAgrees
    <3> QED BY <2>0, <2>1, <2>2, <2>3, <3>1, <3>2 DEF Fits
  <2>4. CASE c.name # old.name
    <3>1. /\ z \in Outputs /\ z.conf = c /\ z.i_tsid = x.i_tsid
          /\ z.pmt = y.pmt /\ z.nit = y.nit
          /\ SdtFollows(z, sdt) /\ (z.sdt # None => z.sdt.tsid = x.i_tsid)
      BY <1>0, <2>1, NewSDTMakes
    <3>2. PatFollows(z, pat) BY <1>0, <2>1, NewSDTKeepsPat
    <3>3. Told(z) BY <1>0, <2>1, NewSDTTold
    <3> HIDE DEF z
    <3>4. PmtFollows(z, pmt) /\ NitFollows(z) BY <2>1, <2>2, <3>1, PartsKept
    <3>5. TsidFollows(z, pat) BY <3>1 DEF TsidFollows, TsidAgrees
    <3> QED BY <2>0, <2>4, <3>1, <3>2, <3>3, <3>4, <3>5 DEF Fits
  <2> QED BY <2>3, <2>4
<1> QED BY <1>1, <1>2

LEMMA ChoicesAgree ==
  ASSUME TypeOK, NEW c \in Configs, NEW t \in TsidChoices(c.tsid)
  PROVE  /\ t \in TSIDs
         /\ c.tsid # -1 => t = c.tsid
         /\ c.tsid = -1 /\ ~ RandomTsid /\ pat # NoPat => t = pat.tsid
<1>1. c.tsid \in TSIDs \cup {-1} BY ConfigsType DEF AllConfigs
<1>2. CASE c.tsid # -1 BY <1>1, <1>2 DEF TsidChoices
<1>3. CASE c.tsid = -1 /\ pat # NoPat /\ ~ RandomTsid
  <2>1. pat.tsid \in TSIDs BY <1>3 DEF TypeOK, Tables
  <2> QED BY <1>3, <2>1 DEF TsidChoices
<1>4. CASE c.tsid = -1 /\ ~ (pat # NoPat /\ ~ RandomTsid)
  BY <1>4 DEF TsidChoices
<1> QED BY <1>2, <1>3, <1>4

\* One output changed and agrees with the tables.
LEMMA ChangedKeeps ==
  ASSUME Inv, NEW o \in Slots, NEW y, Sound(y), Fits(y, pat, pmt, sdt),
         output' = [output EXCEPT ![o] = y], air' = {}, UNCHANGED <<pat, pmt, sdt>>
  PROVE  Inv' /\ VersionTells'
<1>1. y \in Outputs BY DEF Sound
<1>2. TypeOK' BY <1>1 DEF Inv, TypeOK
<1>3. \A q \in Slots : output'[q] = IF q = o THEN y ELSE output[q]
  BY DEF Inv, TypeOK
<1>4. VersionTells' BY DEF VersionTells
<1>5. \A q \in Slots : output'[q] # None =>
         Sound(output'[q]) /\ Fits(output'[q], pat, pmt, sdt)
  BY <1>3 DEF Inv, Valid
<1> QED BY <1>2, <1>4, <1>5 DEF Inv, Valid

LEMMA ChangeKeeps ==
  ASSUME Inv, NEW o \in Slots, NEW c \in Configs, Change(o, c)
  PROVE  Inv' /\ VersionTells'
<1> DEFINE x == output[o]
           old == x.conf
<1>0. Sound(x) /\ Fits(x, pat, pmt, sdt) BY DEF Change, Inv, Valid
<1>1. PICK t \in IF c.tsid # x.conf.tsid THEN TsidChoices(c.tsid) ELSE {x.i_tsid} :
        output' = [output EXCEPT ![o] = Rebuilt([x EXCEPT !.conf = c, !.i_tsid = t], x.conf)]
  BY DEF Change, demux_Change
<1>2. output'[o].rebuilds <= MaxRebuilds /\ air' = {} /\ UNCHANGED <<pat, pmt, sdt>>
  BY DEF Change, demux_Change
<1> DEFINE n == [x EXCEPT !.conf = c, !.i_tsid = t]
           y == Rebuilt(n, old)
<1>3. x \in Outputs /\ Told(x) BY <1>0 DEF Sound
<1>4. t \in TSIDs
  <2>1. CASE c.tsid # x.conf.tsid BY <1>1, <2>1, ChoicesAgree DEF Inv
  <2>2. CASE c.tsid = x.conf.tsid BY <1>1, <1>3, <2>2 DEF Outputs
  <2> QED BY <2>1, <2>2
<1>5. /\ n \in Outputs /\ n.conf = c /\ n.i_tsid = t
      /\ n.pat = x.pat /\ n.pmt = x.pmt /\ n.nit = x.nit /\ n.sdt = x.sdt
      /\ n.rebuilds = x.rebuilds /\ n.last_pat = x.last_pat
  <2> HIDE DEF x
  <2>1. c \in AllConfigs BY ConfigsType
  <2> QED BY <1>3, <1>4, <2>1 DEF Outputs
<1>6. output'[o] = y BY <1>1 DEF Inv, TypeOK
<1>7. output' = [output EXCEPT ![o] = y] BY <1>1
<1> HIDE DEF x, n, y
<1>8. Told(n) BY <1>3, <1>5 DEF Told
<1>9. TsidAgrees(n, pat)
  <2>1. CASE c.tsid # old.tsid BY <1>1, <1>5, <2>1, ChoicesAgree DEF TsidAgrees, Inv
  <2>2. CASE c.tsid = old.tsid
    BY <1>0, <1>1, <1>5, <2>2 DEF TsidAgrees, Fits, TsidFollows
  <2> QED BY <2>1, <2>2
<1>10. c.tsid = old.tsid => n.i_tsid = x.i_tsid BY <1>1, <1>5
<1>11. c.sid = old.sid /\ c.new_sid = old.new_sid => PmtFollows(n, pmt)
  BY <1>0, <1>5 DEF Fits, PmtFollows, SidOf
<1>12. c.sid = old.sid /\ c.new_sid = old.new_sid /\ c.pmt_pid = old.pmt_pid
         /\ c.tsid = old.tsid /\ c.dvb = old.dvb => PatFollows(n, pat)
  BY <1>0, <1>5, <1>10 DEF Fits, PatFollows, ProgramPat, SidOf, AnnouncedPid
<1>13. c.sid = old.sid /\ c.new_sid = old.new_sid /\ c.tsid = old.tsid /\ c.name = old.name
         => NitFollows(n) /\ SdtFollows(n, sdt)
  BY <1>0, <1>5, <1>10 DEF Fits, NitFollows, SdtFollows, SidOf
<1>14. c.tsid = old.tsid /\ c.tsid # -1 /\ n.sdt # None => n.sdt.tsid = n.i_tsid
  BY <1>0, <1>5, <1>10 DEF Fits, TsidFollows
<1>15. y \in Outputs /\ y.conf = c /\ Told(y) /\ Fits(y, pat, pmt, sdt)
  <2>1. TypeOK BY DEF Inv
  <2> HIDE DEF old
  <2> QED BY <1>5, <1>8, <1>9, <1>11, <1>12, <1>13, <1>14, <2>1, RebuiltFits DEF y
<1>16. Sound(y) BY <1>2, <1>6, <1>15 DEF Sound
<1> QED BY <1>2, <1>7, <1>15, <1>16, ChangedKeeps

LEMMA CreateKeeps ==
  ASSUME Inv, NEW o \in Slots, NEW c \in Configs, Create(o, c)
  PROVE  Inv' /\ VersionTells'
<1>0. PICK t0 : demux_Change(o, NewOutput(c, t0), c) BY DEF Create
<1> DEFINE x == NewOutput(c, t0)
           old == x.conf
<1>1. c \in AllConfigs /\ c.tsid \in TSIDs \cup {-1} BY ConfigsType DEF AllConfigs
<1>2. /\ old.sid = 0 /\ old.tsid = 0 /\ x.rebuilds = 0 /\ x.last_pat = None
      /\ old = [sid |-> 0, new_sid |-> 0, tsid |-> 0, dvb |-> FALSE,
                pmt_pid |-> 0, name |-> c.name, passthrough |-> FALSE]
  BY DEF NewOutput
<1>3. 0 \notin TSIDs BY NumbersAssumption
<1>4. c.tsid # old.tsid BY <1>1, <1>2, <1>3
<1>5. PICK t \in TsidChoices(c.tsid) :
        output' = [output EXCEPT ![o] = Rebuilt([x EXCEPT !.conf = c, !.i_tsid = t], old)]
  BY <1>0, <1>4 DEF demux_Change
<1>6. output'[o].rebuilds <= MaxRebuilds /\ air' = {} /\ UNCHANGED <<pat, pmt, sdt>>
  BY <1>0 DEF demux_Change
<1> DEFINE n == [x EXCEPT !.conf = c, !.i_tsid = t]
           y == Rebuilt(n, old)
<1>7. /\ t \in TSIDs
      /\ c.tsid # -1 => t = c.tsid
      /\ c.tsid = -1 /\ ~ RandomTsid /\ pat # NoPat => t = pat.tsid
  BY ChoicesAgree DEF Inv
<1>8. x \in [conf : {old}, i_tsid : {t0}, pat : {None}, pmt : {None}, nit : {None},
            sdt : {None}, rebuilds : {0}, last_pat : {None}]
  BY DEF NewOutput
<1>9. output'[o] = y BY <1>5 DEF Inv, TypeOK
<1>10. output' = [output EXCEPT ![o] = y] BY <1>5
<1> HIDE DEF x, n, y, old
<1>11. /\ n \in Outputs /\ n.conf = c /\ n.i_tsid = t /\ n.last_pat = None
  <2>1. n = [x EXCEPT !.conf = c, !.i_tsid = t] BY DEF n
  <2>2. n \in [conf : {c}, i_tsid : {t}, pat : {None}, pmt : {None}, nit : {None},
              sdt : {None}, rebuilds : {0}, last_pat : {None}]
    BY <1>8, <2>1
  <2>3. n.conf = c /\ n.i_tsid = t /\ n.last_pat = None BY <2>2
  <2>4. n \in Outputs BY <1>1, <1>7, <2>2 DEF Outputs
  <2> QED BY <2>3, <2>4
<1>12. Told(n) BY <1>11 DEF Told
<1>13. TsidAgrees(n, pat) BY <1>7, <1>11 DEF TsidAgrees
<1>14. c.sid = old.sid => PmtFollows(n, pmt) BY <1>2, <1>11 DEF PmtFollows
<1>15. y \in Outputs /\ y.conf = c /\ Told(y) /\ Fits(y, pat, pmt, sdt)
  <2>1. TypeOK BY DEF Inv
  <2> QED BY <1>4, <1>11, <1>12, <1>13, <1>14, <2>1, RebuiltFits DEF y
<1>16. Sound(y) BY <1>6, <1>9, <1>15 DEF Sound
<1> QED BY <1>6, <1>10, <1>15, <1>16, ChangedKeeps

LEMMA CloseKeeps ==
  ASSUME Inv, NEW o \in Slots, Close(o)
  PROVE  Inv' /\ VersionTells'
<1>1. \A q \in Slots : output'[q] = IF q = o THEN None ELSE output[q]
  BY DEF Close, Inv, TypeOK
<1>2. TypeOK' BY DEF Close, Inv, TypeOK
<1>3. VersionTells' BY DEF Close, VersionTells
<1>4. UNCHANGED <<pat, pmt, sdt>> BY DEF Close
<1>5. \A q \in Slots : output'[q] # None =>
         Sound(output'[q]) /\ Fits(output'[q], pat, pmt, sdt)
  BY <1>1 DEF Inv, Valid
<1> QED BY <1>2, <1>3, <1>4, <1>5 DEF Inv, Valid

-----------------------------------------------------------------------------
(* The theorems.                                                           *)

LEMMA NextKeeps == Inv /\ VersionTells /\ [Next]_vars => Inv' /\ VersionTells'
<1> SUFFICES ASSUME Inv, VersionTells, [Next]_vars PROVE Inv' /\ VersionTells' OBVIOUS
<1>1. CASE \E p \in Pats : HandlePAT(p) BY <1>1, HandlePATKeeps
<1>2. CASE RepeatPAT BY <1>2, RepeatPATKeeps
<1>3. CASE \E s \in Sids, text \in Texts : HandlePMT(s, text) BY <1>3, HandlePMTKeeps
<1>4. CASE \E s \in Sids : RepeatPMT(s) BY <1>4, SendingKeeps
<1>5. CASE HandleNITSection \/ RepeatSDT \/ SendTDT BY <1>5, SendingKeeps
<1>6. CASE \E t \in Sdts : HandleSDT(t) BY <1>6, HandleSDTKeeps
<1>7. CASE \E o \in Slots, c \in Configs : Create(o, c) BY <1>7, CreateKeeps
<1>8. CASE \E o \in Slots, c \in Configs : Change(o, c) BY <1>8, ChangeKeeps
<1>9. CASE \E o \in Slots : Close(o) BY <1>9, CloseKeeps
<1>10. CASE UNCHANGED vars BY <1>10 DEF vars, Inv, TypeOK, Valid, VersionTells
<1> QED BY <1>1, <1>2, <1>3, <1>4, <1>5, <1>6, <1>7, <1>8, <1>9, <1>10 DEF Next

LEMMA InvHolds == Spec => [](Inv /\ VersionTells)
<1>1. Init => VersionTells BY DEF Init, VersionTells
<1> QED BY <1>1, InitInv, NextKeeps, PTL DEF Spec

\* Every section and table keeps its type, for any programs, tables and lines.
THEOREM TypeCorrect == Spec => []TypeOK
<1>1. Inv => TypeOK BY DEF Inv
<1> QED BY <1>1, InvHolds, PTL

\* In whatever order tables, transport stream ids and lines change, HandlePAT,
\* HandlePMT, HandleSDT, UpdateTSID and demux_Change leave every output with the
\* PAT, PMT, NIT and SDT that its line and the current tables ask for.
THEOREM SectionsFollow == Spec => []SectionsFollowInput
<1>1. Inv => SectionsFollowInput BY DEF Inv, Fits, SectionsFollowInput
<1> QED BY <1>1, InvHolds, PTL

\* A PAT that differs from the last one that was sent has another version, for
\* any number of rebuilds below 30 between two that are sent.
THEOREM VersionsTell == Spec => []VersionTells
BY InvHolds, PTL

-----------------------------------------------------------------------------
(* Where the PMT goes.                                                     *)

LEMMA MaxIsLast ==
  ASSUME NEW S \in SUBSET Slots, S # {}
  PROVE  Max(S) \in S /\ \A q \in S : q <= Max(S)
<1> DEFINE below == {MaxOutputs - q : q \in S}
<1>0. MaxOutputs \in Nat BY SizesAssumption
<1>1. below \in SUBSET Nat
  <2> SUFFICES ASSUME NEW q \in S PROVE MaxOutputs - q \in Nat OBVIOUS
  <2>1. q \in 1 .. MaxOutputs BY DEF Slots
  <2> QED BY <1>0, <2>1
<1>2. PICK n \in below : \A m \in below : n <= m
  <2> DEFINE less == OpToRel(<, Nat)
  <2>1. below # {} OBVIOUS
  <2> HIDE DEF below
  <2>2. IsWellFoundedOn(less, Nat) BY NatLessThanWellFounded
  <2>3. \A m, n \in Nat : m < n => <<m, n>> \in less BY DEF OpToRel
  <2> HIDE DEF less
  <2>4. PICK n \in below : \A m \in below : ~ (<<m, n>> \in less)
    <3>1. below \subseteq Nat BY <1>1
    <3> QED BY <2>1, <2>2, <3>1, WFMin
  <2>5. \A m \in below : ~ (m < n) BY <1>1, <2>3, <2>4
  <2>6. \A m \in below : n <= m BY <1>1, <2>5
  <2> QED BY <2>6
<1>3. PICK q \in S : n = MaxOutputs - q BY <1>2
<1>4. \A r \in S : q >= r
  <2> SUFFICES ASSUME NEW r \in S PROVE q >= r OBVIOUS
  <2>1. MaxOutputs - q <= MaxOutputs - r BY <1>2, <1>3
  <2>2. q \in Int /\ r \in Int BY DEF Slots
  <2> QED BY <1>0, <2>1, <2>2
<1>5. Max(S) \in S /\ \A r \in S : Max(S) >= r BY <1>4 DEF Max
<1>6. \A q1, q2 \in S : q1 >= q2 => q2 <= q1 BY DEF Slots
<1> QED BY <1>5, <1>6

Leaked(xs, o) ==
  \E q \in 1 .. o - 1 :
    xs[q] # None /\ xs[q].conf.sid = xs[o].conf.sid /\ xs[q].conf.pmt_pid # 0

LEMMA SendPMTAnnounced ==
  ASSUME NEW xs, NEW p \in Tables \cup {NoPat}, NEW s \in Sids, p.pmt_pid[s] # 0,
         \A o \in Slots : xs[o] # None => xs[o] \in Outputs /\ PatFollows(xs[o], p),
         NEW e \in SendPMT(xs, p, s)
  PROVE  \/ e.pid = xs[e.slot].pat.pid
         \/ GlobalPid # 0 /\ (Leaked(xs, e.slot) \/ xs[e.slot].conf.pmt_pid # 0)
         \/ xs[e.slot].conf.pmt_pid = 0 /\ Leaked(xs, e.slot)
<1>1. PICK o \in PmtReceivers(xs, s) : e.slot = o /\ e.pid = PmtPidAt(xs, p, s, o)
  BY DEF SendPMT
<1>2. o \in Slots /\ xs[o] # None /\ xs[o].conf.sid = s BY <1>1 DEF PmtReceivers
<1> DEFINE c == xs[o].conf
           own == {q \in PmtReceivers(xs, s) : q <= o /\ xs[q].conf.pmt_pid # 0}
<1>3. s # 0 BY NumbersType
<1>4. xs[o].pat.pid = AnnouncedPid(c, p)
  <2>1. xs[o].pat = ProgramPat(xs[o], p) BY <1>2, <1>3 DEF PatFollows, Carries
  <2>2. ProgramPat(xs[o], p).pid = AnnouncedPid(c, p) BY DEF ProgramPat
  <2> QED BY <2>1, <2>2
<1>5. CASE own = {}
  <2>1. c.pmt_pid = 0
    <3>1. o <= o BY <1>2 DEF Slots
    <3> QED BY <1>1, <1>5, <3>1
  <2>2. PmtPidAt(xs, p, s, o) = IF GlobalPid # 0 THEN GlobalPid ELSE p.pmt_pid[s]
    BY <1>5 DEF PmtPidAt
  <2>3. AnnouncedPid(c, p) = IF GlobalPid # 0 THEN GlobalPid ELSE p.pmt_pid[s]
    BY <1>2, <2>1 DEF AnnouncedPid
  <2> QED BY <1>1, <1>4, <2>2, <2>3
<1>6. CASE own # {}
  <2> DEFINE q == Max(own)
  <2>1. own \in SUBSET Slots BY DEF PmtReceivers
  <2>2. q \in own BY <1>6, <2>1, MaxIsLast
  <2>3. PmtPidAt(xs, p, s, o) = xs[q].conf.pmt_pid BY <1>6 DEF PmtPidAt
  <2>4. /\ q \in Slots /\ q <= o /\ xs[q] # None /\ xs[q].conf.sid = s
        /\ xs[q].conf.pmt_pid # 0
    BY <2>2 DEF PmtReceivers
  <2> HIDE DEF q, own
  <2>5. CASE q = o
    <3>1. c.pmt_pid # 0 /\ e.pid = c.pmt_pid BY <1>1, <2>3, <2>4, <2>5
    <3>2. GlobalPid = 0 => AnnouncedPid(c, p) = c.pmt_pid BY <3>1 DEF AnnouncedPid
    <3> QED BY <1>1, <1>4, <3>1, <3>2
  <2>6. CASE q # o
    <3>1. q \in 1 .. o - 1 BY <1>2, <2>4, <2>6, SizesAssumption DEF Slots
    <3>2. Leaked(xs, o) BY <1>2, <2>4, <3>1 DEF Leaked
    <3>3. c.pmt_pid = 0 \/ c.pmt_pid # 0 OBVIOUS
    <3>4. CASE c.pmt_pid = 0 BY <1>1, <3>2, <3>4
    <3>5. CASE c.pmt_pid # 0
      <4>1. o \in own
        <5>1. o <= o BY <1>2 DEF Slots
        <5> QED BY <1>1, <3>5, <5>1 DEF own
      <4>2. o <= q BY <1>6, <2>1, <4>1, MaxIsLast DEF q
      <4> QED BY <1>2, <2>4, <2>6, <4>2 DEF Slots
    <3> QED BY <3>4, <3>5
  <2> QED BY <2>5, <2>6
<1> QED BY <1>5, <1>6

\* SendPMT puts the PMT of an output where its PAT says, for any outputs, unless
\* an output before it of the same program has a PMT PID of its own or there is
\* a global PID map.
THEOREM PmtAnnounced == Spec => []PmtWhereAnnounced
<1>1. Init => PmtWhereAnnounced BY DEF Init, PmtWhereAnnounced
<1>2. Inv /\ Inv' /\ PmtWhereAnnounced /\ [Next]_vars => PmtWhereAnnounced'
  <2> SUFFICES ASSUME Inv, Inv', PmtWhereAnnounced, [Next]_vars
               PROVE  PmtWhereAnnounced'
    OBVIOUS
  <2>1. CASE UNCHANGED vars BY <2>1 DEF vars, PmtWhereAnnounced
  <2>2. CASE \A e \in air' : e.table # "PMT" BY <2>2 DEF PmtWhereAnnounced
  <2>3. ASSUME NEW s \in Sids, air' = SendPMT(output', pat', s), pat'.pmt_pid[s] # 0
        PROVE  PmtWhereAnnounced'
    <3>1. \A o \in Slots : (output')[o] # None =>
             (output')[o] \in Outputs /\ PatFollows((output')[o], pat')
      BY DEF Inv, Valid, Sound, Fits
    <3>2. pat' \in Tables \cup {NoPat} BY DEF Inv, TypeOK
    <3>3. \A e \in air' :
            \/ e.pid = (output')[e.slot].pat.pid
            \/ GlobalPid # 0 /\ (Leaked(output', e.slot) \/ (output')[e.slot].conf.pmt_pid # 0)
            \/ (output')[e.slot].conf.pmt_pid = 0 /\ Leaked(output', e.slot)
      BY <2>3, <3>1, <3>2, SendPMTAnnounced
    <3> QED BY <3>3 DEF PmtWhereAnnounced, Leaked
  <2>4. ASSUME NEW s \in Sids, NEW text \in Texts, HandlePMT(s, text)
        PROVE  PmtWhereAnnounced'
    BY <2>3, <2>4 DEF HandlePMT
  <2>5. ASSUME NEW s \in Sids, RepeatPMT(s) PROVE PmtWhereAnnounced'
    BY <2>3, <2>5 DEF RepeatPMT
  <2>6. CASE \/ (\E p \in Pats : HandlePAT(p)) \/ RepeatPAT
    <3>1. \A xs : \A e \in SendPAT(xs) : e.table # "PMT" BY DEF SendPAT
    <3> QED BY <2>2, <2>6, <3>1 DEF HandlePAT, RepeatPAT
  <2>7. CASE HandleNITSection \/ RepeatSDT \/ SendTDT \/ \E t \in Sdts : HandleSDT(t)
    <3>1. \A xs : \A e \in SendSDT(xs) : e.table # "PMT" BY DEF SendSDT
    <3>2. CASE HandleNITSection BY <2>2, <3>2 DEF HandleNITSection, SendNIT
    <3>3. CASE SendTDT BY <2>2, <3>3 DEF SendTDT
    <3>4. CASE RepeatSDT BY <2>2, <3>1, <3>4 DEF RepeatSDT
    <3>5. CASE \E t \in Sdts : HandleSDT(t)
      <4>1. PICK t \in Sdts : HandleSDT(t) BY <3>5
      <4>2. \E xs : air' = SendSDT(xs) BY <4>1 DEF HandleSDT
      <4> QED BY <2>2, <3>1, <4>2
    <3> QED BY <2>7, <3>2, <3>3, <3>4, <3>5
  <2>8. CASE \/ \E o \in Slots, c \in Configs : Create(o, c) \/ Change(o, c)
             \/ \E o \in Slots : Close(o)
    BY <2>2, <2>8 DEF Create, Change, demux_Change, Close
  <2> QED BY <2>1, <2>4, <2>5, <2>6, <2>7, <2>8 DEF Next
<1>3. Spec => []Inv BY InvHolds, PTL
<1> QED BY <1>1, <1>2, <1>3, PTL DEF Spec
=============================================================================
