---------------------------- MODULE ContractProofs ----------------------------
(***************************************************************************)
(* Proofs about ContractFrames: what a process knows of the calendar it has *)
(* imported, that no validation replaces a value, that a validated row has  *)
(* what the most specific class says, and that the dates in it are those    *)
(* its rules name.                                                          *)
(***************************************************************************)
EXTENDS ContractFrames, FiniteSetTheorems, SequenceTheorems, WellFoundedInduction, TLAPS

-----------------------------------------------------------------------------
\* The holidays are finitely many day numbers.

LEMMA DayInt == ASSUME NEW y \in Int, NEW m \in Int, NEW d \in Int
                PROVE  Day(y, m, d) \in Int
  BY DEF Day

LEMMA EasterInt == ASSUME NEW y \in Nat PROVE EasterSunday(y) \in Int
<1> DEFINE a == y % 19
           b == y \div 100     cc == y % 100
           dd == b \div 4      e == b % 4
           f == (b + 8) \div 25
           g == (b - f + 1) \div 3
           h == (19 * a + b - dd - g + 15) % 30
           i == cc \div 4      k == cc % 4
           l == (32 + 2 * e + 2 * i - h - k) % 7
           mm == (a + 11 * h + 22 * l) \div 451
           days == h + l - 7 * mm + 114
<1>1. a \in Int /\ b \in Int /\ cc \in Int
  OBVIOUS
<1>2. dd \in Int /\ e \in Int /\ f \in Int /\ i \in Int /\ k \in Int
  BY <1>1
<1>3. g \in Int
  BY <1>1, <1>2
<1>4. h \in Int
  <2> HIDE DEF a, b, dd, g
  <2> QED BY <1>1, <1>2, <1>3
<1>5. l \in Int
  <2> HIDE DEF e, i, h, k
  <2> QED BY <1>2, <1>4
<1>6. mm \in Int
  <2> HIDE DEF a, h, l
  <2> QED BY <1>1, <1>4, <1>5
<1>7. days \in Int
  <2> HIDE DEF h, l, mm
  <2> QED BY <1>4, <1>5, <1>6
<1>8. days \div 31 \in Int /\ (days % 31) + 1 \in Int
  <2> HIDE DEF days
  <2> QED BY <1>7
<1>9. Day(y, days \div 31, (days % 31) + 1) \in Int
  <2> HIDE DEF days
  <2> QED BY <1>8, DayInt
<1> QED
  BY <1>9 DEF EasterSunday

LEMMA ImageFinite ==
  ASSUME NEW S, IsFiniteSet(S), NEW f, f = [x \in S |-> f[x]]
  PROVE  IsFiniteSet({f[x] : x \in S})
<1> DEFINE T == {f[x] : x \in S}
<1>1. f \in Surjection(S, T)
  BY DEF Surjection
<1> QED
  BY <1>1, FS_Surjection, Zenon

LEMMA HolidaysForYearFinite ==
  ASSUME NEW y \in Nat
  PROVE  IsFiniteSet(HolidaysForYear(y)) /\ HolidaysForYear(y) \subseteq Int
<1> DEFINE D(md) == Day(y, md[1], md[2])
           F == {D(md) : md \in FixedHolidays}
           N == IF y >= 2024 THEN {Day(y, 11, 20)} ELSE {}
           E == {EasterSunday(y) + n : n \in {-48, -47, -2, 60}}
<1>1. IsFiniteSet(F) /\ F \subseteq Int
  <2> DEFINE f == [md \in FixedHolidays |-> D(md)]
  <2>1. IsFiniteSet(FixedHolidays)
    <3>1. FixedHolidays \subseteq (1..12) \X (1..31)
      BY DEF FixedHolidays
    <3>2. 1 \in Int /\ 12 \in Int /\ 31 \in Int
      OBVIOUS
    <3>3. IsFiniteSet(1..12) /\ IsFiniteSet(1..31)
      BY <3>2, FS_Interval, Zenon
    <3>4. IsFiniteSet((1..12) \X (1..31))
      BY <3>3, FS_Product, Zenon
    <3> QED BY <3>1, <3>4, FS_Subset, Zenon
  <2>2. F = {f[md] : md \in FixedHolidays}
    OBVIOUS
  <2>3. IsFiniteSet({f[md] : md \in FixedHolidays})
    <3>1. f = [md \in FixedHolidays |-> f[md]]
      OBVIOUS
    <3> HIDE DEF f
    <3> QED BY <2>1, <3>1, ImageFinite
  <2>4. F \subseteq Int
    <3>1. \A md \in FixedHolidays : md[1] \in Int /\ md[2] \in Int
      BY DEF FixedHolidays
    <3>2. ASSUME NEW md \in FixedHolidays PROVE Day(y, md[1], md[2]) \in Int
      <4>1. md[1] \in Int /\ md[2] \in Int /\ y \in Int
        BY <3>1
      <4> QED BY <4>1, DayInt, Zenon
    <3> QED BY <3>2
  <2> QED BY <2>2, <2>3, <2>4
<1>2. IsFiniteSet(N) /\ N \subseteq Int
  <2>1. IsFiniteSet({}) /\ IsFiniteSet({Day(y, 11, 20)})
    BY FS_Singleton, FS_EmptySet
  <2>2. Day(y, 11, 20) \in Int
    BY DayInt
  <2> QED BY <2>1, <2>2
<1>3. IsFiniteSet(E) /\ E \subseteq Int
  <2>1. E = {EasterSunday(y) + (-48), EasterSunday(y) + (-47), EasterSunday(y) + (-2),
             EasterSunday(y) + 60}
    OBVIOUS
  <2>2. E = {EasterSunday(y) + (-48)} \cup {EasterSunday(y) + (-47)}
              \cup {EasterSunday(y) + (-2)} \cup {EasterSunday(y) + 60}
    BY <2>1
  <2> HIDE DEF E
  <2>3. IsFiniteSet(E)
    BY <2>2, FS_Singleton, FS_Union
  <2> QED BY <2>2, <2>3, EasterInt
<1>4. HolidaysForYear(y) = F \cup N \cup E
  BY DEF HolidaysForYear
<1> HIDE DEF F, N, E
<1> QED
  BY <1>1, <1>2, <1>3, <1>4, FS_Union

LEMMA HolidaysFinite == IsFiniteSet(GenerateHolidays) /\ GenerateHolidays \subseteq Int
<1> DEFINE Years == StartYear..EndYear
           f == [y \in Years |-> HolidaysForYear(y)]
           Sets == {f[y] : y \in Years}
<1>1. IsFiniteSet(Years) /\ Years \subseteq Nat
  BY FS_Interval, AnbimaAssumption
<1>2. f = [y \in Years |-> f[y]]
  OBVIOUS
<1>3. IsFiniteSet(Sets)
  <2> HIDE DEF f, Years
  <2> QED BY <1>1, <1>2, ImageFinite
<1>4. \A T \in Sets : IsFiniteSet(T) /\ T \subseteq Int
  BY <1>1, HolidaysForYearFinite
<1>5. GenerateHolidays = UNION Sets
  BY DEF GenerateHolidays
<1> HIDE DEF Sets
<1> QED
  BY <1>3, <1>4, <1>5, FS_UNION

-----------------------------------------------------------------------------
\* The lines of the file: each holiday at its rank, in order.

Rank(d) == Cardinality({e \in GenerateHolidays : e < d})

LEMMA LinesByRank ==
  Lines = [i \in 1..Cardinality(GenerateHolidays) |-> CHOOSE d \in GenerateHolidays : Rank(d) = i - 1]
  BY DEF Lines, Rank

\* An earlier holiday has a lower rank.
LEMMA RankOrders ==
  ASSUME NEW d \in GenerateHolidays, NEW e \in GenerateHolidays, e < d
  PROVE  Rank(e) < Rank(d)
<1> DEFINE Below(x) == {h \in GenerateHolidays : h < x}
<1>1. IsFiniteSet(Below(d)) /\ Below(e) \subseteq Below(d) /\ e \in Below(d) \ Below(e)
  <2>1. IsFiniteSet(Below(d))
    <3>1. Below(d) \subseteq GenerateHolidays
      OBVIOUS
    <3> HIDE DEF Below
    <3> QED BY <3>1, HolidaysFinite, FS_Subset
  <2>2. Below(e) \subseteq Below(d)
    <3>1. ASSUME NEW h \in GenerateHolidays, h < e PROVE h < d
      <4>1. h \in Int /\ e \in Int /\ d \in Int
        BY HolidaysFinite
      <4> QED BY <3>1, <4>1
    <3> QED BY <3>1
  <2>3. e \in Below(d) /\ e \notin Below(e)
    BY HolidaysFinite
  <2> QED BY <2>1, <2>2, <2>3
<1>2. Cardinality(Below(e)) < Cardinality(Below(d))
  <2> HIDE DEF Below
  <2> QED BY <1>1, FS_Subset, FS_CardinalityType
<1> QED
  BY <1>2 DEF Rank

LEMMA RankBelow ==
  ASSUME NEW d \in GenerateHolidays
  PROVE  Rank(d) \in 0..(Cardinality(GenerateHolidays) - 1)
<1> DEFINE Below == {h \in GenerateHolidays : h < d}
<1>1. Below \subseteq GenerateHolidays /\ d \notin Below
  BY HolidaysFinite
<1>2. /\ IsFiniteSet(Below) /\ Cardinality(Below) < Cardinality(GenerateHolidays)
      /\ Cardinality(Below) \in Nat /\ Cardinality(GenerateHolidays) \in Nat
  BY <1>1, HolidaysFinite, FS_Subset, FS_CardinalityType
<1> QED
  BY <1>2 DEF Rank

\* Every rank is the rank of one holiday.
LEMMA RankedOnce ==
  ASSUME NEW i \in 1..Cardinality(GenerateHolidays)
  PROVE  \E d \in GenerateHolidays : Rank(d) = i - 1
<1> DEFINE n == Cardinality(GenerateHolidays)
           rank == [d \in GenerateHolidays |-> Rank(d)]
<1>1. n \in Nat
  BY HolidaysFinite, FS_CardinalityType
<1>2. rank \in Injection(GenerateHolidays, 0..(n - 1))
  <2>1. rank \in [GenerateHolidays -> 0..(n - 1)]
    BY RankBelow
  <2>2. ASSUME NEW d \in GenerateHolidays, NEW e \in GenerateHolidays, d # e
        PROVE  rank[d] # rank[e]
    <3>1. d < e \/ e < d
      BY <2>2, HolidaysFinite
    <3>2. Rank(d) \in Int /\ Rank(e) \in Int
      BY RankBelow, <1>1
    <3> QED BY <3>1, <3>2, RankOrders
  <2> HIDE DEF rank
  <2> QED BY <2>1, <2>2 DEF Injection, IsInjective
<1>3. IsFiniteSet(0..(n - 1)) /\ Cardinality(0..(n - 1)) = n
  <2> HIDE DEF n
  <2>1. 0 \in Int /\ n - 1 \in Int
    BY <1>1
  <2>2. /\ IsFiniteSet(0..(n - 1))
        /\ Cardinality(0..(n - 1)) = IF 0 > n - 1 THEN 0 ELSE (n - 1) - 0 + 1
    BY <2>1, FS_Interval
  <2> QED BY <1>1, <2>2
<1>4. rank \in Surjection(GenerateHolidays, 0..(n - 1))
  <2> HIDE DEF rank
  <2> QED BY <1>2, <1>3, FS_Injection
<1>5. i - 1 \in 0..(n - 1)
  BY <1>1
<1> QED
  BY <1>4, <1>5 DEF Surjection

LEMMA LinesRanked ==
  /\ Len(Lines) = Cardinality(GenerateHolidays) /\ Len(Lines) \in Nat
  /\ Lines \in Seq(GenerateHolidays)
  /\ \A i \in 1..Len(Lines) : Lines[i] \in GenerateHolidays /\ Rank(Lines[i]) = i - 1
  /\ \A d \in GenerateHolidays : Rank(d) + 1 \in 1..Len(Lines) /\ Lines[Rank(d) + 1] = d
<1> DEFINE n == Cardinality(GenerateHolidays)
<1>1. n \in Nat
  BY HolidaysFinite, FS_CardinalityType
<1>2. \A i \in 1..n : Lines[i] \in GenerateHolidays /\ Rank(Lines[i]) = i - 1
  BY RankedOnce, LinesByRank
<1>3. Lines \in [1..n -> GenerateHolidays]
  BY <1>2, LinesByRank
<1>4. Len(Lines) = n /\ Lines \in Seq(GenerateHolidays)
  BY <1>1, <1>3
<1>5. ASSUME NEW d \in GenerateHolidays
      PROVE  Rank(d) + 1 \in 1..n /\ Lines[Rank(d) + 1] = d
  <2>1. Rank(d) \in Nat /\ Rank(d) + 1 \in 1..n
    BY RankBelow, <1>1
  <2>2. Lines[Rank(d) + 1] \in GenerateHolidays /\ Rank(Lines[Rank(d) + 1]) = Rank(d)
    BY <1>2, <2>1
  <2> DEFINE line == Lines[Rank(d) + 1]
  <2>3. line \in GenerateHolidays /\ Rank(line) = Rank(d)
    BY <2>2
  <2> HIDE DEF line
  <2>4. ~(line < d) /\ ~(d < line)
    BY <2>1, <2>3, RankOrders
  <2>5. line = d
    BY <2>3, <2>4, HolidaysFinite
  <2> QED BY <2>1, <2>5 DEF line
<1> QED
  BY <1>1, <1>2, <1>4, <1>5

\* What is loaded from the first n lines: the holidays of the n lowest ranks.
Loaded(n) == ToSet(SubSeq(Lines, 1, n))

LEMMA LoadedByRank ==
  ASSUME NEW n \in 0..Len(Lines), NEW d
  PROVE  d \in Loaded(n) <=> (d \in GenerateHolidays /\ Rank(d) < n)
<1> DEFINE first == SubSeq(Lines, 1, n)
<1>1. n \in Nat /\ n <= Len(Lines) /\ Len(Lines) \in Nat
  BY LinesRanked
<1>2. Len(first) = n /\ \A i \in 1..n : first[i] = Lines[i]
  BY <1>1, LinesRanked
<1>3. first \in Seq(GenerateHolidays)
  BY <1>1, LinesRanked, SubSeqProperties
<1>4. DOMAIN first = 1..n
  <2> HIDE DEF first
  <2> QED BY <1>2, <1>3
<1>5. Loaded(n) = {first[i] : i \in 1..n}
  BY <1>4 DEF Loaded, ToSet
<1> HIDE DEF first
<1>6. ASSUME d \in Loaded(n) PROVE d \in GenerateHolidays /\ Rank(d) < n
  <2>1. PICK i \in 1..n : d = Lines[i]
    BY <1>2, <1>5, <1>6
  <2> QED BY <2>1, <1>1, LinesRanked
<1>7. ASSUME d \in GenerateHolidays, Rank(d) < n PROVE d \in Loaded(n)
  <2>1. Rank(d) + 1 \in 1..Len(Lines) /\ Lines[Rank(d) + 1] = d
    BY <1>7, LinesRanked
  <2>2. Rank(d) \in Int
    BY <1>7, RankBelow
  <2>3. Rank(d) + 1 \in 1..n
    BY <1>1, <1>7, <2>1, <2>2
  <2> QED BY <1>2, <1>5, <2>1, <2>3
<1> QED
  BY <1>6, <1>7

LEMMA LoadedEnds ==
  /\ SubSeq(Lines, 1, 0) = <<>>
  /\ SubSeq(Lines, 1, Len(Lines)) = Lines
  /\ ToSet(Lines) = GenerateHolidays
<1>1. SubSeq(Lines, 1, 0) = <<>> /\ SubSeq(Lines, 1, Len(Lines)) = Lines
  BY LinesRanked
<1>2. ToSet(Lines) = GenerateHolidays
  <2>1. Len(Lines) \in 0..Len(Lines) /\ Loaded(Len(Lines)) = ToSet(Lines)
    <3>1. Len(Lines) \in 0..Len(Lines)
      BY LinesRanked
    <3>2. Loaded(Len(Lines)) = ToSet(Lines)
      BY <1>1, Zenon DEF Loaded
    <3> QED BY <3>1, <3>2
  <2>2. \A d \in GenerateHolidays : Rank(d) < Len(Lines)
    BY RankBelow, LinesRanked
  <2> QED BY <2>1, <2>2, LoadedByRank
<1> QED
  BY <1>1, <1>2
-----------------------------------------------------------------------------
\* The file and what processes hold of it.

Places == 0..Len(Lines)

TypeInv ==
  /\ pc \in [Process -> Phase]
  /\ holidays = [p \in Process |-> holidays[p]]
  /\ faults \in Nat

HasFile ==
  \E n \in Places, cut \in BOOLEAN :
    file = [dates |-> SubSeq(Lines, 1, n), cut |-> cut]

PrefixInv ==
  /\ file = NoFile \/ HasFile
  /\ \A p \in Process : pc[p] \in {"write", "load", "rewrite"} => HasFile
  /\ \A p \in Process : holidays[p] # NoFile => \E n \in Places : holidays[p] = Loaded(n)

Writing == \E p \in Process : pc[p] \in {"write", "rewrite"}

\* Without faults, the file is whole, being written, or not there for anyone.
QuietInv ==
  faults = 0 =>
    \/ Writing
    \/ file = Full
    \/ file = NoFile /\ \A p \in Process : pc[p] # "load"

CalendarInv == TypeInv /\ PrefixInv /\ QuietInv

LEMMA WholeFiles ==
  /\ 0 \in Places /\ Len(Lines) \in Places
  /\ Empty = [dates |-> SubSeq(Lines, 1, 0), cut |-> FALSE]
  /\ Full = [dates |-> SubSeq(Lines, 1, Len(Lines)), cut |-> FALSE]
<1>1. 0 \in Places /\ Len(Lines) \in Places
  BY LinesRanked DEF Places
<1>2. SubSeq(Lines, 1, 0) = <<>> /\ SubSeq(Lines, 1, Len(Lines)) = Lines
  BY LoadedEnds
<1> QED
  BY <1>1, <1>2, Zenon DEF Empty, Full

LEMMA CalendarInitial == CalendarInit => CalendarInv
<1> SUFFICES ASSUME CalendarInit PROVE CalendarInv
  OBVIOUS
<1> USE DEF CalendarInit
<1>1. TypeInv
  BY DEF TypeInv, Phase
<1>2. PrefixInv
  <2>1. file = NoFile \/ HasFile
    BY WholeFiles DEF HasFile
  <2> QED BY <2>1 DEF PrefixInv
<1>3. QuietInv
  BY DEF QuietInv
<1> QED
  BY <1>1, <1>2, <1>3 DEF CalendarInv

LEMMA CalendarStepInv ==
  ASSUME CalendarInv, NEW p \in Process, CalendarStep(p)
  PROVE  CalendarInv'
<1> USE DEF CalendarInv, Goes
<1>1. CASE Import(p)
  <2>1. TypeInv'
    BY <1>1 DEF Import, TypeInv, Phase
  <2>2. PrefixInv'
    BY <1>1 DEF Import, TypeInv, PrefixInv, HasFile
  <2>3. QuietInv'
    BY <1>1 DEF Import, TypeInv, QuietInv, Writing
  <2> QED BY <2>1, <2>2, <2>3
<1>2. CASE Open(p)
  <2>1. TypeInv'
    BY <1>2 DEF Open, TypeInv, Phase
  <2>2. HasFile'
    BY <1>2, WholeFiles DEF Open, HasFile
  <2>3. PrefixInv'
    BY <1>2, <2>2 DEF Open, TypeInv, PrefixInv
  <2>4. QuietInv'
    BY <1>2 DEF Open, TypeInv, QuietInv, Writing
  <2> QED BY <2>1, <2>3, <2>4
<1>3. CASE Write(p)
  <2>1. TypeInv'
    BY <1>3 DEF Write, TypeInv, Phase
  <2>2. HasFile'
    BY <1>3, WholeFiles DEF Write, HasFile
  <2>3. PrefixInv'
    BY <1>3, <2>2 DEF Write, TypeInv, PrefixInv
  <2>4. QuietInv'
    BY <1>3 DEF Write, QuietInv
  <2> QED BY <2>1, <2>3, <2>4
<1>4. CASE WriteFails(p)
  <2>1. TypeInv'
    BY <1>4 DEF WriteFails, TypeInv, Phase
  <2>2. HasFile
    BY <1>4 DEF WriteFails, PrefixInv
  <2>3. PICK n \in Cuts, cut \in BOOLEAN :
          /\ n < Len(Lines)
          /\ file' = IF n > Len(file.dates) \/ (n = Len(file.dates) /\ cut)
                     THEN [dates |-> SubSeq(Lines, 1, n), cut |-> cut] ELSE file
    BY <1>4 DEF WriteFails
  <2>4. n \in Places
    BY <2>3, LinesRanked, AnbimaAssumption DEF Places
  <2>5. HasFile'
    BY <2>2, <2>3, <2>4 DEF HasFile
  <2>6. PrefixInv'
    BY <1>4, <2>5 DEF WriteFails, TypeInv, PrefixInv
  <2>7. QuietInv'
    BY <1>4 DEF WriteFails, TypeInv, QuietInv
  <2> QED BY <2>1, <2>6, <2>7
<1>5. CASE Load(p)
  <2>1. TypeInv'
    BY <1>5 DEF Load, TypeInv, Phase
  <2>2. PICK n \in Places, cut \in BOOLEAN :
          file = [dates |-> SubSeq(Lines, 1, n), cut |-> cut]
    BY <1>5 DEF Load, PrefixInv, HasFile
  <2>3. ToSet(file.dates) = Loaded(n)
    BY <2>2 DEF Loaded
  <2>4. PrefixInv'
    <3>1. (file = NoFile \/ HasFile)' /\ HasFile'
      BY <1>5 DEF Load, PrefixInv, HasFile
    <3>2. ASSUME NEW q \in Process, holidays'[q] # NoFile
          PROVE  \E k \in Places : holidays'[q] = Loaded(k)
      <4>1. CASE holidays'[q] = holidays[q]
        BY <3>2, <4>1 DEF PrefixInv
      <4>2. CASE holidays'[q] = ToSet(file.dates)
        BY <2>2, <2>3, <4>2
      <4> QED BY <1>5, <4>1, <4>2 DEF Load, TypeInv
    <3>3. (Loaded(0))' = Loaded(0) /\ \A k \in Places : (Loaded(k))' = Loaded(k)
      BY DEF Loaded
    <3> QED BY <3>1, <3>2, <3>3 DEF PrefixInv
  <2>5. QuietInv'
    BY <1>5 DEF Load, TypeInv, QuietInv, Writing
  <2> QED BY <2>1, <2>4, <2>5
<1>6. CASE Regenerate(p)
  <2>1. TypeInv'
    BY <1>6 DEF Regenerate, TypeInv, Phase
  <2>2. HasFile'
    BY <1>6, WholeFiles DEF Regenerate, HasFile
  <2>3. PrefixInv'
    BY <1>6, <2>2 DEF Regenerate, TypeInv, PrefixInv
  <2>4. QuietInv'
    BY <1>6 DEF Regenerate, TypeInv, QuietInv, Writing
  <2> QED BY <2>1, <2>3, <2>4
<1>7. CASE Crash(p)
  <2>1. TypeInv'
    BY <1>7 DEF Crash, TypeInv, Phase
  <2>2. PrefixInv'
    BY <1>7 DEF Crash, TypeInv, PrefixInv, HasFile
  <2>3. QuietInv'
    BY <1>7 DEF Crash, TypeInv, QuietInv, Writing
  <2> QED BY <2>1, <2>2, <2>3
<1> QED
  BY <1>1, <1>2, <1>3, <1>4, <1>5, <1>6, <1>7 DEF CalendarStep
LEMMA CalendarInductive == FrameSpec => []CalendarInv
<1>1. Init => CalendarInv
  BY CalendarInitial DEF Init
<1>2. CalendarInv /\ [Next]_vars => CalendarInv'
  <2> SUFFICES ASSUME CalendarInv, [Next]_vars PROVE CalendarInv'
    OBVIOUS
  <2>1. CASE \E p \in Process : CalendarStep(p)
    BY <2>1, CalendarStepInv
  <2>2. CASE UNCHANGED calendarVars
    BY <2>2 DEF calendarVars, CalendarInv, TypeInv, PrefixInv, HasFile, QuietInv, Writing
  <2>3. (\E p \in Process : CalendarStep(p)) \/ UNCHANGED calendarVars
    BY DEF Next, vars, Build, Validate, ValidateRaises, ApplyRule, Rejected, Accepted
  <2> QED BY <2>1, <2>2, <2>3
<1> QED
  BY <1>1, <1>2, PTL DEF FrameSpec

LEMMA LoadedIsPrefix ==
  ASSUME NEW n \in Places
  PROVE  /\ Loaded(n) \subseteq GenerateHolidays
         /\ \A d \in Loaded(n) : \A e \in GenerateHolidays : e < d => e \in Loaded(n)
<1>1. \A d : d \in Loaded(n) <=> d \in GenerateHolidays /\ Rank(d) < n
  BY LoadedByRank DEF Places
<1>2. ASSUME NEW d \in Loaded(n), NEW e \in GenerateHolidays, e < d
      PROVE  e \in Loaded(n)
  <2>1. d \in GenerateHolidays /\ Rank(d) < n
    BY <1>1
  <2>2. Rank(e) < Rank(d)
    BY <1>2, <2>1, RankOrders
  <2>3. Rank(e) \in Int /\ Rank(d) \in Int /\ n \in Int
    BY <2>1, RankBelow DEF Places
  <2>4. Rank(e) < n
    BY <2>1, <2>2, <2>3
  <2> QED BY <1>1, <2>4
<1> QED
  BY <1>1, <1>2

\* Whatever the years of the calendar, the number of processes and the faults,
\* no process lacks a holiday before one it holds, nor holds another day.
THEOREM HolidaysNeverMissed == FrameSpec => []NoHolidayMissedBefore
<1>1. CalendarInv => NoHolidayMissedBefore
  <2> SUFFICES ASSUME CalendarInv, NEW p \in Process, holidays[p] # NoFile
               PROVE  /\ holidays[p] \subseteq GenerateHolidays
                      /\ \A d \in holidays[p] : \A e \in GenerateHolidays :
                           e < d => e \in holidays[p]
    BY DEF NoHolidayMissedBefore
  <2>1. PICK n \in Places : holidays[p] = Loaded(n)
    BY DEF CalendarInv, PrefixInv
  <2> QED BY <2>1, LoadedIsPrefix
<1> QED
  BY <1>1, CalendarInductive, PTL

\* An import that no fault and no other writer disturbs succeeds and holds
\* every holiday, for any number of processes importing and regenerating.
THEOREM QuietImportsLoadAll == FrameSpec => QuietImportLoadsAll
<1>1. ASSUME CalendarInv, [Next]_vars, NEW p \in Process,
             pc[p] = "load", pc'[p] \in {"ready", "failed"}, faults = 0, ~Writing
      PROVE  pc'[p] = "ready" /\ holidays'[p] = GenerateHolidays
  <2> USE <1>1
  <2>1. file = Full
    BY DEF CalendarInv, QuietInv
  <2>2. Load(p)
    <3>1. PICK q \in Process : CalendarStep(q)
      BY DEF Next, vars, calendarVars, Build, Validate, ValidateRaises, ApplyRule,
             Rejected, Accepted
    <3>2. pc \in [Process -> Phase]
      BY DEF CalendarInv, TypeInv
    <3>3. q = p
      BY <3>1, <3>2 DEF CalendarStep, Import, Open, Write, WriteFails, Load, Regenerate,
                        Crash, Goes
    <3> QED
      BY <3>1, <3>2, <3>3 DEF CalendarStep, Import, Open, Write, WriteFails, Regenerate,
                              Crash, Goes
  <2>3. pc'[p] = "ready" /\ holidays'[p] = ToSet(Lines)
    BY <2>1, <2>2 DEF Load, Goes, Full, CalendarInv, TypeInv
  <2> QED BY <2>3, LoadedEnds
<1>2. CalendarInv /\ [Next]_vars =>
        [\A p \in Process :
           /\ pc[p] = "load" /\ pc'[p] \in {"ready", "failed"} /\ faults = 0
           /\ \A q \in Process : pc[q] \notin {"write", "rewrite"}
           => pc'[p] = "ready" /\ holidays'[p] = GenerateHolidays]_calendarVars
  BY <1>1 DEF Writing
<1> QED
  BY <1>2, CalendarInductive, PTL DEF FrameSpec, QuietImportLoadsAll

\* A process that has imported the calendar holds what it has loaded.
ReadyInv ==
  \A p \in Process : pc[p] \in {"ready", "rewrite"} => \E n \in Places : holidays[p] = Loaded(n)

LEMMA ReadyStep ==
  ASSUME CalendarInv, ReadyInv, NEW p \in Process, CalendarStep(p)
  PROVE  ReadyInv'
<1> USE DEF Goes
<1>1. pc \in [Process -> Phase] /\ holidays = [q \in Process |-> holidays[q]]
  BY DEF CalendarInv, TypeInv
<1>2. Places' = Places /\ \A n \in Places : (Loaded(n))' = Loaded(n)
  BY DEF Loaded, Places
<1>3. SUFFICES ASSUME NEW q \in Process, pc'[q] \in {"ready", "rewrite"}
               PROVE  \E n \in Places : holidays'[q] = Loaded(n)
  BY <1>2 DEF ReadyInv
<1>4. CASE holidays'[q] = holidays[q] /\ pc[q] \in {"ready", "rewrite"}
  BY <1>4 DEF ReadyInv
<1>5. CASE Load(p) /\ q = p
  <2>1. PICK n \in Places, cut \in BOOLEAN :
          file = [dates |-> SubSeq(Lines, 1, n), cut |-> cut]
    BY <1>5 DEF Load, CalendarInv, PrefixInv, HasFile
  <2>2. ToSet(file.dates) = Loaded(n)
    BY <2>1 DEF Loaded
  <2>3. holidays'[q] = ToSet(file.dates)
    BY <1>1, <1>3, <1>5 DEF Load
  <2> QED
    BY <2>2, <2>3
<1>6. (holidays'[q] = holidays[q] /\ pc[q] \in {"ready", "rewrite"}) \/ (Load(p) /\ q = p)
  <2>1. CASE q # p
    BY <1>1, <1>3, <2>1 DEF CalendarStep, Import, Open, Write, WriteFails, Load, Regenerate, Crash
  <2>2. CASE q = p
    BY <1>1, <1>3, <2>2 DEF CalendarStep, Import, Open, Write, WriteFails, Regenerate, Crash
  <2> QED
    BY <2>1, <2>2
<1> QED
  BY <1>4, <1>5, <1>6

LEMMA ReadyInductive == FrameSpec => []ReadyInv
<1>1. Init => ReadyInv
  BY DEF Init, CalendarInit, ReadyInv
<1>2. CalendarInv /\ ReadyInv /\ [Next]_vars => ReadyInv'
  <2> SUFFICES ASSUME CalendarInv, ReadyInv, [Next]_vars PROVE ReadyInv'
    OBVIOUS
  <2>1. CASE \E p \in Process : CalendarStep(p)
    BY <2>1, ReadyStep
  <2>2. CASE UNCHANGED calendarVars
    BY <2>2 DEF calendarVars, ReadyInv, Loaded, Places
  <2>3. (\E p \in Process : CalendarStep(p)) \/ UNCHANGED calendarVars
    BY DEF Next, vars, Build, Validate, ValidateRaises, ApplyRule, Rejected, Accepted
  <2> QED BY <2>1, <2>2, <2>3
<1> QED
  BY <1>1, <1>2, CalendarInductive, PTL DEF FrameSpec

-----------------------------------------------------------------------------
\* Rows.

IdleInv == status = "idle" => DOMAIN row = {}

LEMMA IdleInductive == FrameSpec => []IdleInv
<1>1. Init => IdleInv
  BY DEF Init, FrameInit, IdleInv, NoRow
<1>2. IdleInv /\ [Next]_vars => IdleInv'
  BY DEF IdleInv, Next, vars, frameVars, Build, Validate, ValidateRaises, ApplyRule,
         Rejected, Accepted
<1> QED
  BY <1>1, <1>2, PTL DEF FrameSpec

\* One rule, of any hierarchy, adds a column or fills a null.
LEMMA AppliedKeeps ==
  ASSUME NEW rule, NEW r, NEW held, NEW c \in DOMAIN r
  PROVE  /\ c \in DOMAIN Apply(rule, r, held)
         /\ r[c] # Null => Apply(rule, r, held)[c] = r[c]
  BY DEF Apply, Written

\* No rules of any hierarchy, in any order and however often applied, replace
\* a value that was given or derived.
THEOREM ValuesKept == FrameSpec => NonNullKept
<1>1. ASSUME IdleInv, [Next]_vars, NEW c \in DOMAIN row
      PROVE  c \in DOMAIN row' /\ (row[c] # Null => row'[c] = row[c])
  <2> USE <1>1
  <2>1. CASE \E p \in Process, hierarchy \in Hierarchies, frame \in Frames :
               Build(p, hierarchy, frame)
    BY <2>1 DEF IdleInv, Build
  <2>2. CASE ApplyRule
    BY <2>2, AppliedKeeps DEF ApplyRule
  <2>3. CASE UNCHANGED row
    BY <2>3
  <2> QED
    BY <2>1, <2>2, <2>3 DEF Next, vars, frameVars, Validate, ValidateRaises, Rejected, Accepted
<1>2. IdleInv /\ [Next]_vars =>
        [\A c \in DOMAIN row :
           /\ c \in DOMAIN row'
           /\ row[c] # Null => row'[c] = row[c]]_vars
  BY <1>1
<1> QED
  BY <1>2, IdleInductive, PTL DEF FrameSpec, NonNullKept

-----------------------------------------------------------------------------
\* The folds that compile the rules, followed one element after the other.

\* A set of numbers with 0 and every successor is all of them.
LEMMA Induction ==
  ASSUME NEW N, N \subseteq Nat, 0 \in N, \A n \in N : n + 1 \in N
  PROVE  N = Nat
<1> DEFINE T == Nat \ N
           R == {p \in Nat \X Nat : p[1] < p[2]}
<1>1. IsWellFoundedOn(R, Nat)
  BY NatLessThanWellFounded DEF OpToRel
<1> HIDE DEF R
<1>2. T # {} => \E n \in T : \A m \in T : <<m, n>> \notin R
  BY <1>1, WFMin
<1>3. \A m, n \in Nat : <<m, n>> \notin R => ~(m < n)
  BY DEF R
<1>4. ASSUME NEW n \in T, \A m \in T : <<m, n>> \notin R PROVE FALSE
  <2>1. n - 1 \in Nat /\ n - 1 + 1 = n /\ n - 1 < n
    OBVIOUS
  <2>2. n - 1 \notin T
    BY <1>3, <1>4, <2>1
  <2> QED
    BY <2>1, <2>2
<1> QED
  BY <1>2, <1>4

\* The sets of indices a fold over a sequence goes through.
LEMMA InitialIndices ==
  /\ 1..0 = {}
  /\ \A n \in Nat :
       /\ 1..(n + 1) \in SUBSET (1..(n + 1)) /\ 1..n \in SUBSET (1..(n + 1))
       /\ 1..(n + 1) # {} /\ Max(1..(n + 1)) = n + 1 /\ (1..(n + 1)) \ {n + 1} = 1..n
       /\ \A S \in SUBSET (1..(n + 1)) :
            /\ n + 1 \in S => Max(S) = n + 1
            /\ S \ {n + 1} \in SUBSET (1..n)
            /\ n + 1 \notin S => S \ {Max(S)} \in SUBSET (1..n) /\ S \in SUBSET (1..n)
<1>1. 1..0 = {}
  OBVIOUS
<1>2. ASSUME NEW n \in Nat, NEW S \in SUBSET (1..(n + 1)), n + 1 \in S
      PROVE  Max(S) = n + 1
  <2>1. \A y \in S : n + 1 >= y
    OBVIOUS
  <2>2. \A x \in S : (\A y \in S : x >= y) => x = n + 1
    <3> SUFFICES ASSUME NEW x \in S, \A y \in S : x >= y PROVE x = n + 1
      OBVIOUS
    <3>1. x >= n + 1 /\ n + 1 >= x /\ x \in Nat
      BY <1>2, <2>1
    <3> QED
      BY <3>1
  <2> QED
    BY <1>2, <2>1, <2>2 DEF Max
<1>3. \A n \in Nat : 1..(n + 1) # {} /\ (1..(n + 1)) \ {n + 1} = 1..n
                     /\ n + 1 \in 1..(n + 1) /\ 1..n \subseteq 1..(n + 1)
  OBVIOUS
<1>4. ASSUME NEW n \in Nat, NEW S \in SUBSET (1..(n + 1))
      PROVE  /\ S \ {n + 1} \in SUBSET (1..n)
             /\ n + 1 \notin S => S \ {Max(S)} \in SUBSET (1..n) /\ S \in SUBSET (1..n)
  <2>1. \A x \in S : x # n + 1 => x \in 1..n
    OBVIOUS
  <2> QED
    BY <2>1
<1>5. \A n \in Nat : Max(1..(n + 1)) = n + 1
  BY <1>2, <1>3
<1> QED
  BY <1>1, <1>2, <1>3, <1>4, <1>5

\* A fold over a sequence is computed by a function on sets of indices; on the
\* first k indices it has folded the first k elements.
OverrideOne(cases, method) == Override(cases, Case(method))
OverrideAll(s) == FoldLeft(LAMBDA cases, method : Override(cases, Case(method)), <<>>, s)
GroupAll(s) == FoldLeft(Grouped, <<>>, s)
MergeAll(base, s) == FoldLeft(Merged, base, s)

LEMMA OverridesAreChain ==
  ASSUME NEW X, NEW s \in Seq(X)
  PROVE  \E J : /\ J[0] = <<>>
                /\ \A k \in 0..(Len(s) - 1) : J[k + 1] = OverrideOne(J[k], s[k + 1])
                /\ OverrideAll(s) = J[Len(s)]
                /\ OverrideAll(s) = J[Len(s)]
<1> DEFINE Iter(n, it) ==
             it = [S \in SUBSET (1..n) |->
                     IF S = {} THEN <<>>
                     ELSE OverrideOne(it[S \ {Max(S)}], s[Max(S)])]
           N == {n \in Nat : \E it : Iter(n, it)}
<1>1. 0 \in N
  <2>1. Iter(0, [S \in SUBSET (1..0) |-> <<>>])
    BY InitialIndices
  <2> QED
    BY <2>1
<1>2. ASSUME NEW n \in N PROVE n + 1 \in N
  <2>1. PICK it : Iter(n, it)
    OBVIOUS
  <2> DEFINE more == [S \in SUBSET (1..(n + 1)) |->
                        IF n + 1 \in S
                        THEN OverrideOne(it[S \ {n + 1}], s[n + 1])
                        ELSE it[S]]
  <2>2. ASSUME NEW S \in SUBSET (1..(n + 1))
        PROVE  more[S] = IF S = {} THEN <<>>
                         ELSE OverrideOne(more[S \ {Max(S)}], s[Max(S)])
    <3>1. CASE n + 1 \in S
      <4>1. Max(S) = n + 1 /\ S # {}
        BY <3>1, InitialIndices
      <4>2. S \ {n + 1} \in SUBSET (1..(n + 1)) /\ n + 1 \notin S \ {n + 1}
        OBVIOUS
      <4>3. more[S \ {n + 1}] = it[S \ {n + 1}]
        BY <4>2
      <4> QED
        BY <3>1, <4>1, <4>3
    <3>2. CASE n + 1 \notin S
      <4>1. S \ {Max(S)} \in SUBSET (1..n) /\ S \in SUBSET (1..n)
        BY <3>2, InitialIndices
      <4>2. S \ {Max(S)} \in SUBSET (1..(n + 1)) /\ n + 1 \notin S \ {Max(S)}
        BY <3>2
      <4>3. more[S \ {Max(S)}] = it[S \ {Max(S)}] /\ more[S] = it[S]
        BY <3>2, <4>2
      <4>4. it[S] = IF S = {} THEN <<>>
                    ELSE OverrideOne(it[S \ {Max(S)}], s[Max(S)])
        BY <2>1, <4>1
      <4> QED
        BY <4>3, <4>4
    <3> QED
      BY <3>1, <3>2
  <2>3. Iter(n + 1, more)
    <3> HIDE DEF more
    <3>1. more = [S \in SUBSET (1..(n + 1)) |-> more[S]]
      BY DEF more
    <3> QED
      BY <2>2, <3>1
  <2> HIDE DEF Iter, more
  <2> QED
    BY <2>3
<1>3. N = Nat
  <2> HIDE DEF N
  <2>1. N \subseteq Nat
    BY DEF N
  <2> QED
    BY <1>1, <1>2, <2>1, Induction
<1> DEFINE n == Len(s)
           it == CHOOSE f : Iter(n, f)
<1>4. n \in Nat /\ DOMAIN s = 1..n
  OBVIOUS
<1>5. Iter(n, it)
  <2> HIDE DEF Iter
  <2>1. \E f : Iter(n, f)
    BY <1>3, <1>4
  <2> QED
    BY <2>1
<1>6. OverrideAll(s) = it[1..n]
  <2>1. OverrideAll(s) =
          (CHOOSE f : f = [S \in SUBSET (DOMAIN s) |->
                     IF S = {} THEN <<>>
                     ELSE OverrideOne(f[S \ {Max(S)}], s[Max(S)])])[DOMAIN s]
    BY DEF OverrideAll, OverrideOne, FoldLeft, MapThenFoldSet
  <2> HIDE DEF n
  <2> QED
    BY <2>1, <1>4
<1> DEFINE J == [k \in 0..n |-> it[1..k]]
<1> HIDE DEF it
<1>7. it[{}] = <<>>
  BY <1>4, <1>5
<1>8. ASSUME NEW k \in 0..(n - 1)
      PROVE  it[1..(k + 1)] = OverrideOne(it[1..k], s[k + 1])
  <2>1. k \in Nat /\ 1..(k + 1) \in SUBSET (1..n)
    BY <1>4
  <2>2. 1..(k + 1) # {} /\ Max(1..(k + 1)) = k + 1 /\ (1..(k + 1)) \ {k + 1} = 1..k
    BY <2>1, InitialIndices
  <2>3. \A S \in SUBSET (1..n) : it[S] = IF S = {} THEN <<>>
                     ELSE OverrideOne(it[S \ {Max(S)}], s[Max(S)])
    BY <1>5
  <2> QED
    BY <2>1, <2>2, <2>3
<1>9. J[0] = <<>> /\ J[n] = OverrideAll(s)
  BY <1>4, <1>6, <1>7, InitialIndices
<1>10. \A k \in 0..(n - 1) : J[k + 1] = OverrideOne(J[k], s[k + 1])
  BY <1>4, <1>8
<1> QED
  BY <1>9, <1>10
LEMMA GroupsAreChain ==
  ASSUME NEW X, NEW s \in Seq(X)
  PROVE  \E J : /\ J[0] = <<>>
                /\ \A k \in 0..(Len(s) - 1) : J[k + 1] = Grouped(J[k], s[k + 1])
                /\ GroupAll(s) = J[Len(s)]
                /\ GroupAll(s) = J[Len(s)]
<1> DEFINE Iter(n, it) ==
             it = [S \in SUBSET (1..n) |->
                     IF S = {} THEN <<>>
                     ELSE Grouped(it[S \ {Max(S)}], s[Max(S)])]
           N == {n \in Nat : \E it : Iter(n, it)}
<1>1. 0 \in N
  <2>1. Iter(0, [S \in SUBSET (1..0) |-> <<>>])
    BY InitialIndices
  <2> QED
    BY <2>1
<1>2. ASSUME NEW n \in N PROVE n + 1 \in N
  <2>1. PICK it : Iter(n, it)
    OBVIOUS
  <2> DEFINE more == [S \in SUBSET (1..(n + 1)) |->
                        IF n + 1 \in S
                        THEN Grouped(it[S \ {n + 1}], s[n + 1])
                        ELSE it[S]]
  <2>2. ASSUME NEW S \in SUBSET (1..(n + 1))
        PROVE  more[S] = IF S = {} THEN <<>>
                         ELSE Grouped(more[S \ {Max(S)}], s[Max(S)])
    <3>1. CASE n + 1 \in S
      <4>1. Max(S) = n + 1 /\ S # {}
        BY <3>1, InitialIndices
      <4>2. S \ {n + 1} \in SUBSET (1..(n + 1)) /\ n + 1 \notin S \ {n + 1}
        OBVIOUS
      <4>3. more[S \ {n + 1}] = it[S \ {n + 1}]
        BY <4>2
      <4> QED
        BY <3>1, <4>1, <4>3
    <3>2. CASE n + 1 \notin S
      <4>1. S \ {Max(S)} \in SUBSET (1..n) /\ S \in SUBSET (1..n)
        BY <3>2, InitialIndices
      <4>2. S \ {Max(S)} \in SUBSET (1..(n + 1)) /\ n + 1 \notin S \ {Max(S)}
        BY <3>2
      <4>3. more[S \ {Max(S)}] = it[S \ {Max(S)}] /\ more[S] = it[S]
        BY <3>2, <4>2
      <4>4. it[S] = IF S = {} THEN <<>>
                    ELSE Grouped(it[S \ {Max(S)}], s[Max(S)])
        BY <2>1, <4>1
      <4> QED
        BY <4>3, <4>4
    <3> QED
      BY <3>1, <3>2
  <2>3. Iter(n + 1, more)
    <3> HIDE DEF more
    <3>1. more = [S \in SUBSET (1..(n + 1)) |-> more[S]]
      BY DEF more
    <3> QED
      BY <2>2, <3>1
  <2> HIDE DEF Iter, more
  <2> QED
    BY <2>3
<1>3. N = Nat
  <2> HIDE DEF N
  <2>1. N \subseteq Nat
    BY DEF N
  <2> QED
    BY <1>1, <1>2, <2>1, Induction
<1> DEFINE n == Len(s)
           it == CHOOSE f : Iter(n, f)
<1>4. n \in Nat /\ DOMAIN s = 1..n
  OBVIOUS
<1>5. Iter(n, it)
  <2> HIDE DEF Iter
  <2>1. \E f : Iter(n, f)
    BY <1>3, <1>4
  <2> QED
    BY <2>1
<1>6. GroupAll(s) = it[1..n]
  <2>1. GroupAll(s) =
          (CHOOSE f : f = [S \in SUBSET (DOMAIN s) |->
                     IF S = {} THEN <<>>
                     ELSE Grouped(f[S \ {Max(S)}], s[Max(S)])])[DOMAIN s]
    BY DEF GroupAll, FoldLeft, MapThenFoldSet
  <2> HIDE DEF n
  <2> QED
    BY <2>1, <1>4
<1> DEFINE J == [k \in 0..n |-> it[1..k]]
<1> HIDE DEF it
<1>7. it[{}] = <<>>
  BY <1>4, <1>5
<1>8. ASSUME NEW k \in 0..(n - 1)
      PROVE  it[1..(k + 1)] = Grouped(it[1..k], s[k + 1])
  <2>1. k \in Nat /\ 1..(k + 1) \in SUBSET (1..n)
    BY <1>4
  <2>2. 1..(k + 1) # {} /\ Max(1..(k + 1)) = k + 1 /\ (1..(k + 1)) \ {k + 1} = 1..k
    BY <2>1, InitialIndices
  <2>3. \A S \in SUBSET (1..n) : it[S] = IF S = {} THEN <<>>
                     ELSE Grouped(it[S \ {Max(S)}], s[Max(S)])
    BY <1>5
  <2> QED
    BY <2>1, <2>2, <2>3
<1>9. J[0] = <<>> /\ J[n] = GroupAll(s)
  BY <1>4, <1>6, <1>7, InitialIndices
<1>10. \A k \in 0..(n - 1) : J[k + 1] = Grouped(J[k], s[k + 1])
  BY <1>4, <1>8
<1> QED
  BY <1>9, <1>10
LEMMA MergesAreChain ==
  ASSUME NEW X, NEW base, NEW s \in Seq(X)
  PROVE  \E J : /\ J[0] = base
                /\ \A k \in 0..(Len(s) - 1) : J[k + 1] = Merged(J[k], s[k + 1])
                /\ MergeAll(base, s) = J[Len(s)]
                /\ MergeAll(base, s) = J[Len(s)]
<1> DEFINE Iter(n, it) ==
             it = [S \in SUBSET (1..n) |->
                     IF S = {} THEN base
                     ELSE Merged(it[S \ {Max(S)}], s[Max(S)])]
           N == {n \in Nat : \E it : Iter(n, it)}
<1>1. 0 \in N
  <2>1. Iter(0, [S \in SUBSET (1..0) |-> base])
    BY InitialIndices
  <2> QED
    BY <2>1
<1>2. ASSUME NEW n \in N PROVE n + 1 \in N
  <2>1. PICK it : Iter(n, it)
    OBVIOUS
  <2> DEFINE more == [S \in SUBSET (1..(n + 1)) |->
                        IF n + 1 \in S
                        THEN Merged(it[S \ {n + 1}], s[n + 1])
                        ELSE it[S]]
  <2>2. ASSUME NEW S \in SUBSET (1..(n + 1))
        PROVE  more[S] = IF S = {} THEN base
                         ELSE Merged(more[S \ {Max(S)}], s[Max(S)])
    <3>1. CASE n + 1 \in S
      <4>1. Max(S) = n + 1 /\ S # {}
        BY <3>1, InitialIndices
      <4>2. S \ {n + 1} \in SUBSET (1..(n + 1)) /\ n + 1 \notin S \ {n + 1}
        OBVIOUS
      <4>3. more[S \ {n + 1}] = it[S \ {n + 1}]
        BY <4>2
      <4> QED
        BY <3>1, <4>1, <4>3
    <3>2. CASE n + 1 \notin S
      <4>1. S \ {Max(S)} \in SUBSET (1..n) /\ S \in SUBSET (1..n)
        BY <3>2, InitialIndices
      <4>2. S \ {Max(S)} \in SUBSET (1..(n + 1)) /\ n + 1 \notin S \ {Max(S)}
        BY <3>2
      <4>3. more[S \ {Max(S)}] = it[S \ {Max(S)}] /\ more[S] = it[S]
        BY <3>2, <4>2
      <4>4. it[S] = IF S = {} THEN base
                    ELSE Merged(it[S \ {Max(S)}], s[Max(S)])
        BY <2>1, <4>1
      <4> QED
        BY <4>3, <4>4
    <3> QED
      BY <3>1, <3>2
  <2>3. Iter(n + 1, more)
    <3> HIDE DEF more
    <3>1. more = [S \in SUBSET (1..(n + 1)) |-> more[S]]
      BY DEF more
    <3> QED
      BY <2>2, <3>1
  <2> HIDE DEF Iter, more
  <2> QED
    BY <2>3
<1>3. N = Nat
  <2> HIDE DEF N
  <2>1. N \subseteq Nat
    BY DEF N
  <2> QED
    BY <1>1, <1>2, <2>1, Induction
<1> DEFINE n == Len(s)
           it == CHOOSE f : Iter(n, f)
<1>4. n \in Nat /\ DOMAIN s = 1..n
  OBVIOUS
<1>5. Iter(n, it)
  <2> HIDE DEF Iter
  <2>1. \E f : Iter(n, f)
    BY <1>3, <1>4
  <2> QED
    BY <2>1
<1>6. MergeAll(base, s) = it[1..n]
  <2>1. MergeAll(base, s) =
          (CHOOSE f : f = [S \in SUBSET (DOMAIN s) |->
                     IF S = {} THEN base
                     ELSE Merged(f[S \ {Max(S)}], s[Max(S)])])[DOMAIN s]
    BY DEF MergeAll, FoldLeft, MapThenFoldSet
  <2> HIDE DEF n
  <2> QED
    BY <2>1, <1>4
<1> DEFINE J == [k \in 0..n |-> it[1..k]]
<1> HIDE DEF it
<1>7. it[{}] = base
  BY <1>4, <1>5
<1>8. ASSUME NEW k \in 0..(n - 1)
      PROVE  it[1..(k + 1)] = Merged(it[1..k], s[k + 1])
  <2>1. k \in Nat /\ 1..(k + 1) \in SUBSET (1..n)
    BY <1>4
  <2>2. 1..(k + 1) # {} /\ Max(1..(k + 1)) = k + 1 /\ (1..(k + 1)) \ {k + 1} = 1..k
    BY <2>1, InitialIndices
  <2>3. \A S \in SUBSET (1..n) : it[S] = IF S = {} THEN base
                     ELSE Merged(it[S \ {Max(S)}], s[Max(S)])
    BY <1>5
  <2> QED
    BY <2>1, <2>2, <2>3
<1>9. J[0] = base /\ J[n] = MergeAll(base, s)
  BY <1>4, <1>6, <1>7, InitialIndices
<1>10. \A k \in 0..(n - 1) : J[k + 1] = Merged(J[k], s[k + 1])
  BY <1>4, <1>8
<1> QED
  BY <1>9, <1>10
-----------------------------------------------------------------------------
\* Lists.

LEMMA ListIsSeq ==
  ASSUME NEW s, IsList(s)
  PROVE  s \in Seq(ToSet(s)) /\ Len(s) \in Nat /\ DOMAIN s = 1..Len(s)
  BY DEF IsList

LEMMA SeqIsList ==
  ASSUME NEW X, NEW s \in Seq(X)
  PROVE  IsList(s)
<1>1. Len(s) \in Nat /\ s \in [1..Len(s) -> X]
  OBVIOUS
<1>2. s \in [1..Len(s) -> ToSet(s)]
  BY <1>1 DEF ToSet
<1> QED
  BY <1>1, <1>2 DEF IsList

LEMMA Appended ==
  ASSUME NEW s, IsList(s), NEW e
  PROVE  /\ IsList(Append(s, e)) /\ Len(Append(s, e)) = Len(s) + 1
         /\ DOMAIN Append(s, e) = 1..(Len(s) + 1)
         /\ \A i \in 1..Len(s) : Append(s, e)[i] = s[i]
         /\ Append(s, e)[Len(s) + 1] = e
         /\ ToSet(Append(s, e)) = ToSet(s) \cup {e}
         /\ Append(s, e) # <<>>
<1> DEFINE X == ToSet(s) \cup {e}
           t == Append(s, e)
<1>1. s \in Seq(X) /\ Len(s) \in Nat /\ DOMAIN s = 1..Len(s) /\ e \in X
  BY ListIsSeq
<1>2. t \in Seq(X)
  BY <1>1
<1>3. IsList(t)
  BY <1>2, SeqIsList
<1>4. Len(t) = Len(s) + 1 /\ DOMAIN t = 1..(Len(s) + 1)
  BY <1>1
<1>5. (\A i \in 1..Len(s) : t[i] = s[i]) /\ t[Len(s) + 1] = e
  BY <1>1
<1>6. ToSet(t) = ToSet(s) \cup {e}
  <2> HIDE DEF t
  <2>1. \A i \in DOMAIN t : i \in DOMAIN s \/ i = Len(s) + 1
    BY <1>1, <1>4
  <2>2. Len(s) + 1 \in DOMAIN t /\ \A i \in DOMAIN s : i \in DOMAIN t
    BY <1>1, <1>4
  <2> QED
    BY <1>1, <1>5, <2>1, <2>2 DEF ToSet
<1>7. t # <<>>
  BY <1>1, <1>4
<1> QED
  BY <1>3, <1>4, <1>5, <1>6, <1>7

\* The least place with a property is one, and 0 says there is none.
LEMMA LeastExists ==
  ASSUME NEW S, S \subseteq Nat, S # {}
  PROVE  Min(S) \in S /\ \A x \in S : Min(S) <= x
<1> DEFINE R == {p \in Nat \X Nat : p[1] < p[2]}
<1>1. IsWellFoundedOn(R, Nat)
  BY NatLessThanWellFounded DEF OpToRel
<1> HIDE DEF R
<1>2. PICK m \in S : \A x \in S : <<x, m>> \notin R
  BY <1>1, WFMin
<1>3. \A x, y \in Nat : <<x, y>> \notin R => ~(x < y)
  BY DEF R
<1>4. ASSUME NEW x \in S PROVE m <= x
  <2>1. m \in Nat /\ x \in Nat /\ <<x, m>> \notin R
    BY <1>2
  <2>2. ~(x < m)
    BY <1>3, <2>1
  <2> QED
    BY <2>1, <2>2
<1> QED
  BY <1>4 DEF Min

-----------------------------------------------------------------------------
\* FlattenSeq: where an element of a sequence of sequences comes to stand.

Offsets(s, flat, off) ==
  /\ Len(s) \in Nat /\ DOMAIN s = 1..Len(s)
  /\ \A i \in 1..Len(s) : IsList(s[i])
  /\ IsList(flat)
  /\ \A i \in 1..(Len(s) + 1) : off[i] \in Nat
  /\ off[1] = 0
  /\ \A i \in 1..Len(s) : off[i + 1] = off[i] + Len(s[i])
  /\ Len(flat) = off[Len(s) + 1]
  /\ \A i \in 1..Len(s) : \A j \in 1..Len(s[i]) : flat[off[i] + j] = s[i][j]

\* The first i sequences, concatenated.
Flattening(s, n, f) ==
  f = [i \in 1..n |-> IF i = 1 THEN s[i] ELSE f[i - 1] \o s[i]]

LEMMA FlatteningExists ==
  ASSUME NEW s, NEW n \in Nat
  PROVE  \E f : Flattening(s, n, f)
<1> DEFINE N == {k \in Nat : \E f : Flattening(s, k, f)}
<1>1. 0 \in N
  <2>1. Flattening(s, 0, [i \in 1..0 |-> s[i]])
    BY DEF Flattening
  <2> QED
    BY <2>1
<1>2. ASSUME NEW k \in N PROVE k + 1 \in N
  <2>1. PICK f : Flattening(s, k, f)
    OBVIOUS
  <2> DEFINE more == [i \in 1..(k + 1) |->
                        IF i = k + 1 THEN IF i = 1 THEN s[i] ELSE f[i - 1] \o s[i]
                        ELSE f[i]]
  <2>2. ASSUME NEW i \in 1..(k + 1)
        PROVE  more[i] = IF i = 1 THEN s[i] ELSE more[i - 1] \o s[i]
    <3>1. CASE i = 1
      BY <3>1, <2>1 DEF Flattening
    <3>2. CASE i # 1
      <4>1. i - 1 \in 1..k /\ i - 1 \in 1..(k + 1) /\ i - 1 # k + 1
        BY <3>2
      <4>2. more[i - 1] = f[i - 1]
        BY <4>1
      <4>3. CASE i = k + 1
        BY <3>2, <4>2, <4>3
      <4>4. CASE i # k + 1
        <5>1. i \in 1..k
          BY <4>4
        <5> QED
          BY <2>1, <3>2, <4>2, <4>4, <5>1 DEF Flattening
      <4> QED
        BY <4>3, <4>4
    <3> QED
      BY <3>1, <3>2
  <2>3. Flattening(s, k + 1, more)
    <3>1. more = [i \in 1..(k + 1) |-> more[i]]
      OBVIOUS
    <3> HIDE DEF more
    <3> QED
      BY <2>2, <3>1 DEF Flattening
  <2> HIDE DEF more
  <2> QED
    BY <2>3
<1> HIDE DEF N
<1>3. N = Nat
  <2>1. N \subseteq Nat
    BY DEF N
  <2> QED
    BY <1>1, <1>2, <2>1, Induction
<1> QED
  BY <1>3 DEF N

LEMMA Flattened ==
  ASSUME NEW X, NEW s \in Seq(Seq(X))
  PROVE  FlattenSeq(s) \in Seq(X) /\ \E off : Offsets(s, FlattenSeq(s), off)
<1> DEFINE n == Len(s)
<1>1. n \in Nat /\ DOMAIN s = 1..n /\ \A i \in 1..n : s[i] \in Seq(X)
  OBVIOUS
<1>2. \A i \in 1..n : IsList(s[i]) /\ Len(s[i]) \in Nat
  BY <1>1, SeqIsList
<1>3. CASE n = 0
  <2>1. FlattenSeq(s) = s /\ s = <<>>
    BY <1>3 DEF FlattenSeq
  <2>2. s \in Seq(X)
    BY <2>1
  <2>3. Offsets(s, s, [i \in {1} |-> 0])
    <3>1. IsList(s)
      BY <2>2, SeqIsList
    <3>2. \A i \in 1..(n + 1) : i = 1
      BY <1>3
    <3>3. 1..n = {}
      BY <1>3
    <3> QED
      BY <1>1, <1>3, <3>1, <3>2, <3>3 DEF Offsets
  <2> QED
    BY <2>1, <2>2, <2>3
<1>4. CASE n # 0
  <2> DEFINE f == CHOOSE f : Flattening(s, n, f)
  <2>1. Flattening(s, n, f)
    BY <1>1, FlatteningExists
  <2>2. FlattenSeq(s) = f[n]
    <3>1. f = CHOOSE g : g = [i \in 1..n |-> IF i = 1 THEN s[i] ELSE g[i - 1] \o s[i]]
      BY DEF Flattening
    <3> QED
      BY <1>4, <3>1 DEF FlattenSeq
  <2> HIDE DEF f
  <2>3. f[1] = s[1] /\ \A i \in 1..n : i # 1 => f[i] = f[i - 1] \o s[i]
    <3>1. \A i \in 1..n : f[i] = IF i = 1 THEN s[i] ELSE f[i - 1] \o s[i]
      BY <2>1, Zenon DEF Flattening
    <3>2. 1 \in 1..n
      BY <1>1, <1>4
    <3> QED
      BY <3>1, <3>2
  <2> DEFINE off == [i \in 1..(n + 1) |-> IF i = 1 THEN 0 ELSE Len(f[i - 1])]
             Laid(k) == /\ f[k] \in Seq(X)
                        /\ Len(f[k]) = off[k] + Len(s[k])
                        /\ \A i \in 1..k : \A j \in 1..Len(s[i]) :
                             off[i] \in Nat /\ off[i] + j <= Len(f[k])
                               /\ f[k][off[i] + j] = s[i][j]
             N == {k \in Nat : k + 1 <= n => Laid(k + 1)}
  <2>4. 0 \in N
    <3>1. off[1] = 0 /\ f[1] = s[1] /\ s[1] \in Seq(X)
      BY <1>1, <1>4, <2>3
    <3> HIDE DEF off
    <3>2. Len(f[1]) = off[1] + Len(s[1])
      BY <3>1
    <3>3. ASSUME NEW i \in 1..1, NEW j \in 1..Len(s[i])
          PROVE  off[i] \in Nat /\ off[i] + j <= Len(f[1]) /\ f[1][off[i] + j] = s[i][j]
      BY <3>1, <3>3
    <3> QED
      BY <3>1, <3>2, <3>3
  <2>5. ASSUME NEW k \in N PROVE k + 1 \in N
    <3> SUFFICES ASSUME k + 2 <= n PROVE Laid(k + 2)
      <4>1. k + 1 \in Nat /\ k + 1 + 1 = k + 2
        OBVIOUS
      <4> HIDE DEF Laid
      <4> QED
        BY <4>1
    <3>1. k \in Nat /\ k + 1 \in 1..n /\ k + 2 \in 1..n /\ k + 2 \in 1..(n + 1) /\ k + 2 # 1
      BY <1>1
    <3>2. Laid(k + 1)
      <4>1. k + 1 <= n
        BY <1>1
      <4> HIDE DEF Laid
      <4> QED
        BY <4>1
    <3>3. f[k + 2] = f[k + 1] \o s[k + 2] /\ off[k + 2] = Len(f[k + 1])
      <4>1. (k + 2) - 1 = k + 1
        OBVIOUS
      <4>2. f[k + 2] = f[(k + 2) - 1] \o s[k + 2]
        <5> HIDE DEF N, Laid, off
        <5> QED
          BY <2>3, <3>1
      <4>3. off[k + 2] = Len(f[(k + 2) - 1])
        <5> HIDE DEF N, Laid
        <5> QED
          BY <3>1 DEF off
      <4> HIDE DEF off
      <4> QED
        BY <4>1, <4>2, <4>3
    <3>4. s[k + 2] \in Seq(X)
      BY <1>1, <3>1
    <3> HIDE DEF N, Laid
    <3> DEFINE a == f[k + 1]
               b == s[k + 2]
    <3> HIDE DEF off
    <3>5. a \in Seq(X) /\ b \in Seq(X) /\ f[k + 2] = a \o b /\ off[k + 2] = Len(a)
      BY <3>2, <3>3, <3>4 DEF Laid
    <3>6. f[k + 2] \in Seq(X) /\ Len(f[k + 2]) = Len(a) + Len(b)
      <4> HIDE DEF a, b
      <4> QED
        BY <3>5
    <3>7. ASSUME NEW i \in 1..(k + 2), NEW j \in 1..Len(s[i])
          PROVE  off[i] \in Nat /\ off[i] + j <= Len(f[k + 2]) /\ f[k + 2][off[i] + j] = s[i][j]
      <4>1. CASE i = k + 2
        <5>1. Len(a) \in Nat /\ j \in 1..Len(b)
          BY <3>5, <3>7, <4>1
        <5>2. (a \o b)[Len(a) + j] = b[j]
          <6> HIDE DEF a, b
          <6> QED
            BY <3>5, <5>1
        <5>3. Len(a) + j <= Len(a) + Len(b)
          <6> HIDE DEF a, b
          <6> QED
            BY <3>5, <5>1
        <5> QED
          BY <3>5, <3>6, <4>1, <5>1, <5>2, <5>3
      <4>2. CASE i # k + 2
        <5>1. i \in 1..(k + 1)
          BY <3>1, <4>2
        <5>2. off[i] \in Nat /\ off[i] + j <= Len(a) /\ a[off[i] + j] = s[i][j]
          BY <3>2, <5>1 DEF Laid
        <5>3. off[i] + j \in 1..Len(a) /\ Len(a) \in Nat /\ Len(b) \in Nat
          <6>1. s[i] \in Seq(X)
            BY <1>1, <3>1, <5>1
          <6>2. Len(s[i]) \in Nat /\ j \in Nat /\ j >= 1
            BY <6>1
          <6>3. Len(a) \in Nat /\ Len(b) \in Nat
            BY <3>5
          <6>4. off[i] \in Nat /\ off[i] + j <= Len(a)
            BY <5>2
          <6> HIDE DEF a, b, off
          <6> QED
            BY <6>2, <6>3, <6>4
        <5>4. (a \o b)[off[i] + j] = a[off[i] + j]
          <6> HIDE DEF a, b
          <6> QED
            BY <3>5, <5>3
        <5> HIDE DEF a, b
        <5> QED
          BY <3>5, <3>6, <5>2, <5>3, <5>4
      <4> QED
        BY <4>1, <4>2
    <3> QED
      BY <3>3, <3>5, <3>6, <3>7 DEF Laid
  <2>6. N = Nat
    <3> HIDE DEF N
    <3>1. N \subseteq Nat
      BY DEF N
    <3> QED
      BY <2>4, <2>5, <3>1, Induction
  <2>7. ASSUME NEW k \in 1..n PROVE Laid(k)
    <3>1. k - 1 \in Nat /\ k - 1 + 1 = k /\ k <= n
      BY <1>1
    <3>2. k - 1 \in N
      BY <2>6, <3>1
    <3> HIDE DEF Laid
    <3> QED
      BY <3>1, <3>2
  <2>8. n \in 1..n /\ n + 1 \in 1..(n + 1)
    BY <1>1, <1>4
  <2>9. f[n] \in Seq(X) /\ IsList(f[n]) /\ Len(f[n]) = off[n + 1]
    <3>1. off[n + 1] = Len(f[n])
      BY <1>1, <1>4, <2>8
    <3> QED
      BY <2>7, <2>8, <3>1, SeqIsList
  <2>10. \A i \in 1..(n + 1) : off[i] \in Nat
    <3> SUFFICES ASSUME NEW i \in 1..(n + 1), i # 1 PROVE off[i] \in Nat
      OBVIOUS
    <3>1. i - 1 \in 1..n /\ off[i] = Len(f[i - 1])
      BY <1>1
    <3>2. f[i - 1] \in Seq(X)
      BY <2>7, <3>1
    <3> QED
      BY <3>1, <3>2
  <2>11. \A i \in 1..n : off[i + 1] = off[i] + Len(s[i])
    <3> SUFFICES ASSUME NEW i \in 1..n PROVE off[i + 1] = off[i] + Len(s[i])
      OBVIOUS
    <3>1. off[i + 1] = Len(f[i])
      BY <1>1
    <3> HIDE DEF off
    <3> QED
      BY <2>7, <3>1
  <2>12. off[1] = 0
    BY <1>1
  <2>13. \A i \in 1..n : \A j \in 1..Len(s[i]) : f[n][off[i] + j] = s[i][j]
    <3> HIDE DEF off
    <3> QED
      BY <2>7, <2>8
  <2>14. Offsets(s, f[n], off)
    <3> HIDE DEF off, Laid, N
    <3> QED
      BY <1>1, <1>2, <2>9, <2>10, <2>11, <2>12, <2>13 DEF Offsets
  <2> QED
    BY <2>2, <2>9, <2>14
<1> QED
  BY <1>3, <1>4
LEMMA OffsetsGrow ==
  ASSUME NEW s, NEW flat, NEW off, Offsets(s, flat, off),
         NEW i \in 1..Len(s), NEW k \in 1..(Len(s) + 1), i < k
  PROVE  off[i] + Len(s[i]) <= off[k]
<1> DEFINE n == Len(s)
           N == {d \in Nat : i + d + 1 <= n + 1 => off[i] + Len(s[i]) <= off[i + d + 1]}
<1>1. /\ n \in Nat /\ \A x \in 1..n : Len(s[x]) \in Nat
      /\ \A x \in 1..(n + 1) : off[x] \in Nat
      /\ \A x \in 1..n : off[x + 1] = off[x] + Len(s[x])
  BY ListIsSeq DEF Offsets
<1> HIDE DEF n
<1>2. i \in 1..n /\ k \in 1..(n + 1)
  BY DEF n
<1>3. 0 \in N
  <2>1. off[i + 1] = off[i] + Len(s[i]) /\ off[i] \in Nat /\ Len(s[i]) \in Nat
    BY <1>1, <1>2
  <2>2. i + 0 + 1 = i + 1
    BY <1>2
  <2> QED
    BY <2>1, <2>2
<1>4. ASSUME NEW d \in N PROVE d + 1 \in N
  <2>1. d \in Nat /\ i + (d + 1) + 1 = (i + d + 1) + 1
    BY <1>2
  <2>2. ASSUME (i + d + 1) + 1 <= n + 1 PROVE off[i] + Len(s[i]) <= off[(i + d + 1) + 1]
    <3>1. i + d + 1 \in 1..n /\ i + d + 1 <= n + 1
      BY <1>1, <1>2, <2>1, <2>2
    <3>2. off[i] + Len(s[i]) <= off[i + d + 1]
      BY <3>1
    <3> DEFINE x == i + d + 1
    <3>3. off[x + 1] = off[x] + Len(s[x]) /\ Len(s[x]) \in Nat /\ off[x] \in Nat
      <4>1. x \in 1..n /\ x \in 1..(n + 1)
        BY <1>1, <3>1
      <4> HIDE DEF x
      <4> QED
        BY <1>1, <4>1
    <3>4. off[i] \in Nat /\ Len(s[i]) \in Nat
      BY <1>1, <1>2
    <3>5. off[i] + Len(s[i]) <= off[x]
      BY <3>2
    <3> HIDE DEF x, N
    <3>6. off[i] + Len(s[i]) <= off[x + 1]
      BY <3>3, <3>4, <3>5
    <3> QED
      BY <3>6 DEF x
  <2> QED
    BY <2>1, <2>2
<1>5. N = Nat
  <2> HIDE DEF N
  <2>1. N \subseteq Nat
    BY DEF N
  <2> QED
    BY <1>3, <1>4, <2>1, Induction
<1>6. (k - i) - 1 \in Nat /\ i + ((k - i) - 1) + 1 = k /\ k <= n + 1
  BY <1>1, <1>2
<1>7. (k - i) - 1 \in N
  BY <1>5, <1>6
<1> QED
  BY <1>6, <1>7

\* Every place of the flat sequence is the place of an element of one of them,
LEMMA OffsetsCover ==
  ASSUME NEW s, NEW flat, NEW off, Offsets(s, flat, off), NEW l \in DOMAIN flat
  PROVE  \E i \in 1..Len(s) : \E j \in 1..Len(s[i]) : l = off[i] + j
<1> DEFINE n == Len(s)
           Found == \E i \in 1..n : \E j \in 1..Len(s[i]) : l = off[i] + j
           N == {d \in Nat : d <= n /\ l <= off[d + 1] => Found}
<1>1. /\ n \in Nat /\ \A x \in 1..n : Len(s[x]) \in Nat
      /\ \A x \in 1..(n + 1) : off[x] \in Nat
      /\ off[1] = 0 /\ Len(flat) = off[n + 1]
      /\ \A x \in 1..n : off[x + 1] = off[x] + Len(s[x])
      /\ DOMAIN flat = 1..Len(flat)
  BY ListIsSeq DEF Offsets
<1>2. l \in Nat /\ l >= 1 /\ l <= off[n + 1]
  BY <1>1
<1>3. 0 \in N
  <2>1. ~(l <= off[1])
    BY <1>1, <1>2
  <2>2. off[0 + 1] = off[1]
    OBVIOUS
  <2> QED
    BY <2>1, <2>2
<1>4. ASSUME NEW d \in N PROVE d + 1 \in N
  <2> HIDE DEF Found
  <2>1. ASSUME d + 1 <= n, l <= off[(d + 1) + 1] PROVE Found
    <3>1. d + 1 \in 1..n /\ d + 1 \in 1..(n + 1) /\ d <= n
      BY <1>1, <2>1
    <3>2. CASE l <= off[d + 1]
      BY <3>1, <3>2
    <3>3. CASE ~(l <= off[d + 1])
      <4> DEFINE x == d + 1
      <4>1. x \in 1..n /\ off[x + 1] = off[x] + Len(s[x]) /\ Len(s[x]) \in Nat /\ off[x] \in Nat
        <5>1. x \in 1..n /\ x \in 1..(n + 1)
          BY <3>1
        <5> HIDE DEF x
        <5> QED
          BY <1>1, <5>1
      <4>2. l <= off[x + 1] /\ ~(l <= off[x])
        BY <2>1, <3>3
      <4> HIDE DEF x, N, n
      <4>3. l - off[x] \in 1..Len(s[x]) /\ l = off[x] + (l - off[x])
        BY <1>2, <4>1, <4>2
      <4> QED
        BY <4>1, <4>3 DEF Found
    <3> QED
      BY <3>2, <3>3
  <2> QED
    BY <2>1
<1>5. N = Nat
  <2> HIDE DEF N
  <2>1. N \subseteq Nat
    BY DEF N
  <2> QED
    BY <1>3, <1>4, <2>1, Induction
<1>6. n \in N
  BY <1>1, <1>5
<1> QED
  BY <1>1, <1>2, <1>6

\* and the places are in the order of the sequences and of each of them.
LEMMA OffsetsOrder ==
  ASSUME NEW s, NEW flat, NEW off, Offsets(s, flat, off),
         NEW i \in 1..Len(s), NEW j \in 1..Len(s[i]),
         NEW k \in 1..Len(s), NEW m \in 1..Len(s[k])
  PROVE  /\ off[i] + j \in DOMAIN flat /\ flat[off[i] + j] = s[i][j] /\ off[i] + j >= j
         /\ off[i] + j <= off[k] + m <=> i < k \/ (i = k /\ j <= m)
<1>1. /\ Len(s) \in Nat
      /\ Len(s[i]) \in Nat /\ Len(s[k]) \in Nat /\ off[i] \in Nat /\ off[k] \in Nat
      /\ Len(flat) = off[Len(s) + 1] /\ DOMAIN flat = 1..Len(flat) /\ Len(flat) \in Nat
      /\ flat[off[i] + j] = s[i][j]
  <2>1. Len(s) \in Nat
    BY DEF Offsets
  <2>2. i \in 1..(Len(s) + 1) /\ k \in 1..(Len(s) + 1)
    BY <2>1
  <2> QED
    BY <2>1, <2>2, ListIsSeq DEF Offsets
<1>2. off[i] + Len(s[i]) <= Len(flat)
  <2>1. Len(s) + 1 \in 1..(Len(s) + 1) /\ i < Len(s) + 1
    BY <1>1
  <2> QED
    BY <1>1, <2>1, OffsetsGrow
<1>3. i < k => off[i] + Len(s[i]) <= off[k]
  <2>1. k \in 1..(Len(s) + 1)
    BY <1>1
  <2> QED
    BY <2>1, OffsetsGrow
<1>4. k < i => off[k] + Len(s[k]) <= off[i]
  <2>1. i \in 1..(Len(s) + 1)
    BY <1>1
  <2> QED
    BY <2>1, OffsetsGrow
<1>5. j \in Nat /\ m \in Nat /\ j >= 1 /\ m >= 1 /\ j <= Len(s[i]) /\ m <= Len(s[k])
      /\ i \in Nat /\ k \in Nat
  BY <1>1
<1>6. off[i] + j \in DOMAIN flat /\ off[i] + j >= j
  <2> DEFINE o == off[i]
             l == Len(s[i])
             n == Len(flat)
  <2>1. o \in Nat /\ l \in Nat /\ n \in Nat /\ o + l <= n /\ j \in Nat /\ j >= 1 /\ j <= l
    BY <1>1, <1>2, <1>5
  <2> HIDE DEF o, l, n
  <2>2. o + j \in 1..n /\ o + j >= j
    BY ONLY <2>1, SMT
  <2> QED
    BY <1>1, <2>2 DEF o, n
<1>7. CASE i < k
  BY <1>1, <1>3, <1>5, <1>6, <1>7
<1>8. CASE i = k
  BY <1>1, <1>5, <1>6, <1>8
<1>9. CASE k < i
  BY <1>1, <1>4, <1>5, <1>6, <1>9
<1> QED
  BY <1>5, <1>7, <1>8, <1>9
-----------------------------------------------------------------------------
\* Bodies: the methods of a hierarchy, bases first and each class in order.

BodyAt(h, at) ==
  /\ \A m \in Methods(h) :
       at[m] \in DOMAIN Bodies(h) /\ Bodies(h)[at[m]] = h[m[1]].methods[m[2]]
  /\ \A l \in DOMAIN Bodies(h) : \E m \in Methods(h) : at[m] = l
  /\ \A m, o \in Methods(h) :
       at[m] <= at[o] <=> o[1] < m[1] \/ (o[1] = m[1] /\ m[2] <= o[2])

LEMMA MethodPlaces ==
  ASSUME NEW h, IsHierarchy(h), NEW m
  PROVE  m \in Methods(h) <=>
           /\ m = <<m[1], m[2]>> /\ m[1] \in 1..Len(h)
           /\ m[2] \in 1..Len(h[m[1]].methods)
<1>1. DOMAIN h = 1..Len(h) /\ \A i \in 1..Len(h) : DOMAIN h[i].methods = 1..Len(h[i].methods)
  BY ListIsSeq DEF IsHierarchy
<1>2. m \in Methods(h) <=> \E i \in 1..Len(h) : m \in {i} \X (1..Len(h[i].methods))
  BY <1>1 DEF Methods
<1> QED
  BY <1>2

LEMMA BodyPlaces ==
  ASSUME NEW h, IsHierarchy(h)
  PROVE  IsList(Bodies(h)) /\ \E at : BodyAt(h, at)
<1> DEFINE n == Len(h)
           c == [i \in DOMAIN h |-> h[i].methods]
           s == Reverse(c)
           X == UNION {ToSet(h[i].methods) : i \in DOMAIN h}
           b == Bodies(h)
<1>1. n \in Nat /\ DOMAIN h = 1..n /\ \A i \in 1..n : IsList(h[i].methods)
  BY ListIsSeq DEF IsHierarchy
<1>2. c \in Seq(Seq(X)) /\ Len(c) = n /\ \A i \in 1..n : c[i] = h[i].methods
  <2>1. ASSUME NEW i \in 1..n PROVE h[i].methods \in Seq(X)
    <3>1. h[i].methods \in Seq(ToSet(h[i].methods)) /\ ToSet(h[i].methods) \subseteq X
      BY <1>1, ListIsSeq
    <3> HIDE DEF X
    <3> QED
      BY <3>1
  <2> HIDE DEF X, n
  <2> QED
    BY <1>1, <2>1
<1> HIDE DEF c
<1>3. s \in Seq(Seq(X)) /\ Len(s) = n /\ \A i \in 1..n : s[i] = h[(n - i) + 1].methods
  <2>1. s = [i \in 1..n |-> c[(n - i) + 1]]
    BY <1>2 DEF Reverse
  <2>2. \A i \in 1..n : (n - i) + 1 \in 1..n
    BY <1>1
  <2> HIDE DEF s, X, n
  <2> QED
    BY <1>1, <1>2, <2>1, <2>2
<1>4. b = FlattenSeq(s)
  BY DEF Bodies, c
<1> HIDE DEF s, X, b
<1>5. IsList(b)
  BY <1>3, <1>4, Flattened, SeqIsList
<1>6. PICK off : Offsets(s, b, off)
  BY <1>3, <1>4, Flattened
<1> DEFINE at == [m \in Methods(h) |-> off[(n - m[1]) + 1] + m[2]]
<1>7. ASSUME NEW m \in Methods(h)
      PROVE  /\ m[1] \in 1..n /\ (n - m[1]) + 1 \in 1..Len(s)
             /\ s[(n - m[1]) + 1] = h[m[1]].methods
             /\ m[2] \in 1..Len(s[(n - m[1]) + 1])
             /\ at[m] = off[(n - m[1]) + 1] + m[2]
             /\ m[1] \in Nat /\ m[2] \in Nat
  <2>1. m[1] \in 1..n /\ m[2] \in 1..Len(h[m[1]].methods)
    BY MethodPlaces
  <2>2. (n - m[1]) + 1 \in 1..n /\ (n - ((n - m[1]) + 1)) + 1 = m[1]
    BY <1>1, <2>1
  <2>3. s[(n - m[1]) + 1] = h[m[1]].methods
    BY <1>3, <2>2
  <2>4. Len(h[m[1]].methods) \in Nat
    BY <1>1, <2>1, ListIsSeq
  <2>5. at[m] = off[(n - m[1]) + 1] + m[2]
    OBVIOUS
  <2> HIDE DEF at
  <2>6. (n - m[1]) + 1 \in 1..Len(s) /\ m[2] \in 1..Len(s[(n - m[1]) + 1])
    BY <1>3, <2>1, <2>2, <2>3
  <2> HIDE DEF n
  <2>7. m[1] \in Nat /\ m[2] \in Nat
    BY <1>1, <2>1, <2>4
  <2> QED
    BY <2>1, <2>3, <2>5, <2>6, <2>7
<1> HIDE DEF at
<1>8. ASSUME NEW m \in Methods(h)
      PROVE  at[m] \in DOMAIN b /\ b[at[m]] = h[m[1]].methods[m[2]]
  <2> DEFINE i == (n - m[1]) + 1
             j == m[2]
  <2>1. i \in 1..Len(s) /\ j \in 1..Len(s[i]) /\ s[i] = h[m[1]].methods /\ at[m] = off[i] + j
    BY <1>7
  <2> HIDE DEF i, j
  <2>2. off[i] + j \in DOMAIN b /\ b[off[i] + j] = s[i][j]
    BY <1>6, <2>1, OffsetsOrder
  <2> QED
    BY <2>1, <2>2 DEF j
<1>9. ASSUME NEW l \in DOMAIN b PROVE \E m \in Methods(h) : at[m] = l
  <2>1. PICK i \in 1..Len(s) : \E j \in 1..Len(s[i]) : l = off[i] + j
    BY <1>6, OffsetsCover
  <2>2. PICK j \in 1..Len(s[i]) : l = off[i] + j
    BY <2>1
  <2> DEFINE m == <<(n - i) + 1, j>>
  <2>3. (n - i) + 1 \in 1..n /\ (n - ((n - i) + 1)) + 1 = i
    BY <1>1, <1>3
  <2>4. m \in Methods(h)
    <3>1. s[i] = h[(n - i) + 1].methods
      BY <1>3
    <3> QED
      BY <2>3, <3>1, MethodPlaces
  <2>5. at[m] = off[i] + j
    BY <1>7, <2>3, <2>4
  <2> QED
    BY <2>2, <2>4, <2>5
<1>10. ASSUME NEW m \in Methods(h), NEW o \in Methods(h)
       PROVE  at[m] <= at[o] <=> o[1] < m[1] \/ (o[1] = m[1] /\ m[2] <= o[2])
  <2> DEFINE i == (n - m[1]) + 1
             k == (n - o[1]) + 1
  <2>1. /\ i \in 1..Len(s) /\ m[2] \in 1..Len(s[i]) /\ at[m] = off[i] + m[2]
        /\ k \in 1..Len(s) /\ o[2] \in 1..Len(s[k]) /\ at[o] = off[k] + o[2]
    BY <1>7
  <2>2. (i < k <=> o[1] < m[1]) /\ (i = k <=> o[1] = m[1])
    BY <1>1, <1>7
  <2> HIDE DEF i, k
  <2>3. at[m] <= at[o] <=> i < k \/ (i = k /\ m[2] <= o[2])
    BY <1>6, <2>1, OffsetsOrder
  <2> QED
    BY <2>2, <2>3
<1>11. BodyAt(h, at)
  BY <1>8, <1>9, <1>10 DEF BodyAt, b
<1> QED
  BY <1>5, <1>11 DEF b

-----------------------------------------------------------------------------
\* override_map after k methods: one case for each triple, the last one seen.

TripleOf(method) == Triple(RuleFor(method))

Overriding(cases, b, k) ==
  /\ IsList(cases)
  /\ \A x, y \in DOMAIN cases : Triple(cases[x].spec) = Triple(cases[y].spec) => x = y
  /\ \A x \in DOMAIN cases : \E l \in 1..k :
       cases[x] = Case(b[l]) /\ \A m \in 1..k : TripleOf(b[m]) = TripleOf(b[l]) => m <= l
  /\ \A l \in 1..k : \E x \in DOMAIN cases : Triple(cases[x].spec) = TripleOf(b[l])

LEMMA CaseSpec ==
  ASSUME NEW method
  PROVE  Case(method).spec = RuleFor(method) /\ Case(method).expr = method.expr
  BY DEF Case

LEMMA OverrideStep ==
  ASSUME NEW b, NEW k \in Nat, NEW cases, Overriding(cases, b, k)
  PROVE  Overriding(OverrideOne(cases, b[k + 1]), b, k + 1)
<1> DEFINE case == Case(b[k + 1])
           t == TripleOf(b[k + 1])
           same == {i \in DOMAIN cases : Triple(cases[i].spec) = Triple(case.spec)}
           new == OverrideOne(cases, b[k + 1])
<1>1. /\ IsList(cases) /\ Len(cases) \in Nat /\ DOMAIN cases = 1..Len(cases)
      /\ Triple(case.spec) = t
  BY ListIsSeq, CaseSpec DEF Overriding, TripleOf
<1> HIDE DEF case, t
<1>2. new = IF same = {} THEN Append(cases, case)
            ELSE [i \in DOMAIN cases |-> IF i \in same THEN case ELSE cases[i]]
  BY DEF OverrideOne, Override, case
<1>3. \A l \in 1..(k + 1) : l \in 1..k \/ l = k + 1
  OBVIOUS
<1>4. case = Case(b[k + 1]) /\ TripleOf(b[k + 1]) = t /\ k + 1 \in 1..(k + 1)
      /\ \A l \in 1..k : l \in 1..(k + 1) /\ l <= k + 1 /\ l # k + 1
  BY DEF case, t
<1>5. CASE same = {}
  <2>1. /\ IsList(new) /\ DOMAIN new = 1..(Len(cases) + 1) /\ new[Len(cases) + 1] = case
        /\ \A i \in 1..Len(cases) : new[i] = cases[i]
    BY <1>1, <1>2, <1>5, Appended
  <2>2. \A x \in DOMAIN new : x \in DOMAIN cases \/ x = Len(cases) + 1
    BY <1>1, <2>1
  <2>3. \A x \in DOMAIN cases : Triple(cases[x].spec) # t /\ x \in DOMAIN new /\ new[x] = cases[x]
    BY <1>1, <1>5, <2>1
  <2> HIDE DEF new, same
  <2>4. \A x, y \in DOMAIN new : Triple(new[x].spec) = Triple(new[y].spec) => x = y
    BY <1>1, <2>1, <2>2, <2>3 DEF Overriding
  <2>5. ASSUME NEW x \in DOMAIN new
        PROVE  \E l \in 1..(k + 1) : /\ new[x] = Case(b[l])
                 /\ \A m \in 1..(k + 1) : TripleOf(b[m]) = TripleOf(b[l]) => m <= l
    <3>1. CASE x = Len(cases) + 1
      <4>1. \A m \in 1..(k + 1) : m <= k + 1
        BY <1>3, <1>4
      <4> QED
        BY <1>4, <2>1, <3>1, <4>1
    <3>2. CASE x \in DOMAIN cases
      <4>1. PICK l \in 1..k : /\ cases[x] = Case(b[l])
              /\ \A m \in 1..k : TripleOf(b[m]) = TripleOf(b[l]) => m <= l
        BY <3>2 DEF Overriding
      <4>2. TripleOf(b[l]) # t
        BY <2>3, <3>2, <4>1, CaseSpec DEF TripleOf
      <4>3. \A m \in 1..(k + 1) : TripleOf(b[m]) = TripleOf(b[l]) => m <= l
        BY <1>3, <1>4, <4>1, <4>2
      <4> QED
        BY <1>4, <2>3, <3>2, <4>1, <4>3
    <3> QED
      BY <2>2, <3>1, <3>2
  <2>6. \A l \in 1..(k + 1) : \E x \in DOMAIN new : Triple(new[x].spec) = TripleOf(b[l])
    <3>1. Len(cases) + 1 \in DOMAIN new
      BY <1>1, <2>1
    <3>2. \A l \in 1..k : \E x \in DOMAIN cases : Triple(cases[x].spec) = TripleOf(b[l])
      BY DEF Overriding
    <3> QED
      BY <1>1, <1>3, <1>4, <2>1, <2>3, <3>1, <3>2
  <2> QED
    BY <2>1, <2>4, <2>5, <2>6 DEF Overriding, new
<1>6. CASE same # {}
  <2>1. /\ DOMAIN new = DOMAIN cases
        /\ \A i \in DOMAIN cases : new[i] = IF i \in same THEN case ELSE cases[i]
        /\ new = [i \in 1..Len(cases) |-> new[i]]
    BY <1>1, <1>2, <1>6
  <2>2. \A x \in DOMAIN cases : x \in same <=> Triple(cases[x].spec) = t
    BY <1>1
  <2> HIDE DEF new, same
  <2>3. IsList(new)
    <3> DEFINE X == {new[i] : i \in 1..Len(cases)}
    <3>1. new \in Seq(X)
      BY <1>1, <2>1
    <3> QED
      BY <3>1, SeqIsList
  <2>4. \A x \in DOMAIN new : Triple(new[x].spec) = Triple(cases[x].spec)
    BY <1>1, <2>1, <2>2
  <2>5. \A x, y \in DOMAIN new : Triple(new[x].spec) = Triple(new[y].spec) => x = y
    BY <2>1, <2>4 DEF Overriding
  <2>6. ASSUME NEW x \in DOMAIN new
        PROVE  \E l \in 1..(k + 1) : /\ new[x] = Case(b[l])
                 /\ \A m \in 1..(k + 1) : TripleOf(b[m]) = TripleOf(b[l]) => m <= l
    <3>1. CASE x \in same
      <4>1. \A m \in 1..(k + 1) : m <= k + 1
        BY <1>3, <1>4
      <4> QED
        BY <1>4, <2>1, <3>1, <4>1
    <3>2. CASE x \notin same
      <4>1. PICK l \in 1..k : /\ cases[x] = Case(b[l])
              /\ \A m \in 1..k : TripleOf(b[m]) = TripleOf(b[l]) => m <= l
        BY <2>1 DEF Overriding
      <4>2. TripleOf(b[l]) # t
        BY <2>1, <2>2, <3>2, <4>1, CaseSpec DEF TripleOf
      <4>3. \A m \in 1..(k + 1) : TripleOf(b[m]) = TripleOf(b[l]) => m <= l
        BY <1>3, <1>4, <4>1, <4>2
      <4> QED
        BY <1>4, <2>1, <3>2, <4>1, <4>3
    <3> QED
      BY <3>1, <3>2
  <2>7. \A l \in 1..(k + 1) : \E x \in DOMAIN new : Triple(new[x].spec) = TripleOf(b[l])
    <3>1. \A l \in 1..k : \E x \in DOMAIN cases : Triple(cases[x].spec) = TripleOf(b[l])
      BY DEF Overriding
    <3>2. PICK x \in DOMAIN cases : x \in same
      BY <1>6 DEF same
    <3> QED
      BY <1>3, <1>4, <2>1, <2>2, <2>4, <3>1, <3>2
  <2> QED
    BY <2>3, <2>5, <2>6, <2>7 DEF Overriding, new
<1> QED
  BY <1>5, <1>6

LEMMA OverridesLast ==
  ASSUME NEW h, IsHierarchy(h)
  PROVE  Overriding(OverrideMap(h), Bodies(h), Len(Bodies(h)))
<1> DEFINE b == Bodies(h)
<1>1. b \in Seq(ToSet(b)) /\ Len(b) \in Nat
  BY BodyPlaces, ListIsSeq
<1>2. OverrideMap(h) = OverrideAll(b)
  BY DEF OverrideMap, OverrideAll
<1> HIDE DEF b
<1>3. PICK J : /\ J[0] = <<>>
               /\ \A k \in 0..(Len(b) - 1) : J[k + 1] = OverrideOne(J[k], b[k + 1])
               /\ OverrideAll(b) = J[Len(b)]
  BY <1>1, OverridesAreChain
<1> DEFINE N == {k \in Nat : k <= Len(b) => Overriding(J[k], b, k)}
<1>4. 0 \in N
  <2>1. IsList(<<>>) /\ DOMAIN <<>> = {} /\ 1..0 = {}
    BY DEF IsList, ToSet
  <2> QED
    BY <1>3, <2>1 DEF Overriding
<1>5. ASSUME NEW k \in N PROVE k + 1 \in N
  <2> SUFFICES ASSUME k + 1 <= Len(b) PROVE Overriding(J[k + 1], b, k + 1)
    OBVIOUS
  <2>1. k \in Nat /\ k \in 0..(Len(b) - 1) /\ Overriding(J[k], b, k)
    BY <1>1
  <2>2. J[k + 1] = OverrideOne(J[k], b[k + 1])
    BY <1>3, <2>1
  <2> QED
    BY <2>1, <2>2, OverrideStep
<1>6. N = Nat
  <2> HIDE DEF N
  <2>1. N \subseteq Nat
    BY DEF N
  <2> QED
    BY <1>4, <1>5, <2>1, Induction
<1>7. Overriding(J[Len(b)], b, Len(b))
  BY <1>1, <1>6
<1> QED
  BY <1>2, <1>3, <1>7 DEF b
-----------------------------------------------------------------------------
\* The groups after k cases: one rule for each key, with its cases and no other.

OwnCase(case) ==
  [value |-> case.spec.value, default |-> case.spec.default, expr |-> case.expr]

IsRule(rule) ==
  /\ rule = [output |-> rule.output, selector |-> rule.selector, cases |-> rule.cases]
  /\ IsList(rule.cases) /\ rule.cases # <<>>

Grouping(rules, cases, k) ==
  /\ IsList(rules)
  /\ \A x, y \in DOMAIN rules : KeyOf(rules[x]) = KeyOf(rules[y]) => x = y
  /\ \A x \in DOMAIN rules :
       /\ IsRule(rules[x])
       /\ \A c \in ToSet(rules[x].cases) : \E i \in 1..k :
            KeyOf(cases[i].spec) = KeyOf(rules[x]) /\ c = OwnCase(cases[i])
       /\ \A i \in 1..k :
            KeyOf(cases[i].spec) = KeyOf(rules[x]) => OwnCase(cases[i]) \in ToSet(rules[x].cases)
  /\ \A i \in 1..k : \E x \in DOMAIN rules : KeyOf(rules[x]) = KeyOf(cases[i].spec)

LEMMA GroupedRule ==
  ASSUME NEW rule, IsRule(rule), NEW case, NEW new,
         new = [rule EXCEPT !.cases = Append(@, OwnCase(case))]
  PROVE  /\ IsRule(new) /\ KeyOf(new) = KeyOf(rule)
         /\ ToSet(new.cases) = ToSet(rule.cases) \cup {OwnCase(case)}
<1> DEFINE c == Append(rule.cases, OwnCase(case))
<1>1. IsList(c) /\ c # <<>> /\ ToSet(c) = ToSet(rule.cases) \cup {OwnCase(case)}
  BY Appended DEF IsRule
<1>2. new = [output |-> rule.output, selector |-> rule.selector, cases |-> c]
  BY DEF IsRule
<1> HIDE DEF c
<1>3. new.output = rule.output /\ new.selector = rule.selector /\ new.cases = c
  BY <1>2
<1> QED
  BY <1>1, <1>2, <1>3 DEF IsRule, KeyOf

LEMMA FirstOfRule ==
  ASSUME NEW case, NEW new,
         new = [output |-> case.spec.output, selector |-> case.spec.selector,
                cases |-> <<OwnCase(case)>>]
  PROVE  IsRule(new) /\ KeyOf(new) = KeyOf(case.spec) /\ ToSet(new.cases) = {OwnCase(case)}
<1>1. new.output = case.spec.output /\ new.selector = case.spec.selector
      /\ new.cases = <<OwnCase(case)>>
  OBVIOUS
<1>2. <<OwnCase(case)>> \in Seq({OwnCase(case)}) /\ <<OwnCase(case)>> # <<>>
  OBVIOUS
<1>3. ToSet(<<OwnCase(case)>>) = {OwnCase(case)}
  BY DEF ToSet
<1> QED
  BY <1>1, <1>2, <1>3, SeqIsList DEF IsRule, KeyOf

LEMMA GroupStep ==
  ASSUME NEW cases, NEW k \in Nat, NEW rules, Grouping(rules, cases, k)
  PROVE  Grouping(Grouped(rules, cases[k + 1]), cases, k + 1)
<1> DEFINE case == cases[k + 1]
           key == KeyOf(case.spec)
           same == {i \in DOMAIN rules : KeyOf(rules[i]) = key}
           started == [output |-> case.spec.output, selector |-> case.spec.selector,
                       cases |-> <<OwnCase(case)>>]
           Joined(rule) == [rule EXCEPT !.cases = Append(@, OwnCase(case))]
           new == Grouped(rules, case)
<1>1. IsList(rules) /\ Len(rules) \in Nat /\ DOMAIN rules = 1..Len(rules)
  BY ListIsSeq DEF Grouping
<1>2. new = IF same = {} THEN Append(rules, started)
            ELSE [i \in DOMAIN rules |-> IF i \in same THEN Joined(rules[i]) ELSE rules[i]]
  BY DEF Grouped, OwnCase
<1>3. /\ IsRule(started) /\ KeyOf(started) = key /\ ToSet(started.cases) = {OwnCase(case)}
  BY FirstOfRule
<1>4. \A x \in DOMAIN rules :
        /\ IsRule(Joined(rules[x])) /\ KeyOf(Joined(rules[x])) = KeyOf(rules[x])
        /\ ToSet(Joined(rules[x]).cases) = ToSet(rules[x].cases) \cup {OwnCase(case)}
  <2> SUFFICES ASSUME NEW x \in DOMAIN rules
               PROVE  /\ IsRule(Joined(rules[x])) /\ KeyOf(Joined(rules[x])) = KeyOf(rules[x])
                      /\ ToSet(Joined(rules[x]).cases)
                           = ToSet(rules[x].cases) \cup {OwnCase(case)}
    OBVIOUS
  <2>1. IsRule(rules[x])
    BY DEF Grouping
  <2> QED
    BY <2>1, GroupedRule
<1>5. (\A l \in 1..(k + 1) : l \in 1..k \/ l = k + 1) /\ k + 1 \in 1..(k + 1)
      /\ \A l \in 1..k : l \in 1..(k + 1)
  OBVIOUS
<1>6. case = cases[k + 1] /\ KeyOf(cases[k + 1].spec) = key
  OBVIOUS
<1> HIDE DEF case, key, started, Joined
<1>7. CASE same = {}
  <2>1. /\ IsList(new) /\ DOMAIN new = 1..(Len(rules) + 1) /\ new[Len(rules) + 1] = started
        /\ \A i \in 1..Len(rules) : new[i] = rules[i]
    BY <1>1, <1>2, <1>7, Appended
  <2>2. (\A x \in DOMAIN new : x \in DOMAIN rules \/ x = Len(rules) + 1)
        /\ Len(rules) + 1 \in DOMAIN new
    BY <1>1, <2>1
  <2>3. \A x \in DOMAIN rules : KeyOf(rules[x]) # key /\ x \in DOMAIN new /\ new[x] = rules[x]
    BY <1>1, <1>7, <2>1
  <2> HIDE DEF new, same
  <2>4. \A x, y \in DOMAIN new : KeyOf(new[x]) = KeyOf(new[y]) => x = y
    BY <1>3, <2>1, <2>2, <2>3 DEF Grouping
  <2>5. ASSUME NEW x \in DOMAIN new
        PROVE  /\ IsRule(new[x])
               /\ \A c \in ToSet(new[x].cases) : \E i \in 1..(k + 1) :
                    KeyOf(cases[i].spec) = KeyOf(new[x]) /\ c = OwnCase(cases[i])
               /\ \A i \in 1..(k + 1) : KeyOf(cases[i].spec) = KeyOf(new[x])
                    => OwnCase(cases[i]) \in ToSet(new[x].cases)
    <3>1. CASE x = Len(rules) + 1
      <4>1. new[x] = started
        BY <2>1, <3>1
      <4>2. \A i \in 1..k : KeyOf(cases[i].spec) # key
        BY <2>3 DEF Grouping
      <4> QED
        BY <1>3, <1>5, <1>6, <4>1, <4>2
    <3>2. CASE x \in DOMAIN rules
      <4>1. new[x] = rules[x] /\ KeyOf(rules[x]) # key
        BY <2>3, <3>2
      <4>2. /\ IsRule(rules[x])
            /\ \A c \in ToSet(rules[x].cases) : \E i \in 1..k :
                 KeyOf(cases[i].spec) = KeyOf(rules[x]) /\ c = OwnCase(cases[i])
            /\ \A i \in 1..k : KeyOf(cases[i].spec) = KeyOf(rules[x])
                 => OwnCase(cases[i]) \in ToSet(rules[x].cases)
        BY <3>2 DEF Grouping
      <4> QED
        BY <1>5, <1>6, <4>1, <4>2
    <3> QED
      BY <2>2, <3>1, <3>2
  <2>6. \A i \in 1..(k + 1) : \E x \in DOMAIN new : KeyOf(new[x]) = KeyOf(cases[i].spec)
    <3>1. \A i \in 1..k : \E x \in DOMAIN rules : KeyOf(rules[x]) = KeyOf(cases[i].spec)
      BY DEF Grouping
    <3> QED
      BY <1>3, <1>5, <1>6, <2>1, <2>2, <2>3, <3>1
  <2>7. Grouping(new, cases, k + 1)
    BY <2>1, <2>4, <2>5, <2>6 DEF Grouping
  <2> QED
    BY <2>7 DEF new, case
<1>8. CASE same # {}
  <2>1. /\ DOMAIN new = DOMAIN rules
        /\ \A i \in DOMAIN rules : new[i] = IF i \in same THEN Joined(rules[i]) ELSE rules[i]
        /\ new = [i \in 1..Len(rules) |-> new[i]]
    BY <1>1, <1>2, <1>8
  <2>2. \A x \in DOMAIN rules : x \in same <=> KeyOf(rules[x]) = key
    OBVIOUS
  <2>3. PICK place \in DOMAIN rules : KeyOf(rules[place]) = key
    BY <1>8
  <2> HIDE DEF new, same
  <2>4. IsList(new)
    <3> DEFINE X == {new[i] : i \in 1..Len(rules)}
    <3>1. new \in Seq(X)
      BY <1>1, <2>1
    <3> QED
      BY <3>1, SeqIsList
  <2>5. \A x \in DOMAIN rules : KeyOf(new[x]) = KeyOf(rules[x])
    BY <1>4, <2>1
  <2>6. \A x, y \in DOMAIN new : KeyOf(new[x]) = KeyOf(new[y]) => x = y
    BY <2>1, <2>5 DEF Grouping
  <2>7. ASSUME NEW x \in DOMAIN new
        PROVE  /\ IsRule(new[x])
               /\ \A c \in ToSet(new[x].cases) : \E i \in 1..(k + 1) :
                    KeyOf(cases[i].spec) = KeyOf(new[x]) /\ c = OwnCase(cases[i])
               /\ \A i \in 1..(k + 1) : KeyOf(cases[i].spec) = KeyOf(new[x])
                    => OwnCase(cases[i]) \in ToSet(new[x].cases)
    <3>1. /\ IsRule(rules[x])
          /\ \A c \in ToSet(rules[x].cases) : \E i \in 1..k :
               KeyOf(cases[i].spec) = KeyOf(rules[x]) /\ c = OwnCase(cases[i])
          /\ \A i \in 1..k : KeyOf(cases[i].spec) = KeyOf(rules[x])
               => OwnCase(cases[i]) \in ToSet(rules[x].cases)
      BY <2>1 DEF Grouping
    <3>2. KeyOf(new[x]) = KeyOf(rules[x])
      BY <2>1, <2>5
    <3>3. CASE x \in same
      <4>1. /\ KeyOf(rules[x]) = key /\ IsRule(new[x])
            /\ ToSet(new[x].cases) = ToSet(rules[x].cases) \cup {OwnCase(case)}
        BY <1>4, <2>1, <2>2, <3>3
      <4> QED
        BY <1>5, <1>6, <3>1, <3>2, <4>1
    <3>4. CASE x \notin same
      <4>1. KeyOf(rules[x]) # key /\ new[x] = rules[x]
        BY <2>1, <2>2, <3>4
      <4> QED
        BY <1>5, <1>6, <3>1, <3>2, <4>1
    <3> QED
      BY <3>3, <3>4
  <2>8. \A i \in 1..(k + 1) : \E x \in DOMAIN new : KeyOf(new[x]) = KeyOf(cases[i].spec)
    <3>1. \A i \in 1..k : \E x \in DOMAIN rules : KeyOf(rules[x]) = KeyOf(cases[i].spec)
      BY DEF Grouping
    <3> QED
      BY <1>5, <1>6, <2>1, <2>3, <2>5, <3>1
  <2>9. Grouping(new, cases, k + 1)
    BY <2>4, <2>6, <2>7, <2>8 DEF Grouping
  <2> QED
    BY <2>9 DEF new, case
<1> QED
  BY <1>7, <1>8

LEMMA CompiledGroups ==
  ASSUME NEW h, IsHierarchy(h)
  PROVE  Grouping(Compiled(h), OverrideMap(h), Len(OverrideMap(h)))
<1> DEFINE s == OverrideMap(h)
<1>1. s \in Seq(ToSet(s)) /\ Len(s) \in Nat
  BY OverridesLast, ListIsSeq DEF Overriding
<1>2. Compiled(h) = GroupAll(s)
  BY DEF Compiled, GroupAll
<1> HIDE DEF s
<1>3. PICK J : /\ J[0] = <<>>
               /\ \A k \in 0..(Len(s) - 1) : J[k + 1] = Grouped(J[k], s[k + 1])
               /\ GroupAll(s) = J[Len(s)]
  BY <1>1, GroupsAreChain
<1> DEFINE N == {k \in Nat : k <= Len(s) => Grouping(J[k], s, k)}
<1>4. 0 \in N
  <2>1. IsList(<<>>) /\ DOMAIN <<>> = {} /\ 1..0 = {}
    BY DEF IsList, ToSet
  <2> QED
    BY <1>3, <2>1 DEF Grouping
<1>5. ASSUME NEW k \in N PROVE k + 1 \in N
  <2> SUFFICES ASSUME k + 1 <= Len(s) PROVE Grouping(J[k + 1], s, k + 1)
    OBVIOUS
  <2>1. k \in Nat /\ k \in 0..(Len(s) - 1) /\ Grouping(J[k], s, k)
    BY <1>1
  <2>2. J[k + 1] = Grouped(J[k], s[k + 1])
    BY <1>3, <2>1
  <2> QED
    BY <2>1, <2>2, GroupStep
<1>6. N = Nat
  <2> HIDE DEF N
  <2>1. N \subseteq Nat
    BY DEF N
  <2> QED
    BY <1>4, <1>5, <2>1, Induction
<1>7. Grouping(J[Len(s)], s, Len(s))
  BY <1>1, <1>6
<1> QED
  BY <1>2, <1>3, <1>7 DEF s

-----------------------------------------------------------------------------
\* The rules after k explicit ones: the compiled rules, then others of other keys.

Merging(rules, base, s, k) ==
  /\ IsList(rules) /\ Len(base) <= Len(rules)
  /\ \A x \in 1..Len(base) : rules[x] = base[x]
  /\ \A x \in (Len(base) + 1)..Len(rules) :
       /\ \E l \in 1..k : rules[x] = s[l]
       /\ \A y \in 1..Len(base) : KeyOf(rules[x]) # KeyOf(base[y])

LEMMA MergeStep ==
  ASSUME NEW base, IsList(base), NEW s, NEW k \in Nat, NEW rules, Merging(rules, base, s, k)
  PROVE  Merging(Merged(rules, s[k + 1]), base, s, k + 1)
<1> DEFINE rule == s[k + 1]
           new == Merged(rules, rule)
<1>1. /\ IsList(rules) /\ Len(rules) \in Nat /\ DOMAIN rules = 1..Len(rules)
      /\ Len(base) \in Nat /\ Len(base) <= Len(rules)
  BY ListIsSeq DEF Merging
<1>2. k + 1 \in 1..(k + 1) /\ \A l \in 1..k : l \in 1..(k + 1)
  OBVIOUS
<1>3. CASE KeyOf(rule) \in {KeyOf(rules[i]) : i \in DOMAIN rules}
  <2>1. new = rules
    BY <1>3 DEF Merged
  <2> HIDE DEF new
  <2> QED
    BY <1>2, <2>1 DEF Merging, new
<1>4. CASE KeyOf(rule) \notin {KeyOf(rules[i]) : i \in DOMAIN rules}
  <2>1. new = Append(rules, rule)
    BY <1>4 DEF Merged
  <2> HIDE DEF new
  <2>2. /\ IsList(new) /\ Len(new) = Len(rules) + 1 /\ new[Len(rules) + 1] = rule
        /\ \A i \in 1..Len(rules) : new[i] = rules[i]
    BY <1>1, <2>1, Appended
  <2>3. \A y \in 1..Len(base) : y \in DOMAIN rules /\ rules[y] = base[y] /\ new[y] = base[y]
    BY <1>1, <2>2 DEF Merging
  <2>4. ASSUME NEW x \in (Len(base) + 1)..Len(new)
        PROVE  /\ \E l \in 1..(k + 1) : new[x] = s[l]
               /\ \A y \in 1..Len(base) : KeyOf(new[x]) # KeyOf(base[y])
    <3>1. CASE x = Len(rules) + 1
      BY <1>2, <1>4, <2>2, <2>3, <3>1
    <3>2. CASE x # Len(rules) + 1
      <4>1. x \in (Len(base) + 1)..Len(rules) /\ x \in 1..Len(rules)
        BY <1>1, <2>2, <3>2
      <4> QED
        BY <1>2, <2>2, <4>1 DEF Merging
    <3> QED
      BY <3>1, <3>2
  <2>5. Len(base) <= Len(new)
    BY <1>1, <2>2
  <2>6. Merging(new, base, s, k + 1)
    BY <2>2, <2>3, <2>4, <2>5 DEF Merging
  <2> QED
    BY <2>6 DEF new
<1> QED
  BY <1>3, <1>4

ExplicitRules(h) == UNION {ToSet(h[i].rules) : i \in DOMAIN h}

LEMMA CollectedRules ==
  ASSUME NEW h, IsHierarchy(h)
  PROVE  LET all == CollectRulesFromMro(h)
             own == Compiled(h)
         IN  /\ IsList(all) /\ IsList(own) /\ Len(own) <= Len(all)
             /\ \A x \in 1..Len(own) : all[x] = own[x]
             /\ \A x \in (Len(own) + 1)..Len(all) :
                  /\ all[x] \in ExplicitRules(h)
                  /\ \A y \in 1..Len(own) : KeyOf(all[x]) # KeyOf(own[y])
<1> DEFINE n == Len(h)
           c == [i \in DOMAIN h |-> h[i].rules]
           r == Reverse(c)
           X == ExplicitRules(h)
           s == FlattenSeq(r)
           base == Compiled(h)
<1>1. n \in Nat /\ DOMAIN h = 1..n /\ \A i \in 1..n : IsList(h[i].rules)
  BY ListIsSeq DEF IsHierarchy
<1>2. c \in Seq(Seq(X)) /\ Len(c) = n
  <2>1. ASSUME NEW i \in 1..n PROVE h[i].rules \in Seq(X)
    <3>1. h[i].rules \in Seq(ToSet(h[i].rules)) /\ ToSet(h[i].rules) \subseteq X
      BY <1>1, ListIsSeq DEF ExplicitRules
    <3> HIDE DEF X
    <3> QED
      BY <3>1
  <2> HIDE DEF X, n
  <2> QED
    BY <1>1, <2>1
<1> HIDE DEF c, X
<1>3. r \in Seq(Seq(X))
  <2>1. r = [i \in 1..n |-> c[(n - i) + 1]]
    BY <1>2 DEF Reverse
  <2>2. \A i \in 1..n : (n - i) + 1 \in 1..n
    BY <1>1
  <2> HIDE DEF r, n
  <2> QED
    BY <1>1, <1>2, <2>1, <2>2
<1>4. s \in Seq(X)
  <2> HIDE DEF r
  <2> QED
    BY <1>3, Flattened
<1>5. CollectRulesFromMro(h) = MergeAll(base, s)
  BY DEF CollectRulesFromMro, MergeAll, c
<1>6. IsList(base) /\ Len(base) \in Nat
  BY CompiledGroups, ListIsSeq DEF Grouping
<1> HIDE DEF s, base
<1>7. PICK J : /\ J[0] = base
               /\ \A k \in 0..(Len(s) - 1) : J[k + 1] = Merged(J[k], s[k + 1])
               /\ MergeAll(base, s) = J[Len(s)]
  BY <1>4, MergesAreChain
<1> DEFINE N == {k \in Nat : k <= Len(s) => Merging(J[k], base, s, k)}
<1>8. Len(s) \in Nat /\ DOMAIN s = 1..Len(s)
  BY <1>4
<1>9. 0 \in N
  <2>1. (Len(base) + 1)..Len(base) = {}
    BY <1>6
  <2> QED
    BY <1>6, <1>7, <2>1 DEF Merging
<1>10. ASSUME NEW k \in N PROVE k + 1 \in N
  <2> SUFFICES ASSUME k + 1 <= Len(s) PROVE Merging(J[k + 1], base, s, k + 1)
    OBVIOUS
  <2>1. k \in Nat /\ k \in 0..(Len(s) - 1) /\ Merging(J[k], base, s, k)
    BY <1>8
  <2>2. J[k + 1] = Merged(J[k], s[k + 1])
    BY <1>7, <2>1
  <2> QED
    BY <1>6, <2>1, <2>2, MergeStep
<1>11. N = Nat
  <2> HIDE DEF N
  <2>1. N \subseteq Nat
    BY DEF N
  <2> QED
    BY <1>9, <1>10, <2>1, Induction
<1>12. Merging(CollectRulesFromMro(h), base, s, Len(s))
  BY <1>5, <1>7, <1>8, <1>11
<1>13. \A l \in 1..Len(s) : s[l] \in ExplicitRules(h)
  BY <1>4, <1>8 DEF X
<1> QED
  BY <1>6, <1>12, <1>13 DEF Merging, base
-----------------------------------------------------------------------------
\* What a compiled rule says of a selector value is what the classes say.

\* case applies to a selector value, as a default or as a match.
Fits(case, default, value) ==
  case.default = default /\ (default \/ (case.value = value /\ value # Null))

\* What the rule compiled for a column knows of the methods that decide it.
LEMMA CompiledCases ==
  ASSUME NEW h, IsHierarchy(h), ~Ambiguous(h), NEW x \in DOMAIN Compiled(h)
  PROVE  LET rule == Compiled(h)[x]
             MethodAt(m) == h[m[1]].methods[m[2]]
         IN  \E at :
               /\ BodyAt(h, at)
               /\ \A c \in ToSet(rule.cases) : \E m \in Methods(h) :
                    /\ c = OwnCase(Case(MethodAt(m)))
                    /\ RuleFor(MethodAt(m)).output = rule.output
                    /\ RuleFor(MethodAt(m)).selector = rule.selector
                    /\ \A o \in Methods(h) :
                         TripleOf(MethodAt(o)) = TripleOf(MethodAt(m)) => at[o] <= at[m]
               /\ \A m \in Methods(h) : RuleFor(MethodAt(m)).output = rule.output =>
                    /\ RuleFor(MethodAt(m)).selector = rule.selector
                    /\ \E o \in Methods(h) :
                         /\ TripleOf(MethodAt(o)) = TripleOf(MethodAt(m))
                         /\ OwnCase(Case(MethodAt(o))) \in ToSet(rule.cases)
<1> DEFINE rule == Compiled(h)[x]
           MethodAt(m) == h[m[1]].methods[m[2]]
           b == Bodies(h)
           cases == OverrideMap(h)
<1>1. PICK at : BodyAt(h, at)
  BY BodyPlaces
<1>2. IsList(b) /\ DOMAIN b = 1..Len(b) /\ Len(b) \in Nat
  BY BodyPlaces, ListIsSeq
<1>3. Overriding(cases, b, Len(b)) /\ DOMAIN cases = 1..Len(cases) /\ Len(cases) \in Nat
  BY OverridesLast, ListIsSeq DEF Overriding
<1>4. Grouping(Compiled(h), cases, Len(cases))
  BY CompiledGroups
<1>5. \A i, j \in DOMAIN cases :
        cases[i].spec.output = cases[j].spec.output
          => cases[i].spec.selector = cases[j].spec.selector
  BY DEF Ambiguous
<1>6. IsRule(rule) /\ rule.cases # <<>>
  BY <1>4 DEF Grouping, IsRule
<1>7. /\ \A c \in ToSet(rule.cases) : \E i \in DOMAIN cases :
             KeyOf(cases[i].spec) = KeyOf(rule) /\ c = OwnCase(cases[i])
      /\ \A i \in DOMAIN cases : KeyOf(cases[i].spec) = KeyOf(rule)
             => OwnCase(cases[i]) \in ToSet(rule.cases)
  <2> DEFINE rules == Compiled(h)
             n == Len(cases)
  <2>1. Grouping(rules, cases, n) /\ x \in DOMAIN rules /\ DOMAIN cases = 1..n
    BY <1>3, <1>4
  <2> HIDE DEF rules, cases, n
  <2>2. /\ \A c \in ToSet(rules[x].cases) : \E i \in 1..n :
             KeyOf(cases[i].spec) = KeyOf(rules[x]) /\ c = OwnCase(cases[i])
        /\ \A i \in 1..n : KeyOf(cases[i].spec) = KeyOf(rules[x])
             => OwnCase(cases[i]) \in ToSet(rules[x].cases)
    BY ONLY <2>1, Zenon DEF Grouping
  <2> QED
    BY <2>1, <2>2 DEF rules
<1>9. \A m \in Methods(h) : at[m] \in 1..Len(b) /\ b[at[m]] = MethodAt(m)
  BY <1>1, <1>2 DEF BodyAt
<1>10. \A l \in 1..Len(b) : \E m \in Methods(h) : at[m] = l
  BY <1>1, <1>2 DEF BodyAt
<1>11. \A i \in DOMAIN cases : \E m \in Methods(h) :
         /\ cases[i] = Case(MethodAt(m))
         /\ \A o \in Methods(h) :
              TripleOf(MethodAt(o)) = TripleOf(MethodAt(m)) => at[o] <= at[m]
  <2> SUFFICES ASSUME NEW i \in DOMAIN cases
               PROVE  \E m \in Methods(h) :
                        /\ cases[i] = Case(MethodAt(m))
                        /\ \A o \in Methods(h) :
                             TripleOf(MethodAt(o)) = TripleOf(MethodAt(m)) => at[o] <= at[m]
    OBVIOUS
  <2>1. PICK l \in 1..Len(b) :
          /\ cases[i] = Case(b[l])
          /\ \A k \in 1..Len(b) : TripleOf(b[k]) = TripleOf(b[l]) => k <= l
    BY <1>3 DEF Overriding
  <2>2. PICK m \in Methods(h) : at[m] = l
    BY <1>10
  <2> HIDE DEF MethodAt, b, cases
  <2> QED
    BY <1>9, <2>1, <2>2
<1>12. \A m \in Methods(h) : \E i \in DOMAIN cases :
         Triple(cases[i].spec) = TripleOf(MethodAt(m))
  <2>1. \A l \in 1..Len(b) : \E i \in DOMAIN cases :
          Triple(cases[i].spec) = TripleOf(b[l])
    BY <1>3 DEF Overriding
  <2> HIDE DEF MethodAt, b, cases
  <2> QED
    BY <1>9, <2>1
<1>13. \A i \in DOMAIN cases :
         KeyOf(cases[i].spec) = KeyOf(rule) <=>
           cases[i].spec.output = rule.output /\ cases[i].spec.selector = rule.selector
  BY DEF KeyOf
<1>14. \A m : Case(MethodAt(m)).spec = RuleFor(MethodAt(m))
  BY CaseSpec
<1>15. PICK d \in DOMAIN cases : KeyOf(cases[d].spec) = KeyOf(rule)
  <2>1. DOMAIN rule.cases # {}
    <3>1. IsList(rule.cases) /\ rule.cases # <<>>
      BY <1>6 DEF IsRule
    <3> DEFINE c == rule.cases
    <3>2. c \in Seq(ToSet(c)) /\ c # <<>>
      BY <3>1, ListIsSeq
    <3> HIDE DEF c
    <3>3. DOMAIN c # {}
      BY <3>2
    <3> QED
      BY <3>3 DEF c
  <2>2. \E c : c \in ToSet(rule.cases)
    BY <2>1 DEF ToSet
  <2> QED
    BY <1>7, <2>2
<1> HIDE DEF MethodAt, b, cases, rule
<1>16. \A c \in ToSet(rule.cases) : \E m \in Methods(h) :
         /\ c = OwnCase(Case(MethodAt(m)))
         /\ RuleFor(MethodAt(m)).output = rule.output
         /\ RuleFor(MethodAt(m)).selector = rule.selector
         /\ \A o \in Methods(h) :
              TripleOf(MethodAt(o)) = TripleOf(MethodAt(m)) => at[o] <= at[m]
  <2> SUFFICES ASSUME NEW c \in ToSet(rule.cases)
               PROVE  \E m \in Methods(h) :
                        /\ c = OwnCase(Case(MethodAt(m)))
                        /\ RuleFor(MethodAt(m)).output = rule.output
                        /\ RuleFor(MethodAt(m)).selector = rule.selector
                        /\ \A o \in Methods(h) :
                             TripleOf(MethodAt(o)) = TripleOf(MethodAt(m)) => at[o] <= at[m]
    OBVIOUS
  <2>1. PICK i \in DOMAIN cases : KeyOf(cases[i].spec) = KeyOf(rule) /\ c = OwnCase(cases[i])
    BY <1>7
  <2>2. PICK m \in Methods(h) :
          /\ cases[i] = Case(MethodAt(m))
          /\ \A o \in Methods(h) :
               TripleOf(MethodAt(o)) = TripleOf(MethodAt(m)) => at[o] <= at[m]
    BY <1>11
  <2> QED
    BY <1>13, <1>14, <2>1, <2>2
<1>17. ASSUME NEW m \in Methods(h), RuleFor(MethodAt(m)).output = rule.output
       PROVE  /\ RuleFor(MethodAt(m)).selector = rule.selector
              /\ \E o \in Methods(h) :
                   /\ TripleOf(MethodAt(o)) = TripleOf(MethodAt(m))
                   /\ OwnCase(Case(MethodAt(o))) \in ToSet(rule.cases)
  <2>1. PICK i \in DOMAIN cases : Triple(cases[i].spec) = TripleOf(MethodAt(m))
    BY <1>12
  <2>2. /\ cases[i].spec.output = rule.output
        /\ cases[i].spec.selector = RuleFor(MethodAt(m)).selector
    BY <1>17, <2>1 DEF Triple, TripleOf
  <2>3. cases[i].spec.selector = rule.selector
    BY <1>5, <1>13, <1>15, <2>2
  <2>4. OwnCase(cases[i]) \in ToSet(rule.cases)
    BY <1>7, <1>13, <2>2, <2>3
  <2>5. PICK o \in Methods(h) : cases[i] = Case(MethodAt(o))
    BY <1>11
  <2>6. TripleOf(MethodAt(o)) = TripleOf(MethodAt(m))
    BY <1>14, <2>1, <2>5 DEF TripleOf
  <2> QED
    BY <2>2, <2>3, <2>4, <2>5, <2>6
<1> QED
  BY <1>1, <1>16, <1>17 DEF rule, MethodAt

\* The method of a triple with no marker for a value is known by its default
\* flag and its value.
LEMMA TriplesTell ==
  ASSUME NEW a, NEW b, a.default \in BOOLEAN, b.default \in BOOLEAN,
         a.value # "__default__", b.value # "__default__"
  PROVE  Triple(a) = Triple(b) <=>
           /\ a.output = b.output /\ a.selector = b.selector /\ a.default = b.default
           /\ a.default \/ a.value = b.value
<1>1. Normalized(a) = Normalized(b) <=> a.default = b.default /\ (a.default \/ a.value = b.value)
  BY DEF Normalized
<1> QED
  BY <1>1 DEF Triple

LEMMA FittingIsNearest ==
  ASSUME NEW h, IsHierarchy(h), ~Ambiguous(h), NEW x \in DOMAIN Compiled(h),
         NEW default \in BOOLEAN, NEW value
  PROVE  LET rule == Compiled(h)[x] IN
         /\ \A c \in ToSet(rule.cases) : Fits(c, default, value) =>
              Nearest(h, rule.output, default, value) = {c.expr}
         /\ (\A c \in ToSet(rule.cases) : ~Fits(c, default, value)) =>
              Nearest(h, rule.output, default, value) = {}
<1> DEFINE rule == Compiled(h)[x]
           MethodAt(m) == h[m[1]].methods[m[2]]
           D == Decides(h, rule.output, default, value)
           SpecAt(m) == RuleFor(MethodAt(m))
           Near(m) == \A o \in D : m[1] < o[1] \/ (m[1] = o[1] /\ m[2] >= o[2])
<1>1. PICK at :
        /\ BodyAt(h, at)
        /\ \A c \in ToSet(rule.cases) : \E m \in Methods(h) :
             /\ c = OwnCase(Case(MethodAt(m)))
             /\ SpecAt(m).output = rule.output /\ SpecAt(m).selector = rule.selector
             /\ \A o \in Methods(h) :
                  TripleOf(MethodAt(o)) = TripleOf(MethodAt(m)) => at[o] <= at[m]
        /\ \A m \in Methods(h) : SpecAt(m).output = rule.output =>
             /\ SpecAt(m).selector = rule.selector
             /\ \E o \in Methods(h) :
                  /\ TripleOf(MethodAt(o)) = TripleOf(MethodAt(m))
                  /\ OwnCase(Case(MethodAt(o))) \in ToSet(rule.cases)
  BY CompiledCases
<1>2. \A m \in Methods(h) : SpecAt(m).default \in BOOLEAN /\ SpecAt(m).value # "__default__"
  <2> SUFFICES ASSUME NEW m \in Methods(h)
               PROVE  SpecAt(m).default \in BOOLEAN /\ SpecAt(m).value # "__default__"
    OBVIOUS
  <2>1. m[1] \in DOMAIN h /\ m[2] \in DOMAIN h[m[1]].methods
    <3>1. m[1] \in 1..Len(h) /\ m[2] \in 1..Len(h[m[1]].methods)
      BY MethodPlaces
    <3> QED
      BY <3>1, ListIsSeq DEF IsHierarchy
  <2> QED
    BY <2>1 DEF IsHierarchy, RuleFor
<1>3. \A m : m \in D <=>
        /\ m \in Methods(h) /\ SpecAt(m).output = rule.output /\ SpecAt(m).default = default
        /\ default \/ (SpecAt(m).value = value /\ value # Null)
  BY DEF Decides
<1>4. Nearest(h, rule.output, default, value) =
        {MethodAt(m).expr : m \in {m \in D : Near(m)}}
  BY DEF Nearest
<1>5. \A m : /\ OwnCase(Case(MethodAt(m))).expr = MethodAt(m).expr
             /\ OwnCase(Case(MethodAt(m))).default = SpecAt(m).default
             /\ OwnCase(Case(MethodAt(m))).value = SpecAt(m).value
  BY CaseSpec DEF OwnCase
<1>6. \A m, o \in Methods(h) : at[m] <= at[o] <=> o[1] < m[1] \/ (o[1] = m[1] /\ m[2] <= o[2])
  BY <1>1 DEF BodyAt
<1>7. \A m \in Methods(h) : m = <<m[1], m[2]>> /\ m[1] \in Nat /\ m[2] \in Nat
  <2> SUFFICES ASSUME NEW m \in Methods(h)
               PROVE  m = <<m[1], m[2]>> /\ m[1] \in Nat /\ m[2] \in Nat
    OBVIOUS
  <2>1. m = <<m[1], m[2]>> /\ m[1] \in 1..Len(h) /\ m[2] \in 1..Len(h[m[1]].methods)
    BY MethodPlaces
  <2>2. Len(h) \in Nat /\ Len(h[m[1]].methods) \in Nat
    BY <2>1, ListIsSeq DEF IsHierarchy
  <2> QED
    BY <2>1, <2>2
<1> HIDE DEF rule, MethodAt, D, Near
<1>8. ASSUME NEW c \in ToSet(rule.cases), Fits(c, default, value)
      PROVE  Nearest(h, rule.output, default, value) = {c.expr}
  <2>1. PICK m \in Methods(h) :
          /\ c = OwnCase(Case(MethodAt(m)))
          /\ SpecAt(m).output = rule.output /\ SpecAt(m).selector = rule.selector
          /\ \A o \in Methods(h) :
               TripleOf(MethodAt(o)) = TripleOf(MethodAt(m)) => at[o] <= at[m]
    BY <1>1
  <2>2. m \in D
    BY <1>3, <1>5, <1>8, <2>1 DEF Fits
  <2>3. ASSUME NEW o \in D PROVE at[o] <= at[m] /\ o \in Methods(h)
    <3>1. /\ o \in Methods(h) /\ SpecAt(o).output = rule.output
          /\ SpecAt(o).default = default
          /\ default \/ (SpecAt(o).value = value /\ value # Null)
      BY <1>3
    <3>2. SpecAt(o).selector = rule.selector
      BY <1>1, <3>1
    <3>3. SpecAt(m).default = default /\ (default \/ SpecAt(m).value = value)
      BY <1>3, <2>2
    <3>4. TripleOf(MethodAt(o)) = TripleOf(MethodAt(m))
      <4>1. Triple(SpecAt(o)) = Triple(SpecAt(m))
        BY <1>2, <2>1, <3>1, <3>2, <3>3, TriplesTell
      <4> QED
        BY <4>1 DEF TripleOf
    <3> QED
      BY <2>1, <3>1, <3>4
  <2>4. Near(m)
    BY <1>6, <2>3 DEF Near
  <2>5. ASSUME NEW o \in D, Near(o) PROVE o = m
    <3>1. m[1] < o[1] \/ (m[1] = o[1] /\ m[2] >= o[2])
      BY <2>4 DEF Near
    <3>2. o[1] < m[1] \/ (o[1] = m[1] /\ o[2] >= m[2])
      BY <2>2, <2>5 DEF Near
    <3>3. o \in Methods(h)
      BY <1>3
    <3>4. m[1] = o[1] /\ m[2] = o[2]
      BY <1>7, <3>1, <3>2, <3>3
    <3> QED
      BY <1>7, <3>3, <3>4
  <2>6. {MethodAt(o).expr : o \in {o \in D : Near(o)}} = {MethodAt(m).expr}
    BY <2>2, <2>4, <2>5
  <2> QED
    BY <1>4, <1>5, <2>1, <2>6
<1>9. ASSUME \A c \in ToSet(rule.cases) : ~Fits(c, default, value)
      PROVE  Nearest(h, rule.output, default, value) = {}
  <2>1. ASSUME NEW m \in D PROVE FALSE
    <3>1. m \in Methods(h) /\ SpecAt(m).output = rule.output /\ SpecAt(m).default = default
          /\ (default \/ (SpecAt(m).value = value /\ value # Null))
      BY <1>3
    <3>2. PICK o \in Methods(h) :
            /\ TripleOf(MethodAt(o)) = TripleOf(MethodAt(m))
            /\ OwnCase(Case(MethodAt(o))) \in ToSet(rule.cases)
      BY <1>1, <3>1
    <3>3. Triple(SpecAt(o)) = Triple(SpecAt(m))
      BY <3>2 DEF TripleOf
    <3>4. SpecAt(o).default = SpecAt(m).default
          /\ (SpecAt(o).default \/ SpecAt(o).value = SpecAt(m).value)
      BY <1>2, <3>1, <3>2, <3>3, TriplesTell
    <3>5. Fits(OwnCase(Case(MethodAt(o))), default, value)
      BY <1>5, <3>1, <3>4 DEF Fits
    <3> QED
      BY <1>9, <3>2, <3>5
  <2> QED
    BY <1>4, <2>1
<1> QED
  BY <1>8, <1>9 DEF rule
-----------------------------------------------------------------------------
\* The case a row takes.

LEMMA SelectedFits ==
  ASSUME NEW rule, IsList(rule.cases), NEW value
  PROVE  /\ Matching(rule, value) = 0
              /\ \A c \in ToSet(rule.cases) : c.default \/ value = Null \/ c.value # value
         \/ /\ Matching(rule, value) \in DOMAIN rule.cases /\ Matching(rule, value) # 0
            /\ ~rule.cases[Matching(rule, value)].default /\ value # Null
            /\ rule.cases[Matching(rule, value)].value = value
<1> DEFINE cases == rule.cases
           I == {i \in 1..Len(cases) : ~cases[i].default /\ value # Null /\ cases[i].value = value}
<1>1. Len(cases) \in Nat /\ DOMAIN cases = 1..Len(cases)
  BY ListIsSeq
<1>2. Matching(rule, value) = IF I # {} THEN Min(I) ELSE 0
  BY DEF Matching, SelectInSeq
<1>3. CASE I = {}
  BY <1>1, <1>2, <1>3 DEF ToSet
<1>4. CASE I # {}
  <2>1. I \subseteq Nat
    BY <1>1
  <2>2. Min(I) \in I
    <3> HIDE DEF I
    <3> QED
      BY <1>4, <2>1, LeastExists
  <2> QED
    BY <1>1, <1>2, <1>4, <2>2
<1> QED
  BY <1>3, <1>4

LEMMA DefaultFits ==
  ASSUME NEW rule, IsList(rule.cases)
  PROVE  \/ FirstDefault(rule) = 0 /\ \A c \in ToSet(rule.cases) : ~c.default
         \/ /\ FirstDefault(rule) \in DOMAIN rule.cases /\ FirstDefault(rule) # 0
            /\ rule.cases[FirstDefault(rule)].default
<1> DEFINE cases == rule.cases
           I == {i \in 1..Len(cases) : cases[i].default}
<1>1. Len(cases) \in Nat /\ DOMAIN cases = 1..Len(cases)
  BY ListIsSeq
<1>2. FirstDefault(rule) = IF I # {} THEN Min(I) ELSE 0
  BY DEF FirstDefault, SelectInSeq
<1>3. CASE I = {}
  BY <1>1, <1>2, <1>3 DEF ToSet
<1>4. CASE I # {}
  <2>1. I \subseteq Nat
    BY <1>1
  <2>2. Min(I) \in I
    <3> HIDE DEF I
    <3> QED
      BY <1>4, <2>1, LeastExists
  <2> QED
    BY <1>1, <1>2, <1>4, <2>2
<1> QED
  BY <1>3, <1>4

\* The cases of a compiled rule are marked as defaults or not.
LEMMA CompiledRule ==
  ASSUME NEW h, IsHierarchy(h), NEW x \in DOMAIN Compiled(h)
  PROVE  /\ IsRule(Compiled(h)[x])
         /\ ~Ambiguous(h) => \A c \in ToSet(Compiled(h)[x].cases) : c.default \in BOOLEAN
<1>1. IsRule(Compiled(h)[x])
  BY CompiledGroups DEF Grouping
<1>2. ASSUME ~Ambiguous(h), NEW c \in ToSet(Compiled(h)[x].cases)
      PROVE  c.default \in BOOLEAN
  <2>1. PICK m \in Methods(h) : c = OwnCase(Case(h[m[1]].methods[m[2]]))
    BY <1>2, CompiledCases
  <2>2. m[1] \in DOMAIN h /\ m[2] \in DOMAIN h[m[1]].methods
    <3>1. m[1] \in 1..Len(h) /\ m[2] \in 1..Len(h[m[1]].methods)
      BY MethodPlaces
    <3> QED
      BY <3>1, ListIsSeq DEF IsHierarchy
  <2>3. c.default = RuleFor(h[m[1]].methods[m[2]]).default
    BY <2>1, CaseSpec DEF OwnCase
  <2> QED
    BY <2>2, <2>3 DEF IsHierarchy, RuleFor
<1> QED
  BY <1>1, <1>2

LEMMA TakenIsMostSpecific ==
  ASSUME NEW h, IsHierarchy(h), ~Ambiguous(h), NEW x \in DOMAIN Compiled(h), NEW value
  PROVE  LET rule == Compiled(h)[x]
             i == Taken(rule, value)
         IN  /\ i = 0 => MostSpecific(h, rule.output, value) = {}
             /\ i # 0 => /\ i \in DOMAIN rule.cases
                         /\ MostSpecific(h, rule.output, value) = {rule.cases[i].expr}
<1> DEFINE rule == Compiled(h)[x]
           match == Matching(rule, value)
           other == FirstDefault(rule)
<1>1. IsList(rule.cases) /\ \A c \in ToSet(rule.cases) : c.default \in BOOLEAN
  BY CompiledRule DEF IsRule
<1>2. \A i \in DOMAIN rule.cases : rule.cases[i] \in ToSet(rule.cases)
  BY DEF ToSet
<1>3. /\ \A c \in ToSet(rule.cases) : Fits(c, FALSE, value) =>
           Nearest(h, rule.output, FALSE, value) = {c.expr}
      /\ (\A c \in ToSet(rule.cases) : ~Fits(c, FALSE, value)) =>
           Nearest(h, rule.output, FALSE, value) = {}
  BY FittingIsNearest
<1>4. /\ \A c \in ToSet(rule.cases) : Fits(c, TRUE, value) =>
           Nearest(h, rule.output, TRUE, value) = {c.expr}
      /\ (\A c \in ToSet(rule.cases) : ~Fits(c, TRUE, value)) =>
           Nearest(h, rule.output, TRUE, value) = {}
  BY FittingIsNearest
<1>5. Taken(rule, value) = IF match # 0 THEN match ELSE other
  BY DEF Taken
<1>6. MostSpecific(h, rule.output, value) =
        IF Nearest(h, rule.output, FALSE, value) # {} THEN Nearest(h, rule.output, FALSE, value)
        ELSE Nearest(h, rule.output, TRUE, value)
  BY DEF MostSpecific
<1>7. \/ match = 0 /\ \A c \in ToSet(rule.cases) : c.default \/ value = Null \/ c.value # value
      \/ /\ match \in DOMAIN rule.cases /\ match # 0
         /\ ~rule.cases[match].default /\ value # Null /\ rule.cases[match].value = value
  BY <1>1, SelectedFits
<1>8. \/ other = 0 /\ \A c \in ToSet(rule.cases) : ~c.default
      \/ other \in DOMAIN rule.cases /\ other # 0 /\ rule.cases[other].default
  BY <1>1, DefaultFits
<1> HIDE DEF rule, match, other
<1>9. CASE match # 0
  <2>1. Fits(rule.cases[match], FALSE, value) /\ rule.cases[match] \in ToSet(rule.cases)
    BY <1>1, <1>2, <1>7, <1>9 DEF Fits
  <2>2. Nearest(h, rule.output, FALSE, value) = {rule.cases[match].expr}
    BY <1>3, <2>1
  <2> QED
    BY <1>5, <1>6, <1>7, <1>9, <2>2 DEF rule, match
<1>10. CASE match = 0
  <2>1. \A c \in ToSet(rule.cases) : ~Fits(c, FALSE, value)
    BY <1>1, <1>7, <1>10 DEF Fits
  <2>2. MostSpecific(h, rule.output, value) = Nearest(h, rule.output, TRUE, value)
    BY <1>3, <1>6, <2>1
  <2>3. CASE other = 0
    <3>1. \A c \in ToSet(rule.cases) : ~Fits(c, TRUE, value)
      BY <1>1, <1>8, <2>3 DEF Fits
    <3>2. MostSpecific(h, rule.output, value) = {}
      BY <1>4, <2>2, <3>1
    <3> QED
      BY <1>5, <1>10, <2>3, <3>2 DEF rule
  <2>4. CASE other # 0
    <3>1. Fits(rule.cases[other], TRUE, value) /\ rule.cases[other] \in ToSet(rule.cases)
      BY <1>1, <1>2, <1>8, <2>4 DEF Fits
    <3>2. MostSpecific(h, rule.output, value) = {rule.cases[other].expr}
      BY <1>4, <2>2, <3>1
    <3> QED
      BY <1>5, <1>8, <1>10, <2>4, <3>2 DEF rule, other
  <2> QED
    BY <2>3, <2>4
<1> QED
  BY <1>9, <1>10

\* What a rule computes depends on the columns it reads alone: a selector it
\* does not read decides nothing.
LEMMA ReadsDecide ==
  ASSUME NEW rule, IsList(rule.cases), NEW v, NEW w,
         rule.selector \in ReadBy(rule) => v = w
  PROVE  Taken(rule, v) = Taken(rule, w)
<1>1. CASE \E c \in ToSet(rule.cases) : ~c.default
  <2>1. rule.selector \in ReadBy(rule)
    BY <1>1 DEF ReadBy
  <2> QED
    BY <2>1
<1>2. CASE \A c \in ToSet(rule.cases) : c.default
  <2>1. \A i \in DOMAIN rule.cases : rule.cases[i] \in ToSet(rule.cases)
    BY DEF ToSet
  <2>2. Matching(rule, v) = 0 /\ Matching(rule, w) = 0
    BY <1>2, <2>1, SelectedFits
  <2> QED
    BY <2>2 DEF Taken
<1> QED
  BY <1>1, <1>2

LEMMA TakenIsRead ==
  ASSUME NEW rule, IsList(rule.cases), NEW value, Taken(rule, value) # 0
  PROVE  rule.cases[Taken(rule, value)].expr.anchor \in ReadBy(rule)
<1>1. \A i \in DOMAIN rule.cases : rule.cases[i] \in ToSet(rule.cases)
  BY DEF ToSet
<1>2. CASE Matching(rule, value) # 0
  <2>1. /\ Taken(rule, value) \in DOMAIN rule.cases
        /\ ~rule.cases[Taken(rule, value)].default
    BY <1>2, SelectedFits DEF Taken
  <2>2. rule.cases[Taken(rule, value)] \in {c \in ToSet(rule.cases) : ~c.default}
    BY <1>1, <2>1
  <2> QED
    BY <2>2 DEF ReadBy
<1>3. CASE Matching(rule, value) = 0
  <2>1. Taken(rule, value) = FirstDefault(rule) /\ FirstDefault(rule) # 0
    BY <1>3 DEF Taken
  <2> QED
    BY <2>1 DEF ReadBy
<1> QED
  BY <1>2, <1>3

LEMMA ComputedReads ==
  ASSUME NEW rule, IsList(rule.cases), NEW r, NEW t, NEW held,
         \A c \in ReadBy(rule) : r[c] = t[c]
  PROVE  Computed(rule, r, held) = Computed(rule, t, held)
<1>1. Taken(rule, r[rule.selector]) = Taken(rule, t[rule.selector])
  BY ReadsDecide
<1> DEFINE i == Taken(rule, r[rule.selector])
<1>2. CASE i = 0
  BY <1>1, <1>2 DEF Computed
<1>3. CASE i # 0
  <2>1. rule.cases[i].expr.anchor \in ReadBy(rule)
    BY <1>3, TakenIsRead
  <2>2. r[rule.cases[i].expr.anchor] = t[rule.cases[i].expr.anchor]
    BY <2>1
  <2> QED
    BY <1>1, <2>2 DEF Computed
<1> QED
  BY <1>2, <1>3

-----------------------------------------------------------------------------
\* Business days and their counts.

BusinessDays(a, b, held) == {d \in a..(b - 1) : IsBusinessDay(d, held)}

LEMMA DaysCounted ==
  ASSUME NEW a \in Int, NEW b \in Int, NEW held
  PROVE  /\ IsFiniteSet(BusinessDays(a, b, held))
         /\ BusinessDayCount(a, b, held) = Cardinality(BusinessDays(a, b, held))
         /\ BusinessDayCount(a, b, held) \in Nat
<1>1. IsFiniteSet(a..(b - 1))
  BY FS_Interval
<1>2. IsFiniteSet(BusinessDays(a, b, held))
  BY <1>1, FS_Subset DEF BusinessDays
<1>3. BusinessDayCount(a, b, held) = Cardinality(BusinessDays(a, b, held))
  BY DEF BusinessDayCount, BusinessDays
<1> QED
  BY <1>2, <1>3, FS_CardinalityType

LEMMA CountsAdd ==
  ASSUME NEW a \in Int, NEW b \in Int, NEW c \in Int, a <= b, b <= c, NEW held
  PROVE  /\ BusinessDayCount(a, b, held) \in Nat /\ BusinessDayCount(b, c, held) \in Nat
         /\ BusinessDayCount(a, c, held) =
              BusinessDayCount(a, b, held) + BusinessDayCount(b, c, held)
<1> DEFINE A == BusinessDays(a, b, held)
           B == BusinessDays(b, c, held)
<1>1. IsFiniteSet(A) /\ IsFiniteSet(B)
  BY DaysCounted
<1>2. A \cap B = {} /\ A \cup B = BusinessDays(a, c, held)
  BY DEF BusinessDays
<1>3. BusinessDayCount(a, b, held) = Cardinality(A) /\ BusinessDayCount(b, c, held) = Cardinality(B)
      /\ BusinessDayCount(a, c, held) = Cardinality(A \cup B)
      /\ Cardinality(A) \in Nat /\ Cardinality(B) \in Nat
  BY <1>2, DaysCounted
<1> HIDE DEF A, B
<1>4. Cardinality(A \cup B) = Cardinality(A) + Cardinality(B) - 0
  BY <1>1, <1>2, FS_Union, FS_EmptySet
<1> QED
  BY <1>3, <1>4

LEMMA CountOfDay ==
  ASSUME NEW d \in Int, NEW held
  PROVE  BusinessDayCount(d, d + 1, held) = IF IsBusinessDay(d, held) THEN 1 ELSE 0
<1>1. d..((d + 1) - 1) = {d}
  OBVIOUS
<1>2. BusinessDays(d, d + 1, held) = IF IsBusinessDay(d, held) THEN {d} ELSE {}
  BY <1>1 DEF BusinessDays
<1>3. d + 1 \in Int
  OBVIOUS
<1>4. BusinessDayCount(d, d + 1, held) = Cardinality(BusinessDays(d, d + 1, held))
  BY <1>3, DaysCounted
<1>5. Cardinality({d}) = 1 /\ Cardinality({}) = 0
  BY FS_Singleton, FS_EmptySet
<1> QED
  BY <1>2, <1>4, <1>5

LEMMA CountOfNone ==
  ASSUME NEW a \in Int, NEW b \in Int, NEW held, \A d \in a..(b - 1) : ~IsBusinessDay(d, held)
  PROVE  BusinessDayCount(a, b, held) = 0
<1>1. BusinessDays(a, b, held) = {}
  BY DEF BusinessDays
<1> QED
  BY <1>1, DaysCounted, FS_EmptySet

LEMMA EveryWeek ==
  ASSUME NEW d \in Int
  PROVE  BusinessDayCount(d, d + 7, {}) >= 1
<1>1. PICK x \in d..(d + 6) : Weekday(x) < 5
  <2>1. Weekday(d) < 5 \/ Weekday(d + 2) < 5
    BY DEF Weekday
  <2> QED
    BY <2>1
<1>2. x \in Int /\ d <= x /\ x <= x + 1 /\ x + 1 <= d + 7
  OBVIOUS
<1>3. BusinessDayCount(x, x + 1, {}) = 1
  BY <1>1, <1>2, CountOfDay DEF IsBusinessDay
<1>4. BusinessDayCount(d, d + 7, {}) = BusinessDayCount(d, x, {}) + BusinessDayCount(x, d + 7, {})
      /\ BusinessDayCount(d, x, {}) \in Nat
  BY <1>2, CountsAdd
<1>5. BusinessDayCount(x, d + 7, {}) =
        BusinessDayCount(x, x + 1, {}) + BusinessDayCount(x + 1, d + 7, {})
      /\ BusinessDayCount(x + 1, d + 7, {}) \in Nat
  BY <1>2, CountsAdd
<1> QED
  BY <1>3, <1>4, <1>5

\* A business day in every week but one for each holiday.
LEMMA EnoughDays ==
  ASSUME NEW d \in Int, NEW n \in Nat, NEW held, IsFiniteSet(held)
  PROVE  /\ Cardinality(held) \in Nat
         /\ BusinessDayCount(d, d + 7 * (n + Cardinality(held)), held) >= n
<1> DEFINE N == {m \in Nat : BusinessDayCount(d, d + 7 * m, {}) >= m}
<1>1. 0 \in N
  BY DaysCounted
<1>2. ASSUME NEW m \in N PROVE m + 1 \in N
  <2>1. m \in Nat /\ BusinessDayCount(d, d + 7 * m, {}) >= m
    OBVIOUS
  <2>2. BusinessDayCount(d + 7 * m, (d + 7 * m) + 7, {}) >= 1
    BY <2>1, EveryWeek
  <2>3. /\ BusinessDayCount(d, (d + 7 * m) + 7, {}) =
             BusinessDayCount(d, d + 7 * m, {}) + BusinessDayCount(d + 7 * m, (d + 7 * m) + 7, {})
        /\ BusinessDayCount(d, d + 7 * m, {}) \in Nat
        /\ BusinessDayCount(d + 7 * m, (d + 7 * m) + 7, {}) \in Nat
    <3> DEFINE b == d + 7 * m
               c == b + 7
    <3>1. b \in Int /\ c \in Int /\ d <= b /\ b <= c
      BY <2>1
    <3> HIDE DEF N, b, c
    <3>2. /\ BusinessDayCount(d, b, {}) \in Nat /\ BusinessDayCount(b, c, {}) \in Nat
          /\ BusinessDayCount(d, c, {}) =
               BusinessDayCount(d, b, {}) + BusinessDayCount(b, c, {})
      BY <3>1, CountsAdd
    <3> QED
      BY <3>2 DEF b, c
  <2>4. (d + 7 * m) + 7 = d + 7 * (m + 1) /\ m + 1 \in Nat
    BY <2>1
  <2>5. BusinessDayCount(d, d + 7 * (m + 1), {}) >= m + 1
    BY <2>1, <2>2, <2>3, <2>4
  <2> QED
    BY <2>4, <2>5
<1>3. N = Nat
  <2>1. N \subseteq Nat
    OBVIOUS
  <2> HIDE DEF N
  <2> QED
    BY <1>1, <1>2, <2>1, Induction
<1> DEFINE k == Cardinality(held)
           e == d + 7 * (n + k)
           A == BusinessDays(d, e, {})
<1>4. k \in Nat
  BY FS_CardinalityType
<1>5. Cardinality(A) \in Nat /\ Cardinality(A) >= n + k /\ IsFiniteSet(A) /\ e \in Int
  <2>1. n + k \in N
    BY <1>3, <1>4
  <2>2. e \in Int
    BY <1>4
  <2>3. BusinessDayCount(d, e, {}) >= n + k
    BY <2>1
  <2> HIDE DEF e, k
  <2> QED
    BY <2>2, <2>3, DaysCounted
<1>6. BusinessDays(d, e, held) = A \ held
  BY DEF BusinessDays, IsBusinessDay
<1>7. Cardinality(A \ held) = Cardinality(A) - Cardinality(A \cap held)
  <2> HIDE DEF A
  <2> QED
    BY <1>5, FS_Difference
<1>8. Cardinality(A \cap held) \in Nat /\ Cardinality(A \cap held) <= k
  BY FS_Subset, FS_CardinalityType
<1>9. BusinessDayCount(d, e, held) = Cardinality(A \ held)
  BY <1>5, <1>6, DaysCounted
<1> HIDE DEF A, e, k
<1>10. BusinessDayCount(d, e, held) >= n
  BY <1>4, <1>5, <1>7, <1>8, <1>9
<1> QED
  BY <1>4, <1>10 DEF e, k

-----------------------------------------------------------------------------
\* Rolling to a business day.

Stepped(d, k, step) == IF step = 1 THEN d + k ELSE d - k

\* e is the first business day from d on.
FirstFrom(d, step, held, e) ==
  /\ IsBusinessDay(e, held)
  /\ \E k \in Nat : /\ e = Stepped(d, k, step)
                    /\ \A j \in 0..(k - 1) : ~IsBusinessDay(Stepped(d, j, step), held)

LEMMA FirstExists ==
  ASSUME NEW d \in Int, NEW step \in {1, -1}, NEW held, IsFiniteSet(held)
  PROVE  \E e \in Int : FirstFrom(d, step, held, e)
<1> DEFINE S == {k \in Nat : IsBusinessDay(Stepped(d, k, step), held)}
           c == Cardinality(held)
           a == IF step = 1 THEN d ELSE d - 7 * (1 + c)
           b == a + 7 * (1 + c)
<1>1. c \in Nat
  BY FS_CardinalityType
<1>2. a \in Int /\ b \in Int
  BY <1>1
<1>3. BusinessDayCount(a, b, held) >= 1
  <2> HIDE DEF a
  <2> QED
    BY <1>2, EnoughDays
<1>4. BusinessDays(a, b, held) # {}
  <2> HIDE DEF a, b
  <2>1. BusinessDays(a, b, held) = {} => BusinessDayCount(a, b, held) = 0
    BY <1>2, DaysCounted, FS_EmptySet
  <2> QED
    BY <1>3, <2>1
<1>5. PICK x \in a..(b - 1) : IsBusinessDay(x, held)
  BY <1>4 DEF BusinessDays
<1>6. S # {}
  <2>1. CASE step = 1
    <3>1. x - d \in Nat /\ Stepped(d, x - d, step) = x
      BY <1>1, <2>1 DEF Stepped
    <3> QED
      BY <1>5, <3>1
  <2>2. CASE step = -1
    <3>1. d - x \in Nat /\ Stepped(d, d - x, step) = x
      BY <1>1, <2>2 DEF Stepped
    <3> QED
      BY <1>5, <3>1
  <2> QED
    BY <2>1, <2>2
<1>7. Min(S) \in S /\ \A k \in S : Min(S) <= k
  <2>1. S \subseteq Nat
    OBVIOUS
  <2> HIDE DEF S
  <2> QED
    BY <1>6, <2>1, LeastExists
<1> DEFINE m == Min(S)
<1>8. m \in Nat /\ IsBusinessDay(Stepped(d, m, step), held)
      /\ \A k \in Nat : IsBusinessDay(Stepped(d, k, step), held) => m <= k
  BY <1>7
<1> HIDE DEF S, m
<1>9. \A j \in 0..(m - 1) : ~IsBusinessDay(Stepped(d, j, step), held)
  BY <1>8
<1>10. Stepped(d, m, step) \in Int
  BY <1>8 DEF Stepped
<1> QED
  BY <1>8, <1>9, <1>10 DEF FirstFrom

LEMMA FirstUnique ==
  ASSUME NEW d \in Int, NEW step \in {1, -1}, NEW held, NEW e, NEW f,
         FirstFrom(d, step, held, e), FirstFrom(d, step, held, f)
  PROVE  e = f
<1>1. PICK k \in Nat : /\ e = Stepped(d, k, step)
                       /\ \A j \in 0..(k - 1) : ~IsBusinessDay(Stepped(d, j, step), held)
  BY DEF FirstFrom
<1>2. PICK m \in Nat : /\ f = Stepped(d, m, step)
                       /\ \A j \in 0..(m - 1) : ~IsBusinessDay(Stepped(d, j, step), held)
  BY DEF FirstFrom
<1>3. IsBusinessDay(e, held) /\ IsBusinessDay(f, held)
  BY DEF FirstFrom
<1>4. ~(k < m) /\ ~(m < k)
  <2>1. k < m => k \in 0..(m - 1)
    OBVIOUS
  <2>2. m < k => m \in 0..(k - 1)
    OBVIOUS
  <2> QED
    BY <1>1, <1>2, <1>3, <2>1, <2>2
<1> QED
  BY <1>1, <1>2, <1>4

LEMMA FirstUnfolds ==
  ASSUME NEW d \in Int, NEW step \in {1, -1}, NEW held, NEW e
  PROVE  /\ IsBusinessDay(d, held) => FirstFrom(d, step, held, d)
         /\ ~IsBusinessDay(d, held) /\ FirstFrom(d + step, step, held, e) =>
              FirstFrom(d, step, held, e)
<1>1. ASSUME IsBusinessDay(d, held) PROVE FirstFrom(d, step, held, d)
  <2>1. d = Stepped(d, 0, step) /\ 0..(0 - 1) = {}
    BY DEF Stepped
  <2> QED
    BY <1>1, <2>1 DEF FirstFrom
<1>2. ASSUME ~IsBusinessDay(d, held), FirstFrom(d + step, step, held, e)
      PROVE  FirstFrom(d, step, held, e)
  <2>1. PICK k \in Nat :
          /\ e = Stepped(d + step, k, step)
          /\ \A j \in 0..(k - 1) : ~IsBusinessDay(Stepped(d + step, j, step), held)
    BY <1>2 DEF FirstFrom
  <2>2. ASSUME NEW j \in Nat PROVE Stepped(d, j + 1, step) = Stepped(d + step, j, step)
    BY DEF Stepped
  <2>3. ASSUME NEW j \in 0..((k + 1) - 1) PROVE ~IsBusinessDay(Stepped(d, j, step), held)
    <3>1. CASE j = 0
      <4>1. Stepped(d, j, step) = d
        BY <3>1 DEF Stepped
      <4> QED
        BY <1>2, <4>1
    <3>2. CASE j # 0
      <4>1. j - 1 \in 0..(k - 1) /\ j - 1 \in Nat /\ (j - 1) + 1 = j
        BY <3>2
      <4>2. Stepped(d, (j - 1) + 1, step) = Stepped(d + step, j - 1, step)
        BY <2>2, <4>1
      <4> QED
        BY <2>1, <4>1, <4>2
    <3> QED
      BY <3>1, <3>2
  <2>4. k + 1 \in Nat /\ e = Stepped(d, k + 1, step)
    BY <2>1, <2>2
  <2>5. IsBusinessDay(e, held)
    BY <1>2 DEF FirstFrom
  <2> QED
    BY <2>3, <2>4, <2>5 DEF FirstFrom
<1> QED
  BY <1>1, <1>2

Rolling(f, step, held) ==
  f = [d \in Int |-> IF IsBusinessDay(d, held) THEN d ELSE f[d + step]]

LEMMA RollingExists ==
  ASSUME NEW step \in {1, -1}, NEW held, IsFiniteSet(held)
  PROVE  \E f : Rolling(f, step, held)
<1> DEFINE First(d) == CHOOSE e \in Int : FirstFrom(d, step, held, e)
           f == [d \in Int |-> First(d)]
<1>1. ASSUME NEW d \in Int PROVE First(d) \in Int /\ FirstFrom(d, step, held, First(d))
  BY FirstExists
<1>2. ASSUME NEW d \in Int
      PROVE  f[d] = IF IsBusinessDay(d, held) THEN d ELSE f[d + step]
  <2>1. d + step \in Int
    OBVIOUS
  <2>2. f[d] = First(d) /\ f[d + step] = First(d + step)
    BY <2>1
  <2>3. FirstFrom(d, step, held, First(d))
        /\ FirstFrom(d + step, step, held, First(d + step))
    BY <1>1, <2>1
  <2> HIDE DEF f, First
  <2>4. CASE IsBusinessDay(d, held)
    BY <2>2, <2>3, <2>4, FirstUnfolds, FirstUnique
  <2>5. CASE ~IsBusinessDay(d, held)
    <3>1. FirstFrom(d, step, held, First(d + step))
      BY <2>3, <2>5, FirstUnfolds
    <3> QED
      BY <2>2, <2>3, <2>5, <3>1, FirstUnique
  <2> QED
    BY <2>4, <2>5
<1>3. f = [d \in Int |-> f[d]]
  OBVIOUS
<1> HIDE DEF f
<1>4. Rolling(f, step, held)
  BY <1>2, <1>3 DEF Rolling
<1> QED
  BY <1>4

LEMMA RollsToFirst ==
  ASSUME NEW d \in Int, NEW step \in {1, -1}, NEW held, IsFiniteSet(held)
  PROVE  Roll(d, step, held) \in Int /\ FirstFrom(d, step, held, Roll(d, step, held))
<1> DEFINE f == CHOOSE g : Rolling(g, step, held)
<1>1. Rolling(f, step, held)
  BY RollingExists
<1>2. Roll(d, step, held) = f[d]
  <2>1. f = CHOOSE g : g = [x \in Int |-> IF IsBusinessDay(x, held) THEN x ELSE g[x + step]]
    BY DEF Rolling
  <2> QED
    BY <2>1 DEF Roll
<1> HIDE DEF f
<1>3. ASSUME NEW x \in Int PROVE f[x] = IF IsBusinessDay(x, held) THEN x ELSE f[x + step]
  BY <1>1, Zenon DEF Rolling
<1>4. PICK e \in Int : FirstFrom(d, step, held, e)
  BY FirstExists
<1>5. PICK k \in Nat : /\ e = Stepped(d, k, step)
                       /\ \A j \in 0..(k - 1) : ~IsBusinessDay(Stepped(d, j, step), held)
  BY <1>4 DEF FirstFrom
<1> DEFINE N == {j \in Nat : j <= k => f[Stepped(d, k - j, step)] = e}
<1>6. 0 \in N
  <2>1. k - 0 = k /\ f[e] = e
    BY <1>3, <1>4 DEF FirstFrom
  <2> QED
    BY <1>5, <2>1
<1>7. ASSUME NEW j \in N PROVE j + 1 \in N
  <2> SUFFICES ASSUME j + 1 <= k PROVE f[Stepped(d, k - (j + 1), step)] = e
    OBVIOUS
  <2> DEFINE i == k - (j + 1)
  <2>1. i \in Nat /\ i \in 0..(k - 1) /\ i + 1 = k - j /\ j <= k
    OBVIOUS
  <2>2. f[Stepped(d, i + 1, step)] = e
    BY <2>1
  <2> HIDE DEF i
  <2>3. Stepped(d, i, step) \in Int /\ Stepped(d, i, step) + step = Stepped(d, i + 1, step)
    BY <2>1 DEF Stepped
  <2>4. f[Stepped(d, i, step)] = f[Stepped(d, i + 1, step)]
    BY <1>3, <1>5, <2>1, <2>3
  <2> QED
    BY <2>2, <2>4 DEF i
<1>8. N = Nat
  <2>1. N \subseteq Nat
    OBVIOUS
  <2> HIDE DEF N
  <2> QED
    BY <1>6, <1>7, <2>1, Induction
<1>9. f[d] = e
  <2>1. k \in N
    BY <1>8
  <2>2. k - k = 0 /\ Stepped(d, 0, step) = d
    BY DEF Stepped
  <2> QED
    BY <2>1, <2>2
<1> QED
  BY <1>2, <1>4, <1>9

-----------------------------------------------------------------------------
\* Adding business days: the days passed, one roll after the other.

Adding(day, date, n, step, held) ==
  day = [k \in 0..n |->
           IF k = 0 THEN Roll(date, 1, held) ELSE Roll(day[k - 1] + step, step, held)]

LEMMA AddingExists ==
  ASSUME NEW date, NEW step, NEW held, NEW n \in Nat
  PROVE  \E day : Adding(day, date, n, step, held)
<1> DEFINE N == {m \in Nat : \E day : Adding(day, date, m, step, held)}
<1>1. 0 \in N
  <2> DEFINE day == [k \in 0..0 |-> Roll(date, 1, held)]
  <2>1. Adding(day, date, 0, step, held)
    BY DEF Adding
  <2> QED
    BY <2>1
<1>2. ASSUME NEW m \in N PROVE m + 1 \in N
  <2>1. PICK day : Adding(day, date, m, step, held)
    OBVIOUS
  <2> DEFINE more == [k \in 0..(m + 1) |->
                        IF k = m + 1 THEN Roll(day[m] + step, step, held) ELSE day[k]]
  <2>2. ASSUME NEW k \in 0..(m + 1)
        PROVE  more[k] = IF k = 0 THEN Roll(date, 1, held)
                         ELSE Roll(more[k - 1] + step, step, held)
    <3>1. CASE k = m + 1
      <4>1. k # 0 /\ k - 1 = m /\ m \in 0..(m + 1) /\ m # m + 1
        BY <3>1
      <4>2. more[k] = Roll(day[m] + step, step, held) /\ more[m] = day[m]
        BY <3>1, <4>1
      <4> HIDE DEF more
      <4> QED
        BY <4>1, <4>2
    <3>2. CASE k # m + 1
      <4>1. k \in 0..m /\ (k # 0 => k - 1 \in 0..(m + 1) /\ k - 1 # m + 1)
        BY <3>2
      <4>2. more[k] = day[k] /\ (k # 0 => more[k - 1] = day[k - 1])
        BY <3>2, <4>1
      <4>3. day[k] = IF k = 0 THEN Roll(date, 1, held) ELSE Roll(day[k - 1] + step, step, held)
        BY <2>1, <4>1 DEF Adding
      <4> HIDE DEF more
      <4> QED
        BY <4>2, <4>3
    <3> QED
      BY <3>1, <3>2
  <2>3. more = [k \in 0..(m + 1) |-> more[k]]
    OBVIOUS
  <2> HIDE DEF more
  <2>4. Adding(more, date, m + 1, step, held)
    BY <2>2, <2>3 DEF Adding
  <2> QED
    BY <2>4
<1> HIDE DEF N
<1>3. N = Nat
  <2>1. N \subseteq Nat
    BY DEF N
  <2> QED
    BY <1>1, <1>2, <2>1, Induction
<1> QED
  BY <1>3 DEF N

\* The days AddBusinessDays passes: the date rolled forward, then one roll for
\* each day to add.
LEMMA AddsByDays ==
  ASSUME NEW date, NEW m \in Int, NEW held, NEW n, NEW sign,
         n = IF m < 0 THEN -m ELSE m, sign = IF m < 0 THEN -1 ELSE 1
  PROVE  \E day :
           /\ day[0] = Roll(date, 1, held)
           /\ \A k \in 1..n : day[k] = Roll(day[k - 1] + sign, sign, held)
           /\ AddBusinessDays(date, m, held) = day[n]
<1> DEFINE day == CHOOSE f : Adding(f, date, n, sign, held)
<1>1. Adding(day, date, n, sign, held)
  <2>1. n \in Nat
    OBVIOUS
  <2> QED
    BY <2>1, AddingExists
<1>2. AddBusinessDays(date, m, held) = day[n]
  <2>1. day = CHOOSE f : f = [k \in 0..n |->
                IF k = 0 THEN Roll(date, 1, held) ELSE Roll(f[k - 1] + sign, sign, held)]
    BY DEF Adding
  <2> HIDE DEF day
  <2> QED
    BY <2>1 DEF AddBusinessDays
<1> HIDE DEF day
<1>3. \A k \in 0..n : day[k] =
        IF k = 0 THEN Roll(date, 1, held) ELSE Roll(day[k - 1] + sign, sign, held)
  BY <1>1, Zenon DEF Adding
<1>4. 0 \in 0..n /\ \A k \in 1..n : k \in 0..n /\ k # 0
  <2>1. n \in Nat
    OBVIOUS
  <2> QED
    BY <2>1
<1> QED
  BY <1>2, <1>3, <1>4

-----------------------------------------------------------------------------
\* What is added is counted.

\* e is the n-th business day from first on.
IsNth(first, n, held, e) ==
  /\ e \in Int /\ first <= e /\ IsBusinessDay(e, held)
  /\ BusinessDayCount(first, e + 1, held) = n

\* e is the n-th business day before d.
IsNthBefore(d, n, held, e) ==
  /\ e \in Int /\ e < d /\ IsBusinessDay(e, held)
  /\ BusinessDayCount(e, d, held) = n

LEMMA RollsForward ==
  ASSUME NEW d \in Int, NEW held, IsFiniteSet(held)
  PROVE  IsNth(d, 1, held, Roll(d, 1, held))
<1> DEFINE r == Roll(d, 1, held)
<1>1. r \in Int /\ IsBusinessDay(r, held)
  BY RollsToFirst DEF FirstFrom
<1>2. PICK k \in Nat : /\ r = Stepped(d, k, 1)
                       /\ \A j \in 0..(k - 1) : ~IsBusinessDay(Stepped(d, j, 1), held)
  BY RollsToFirst DEF FirstFrom
<1> HIDE DEF r
<1>3. r = d + k /\ \A j \in 0..(k - 1) : ~IsBusinessDay(d + j, held)
  BY <1>2 DEF Stepped
<1>4. ASSUME NEW x \in d..(r - 1) PROVE ~IsBusinessDay(x, held)
  <2>1. x - d \in 0..(k - 1) /\ d + (x - d) = x
    BY <1>3
  <2> QED
    BY <1>3, <2>1
<1>5. BusinessDayCount(d, r, held) = 0
  BY <1>1, <1>4, CountOfNone
<1>6. BusinessDayCount(r, r + 1, held) = 1
  BY <1>1, CountOfDay
<1>7. d <= r /\ r <= r + 1 /\ r + 1 \in Int
  BY <1>1, <1>3
<1>8. BusinessDayCount(d, r + 1, held) =
        BusinessDayCount(d, r, held) + BusinessDayCount(r, r + 1, held)
  BY <1>1, <1>7, CountsAdd
<1>9. BusinessDayCount(d, r + 1, held) = 1
  BY <1>5, <1>6, <1>8
<1> QED
  BY <1>1, <1>7, <1>9 DEF IsNth, r

LEMMA RollsBack ==
  ASSUME NEW d \in Int, NEW held, IsFiniteSet(held)
  PROVE  IsNthBefore(d, 1, held, Roll(d - 1, -1, held))
<1> DEFINE r == Roll(d - 1, -1, held)
<1>0. d - 1 \in Int /\ -1 \in {1, -1} /\ -1 # 1
  OBVIOUS
<1>1. r \in Int /\ FirstFrom(d - 1, -1, held, r)
  BY <1>0, RollsToFirst
<1>2. PICK k \in Nat : /\ r = Stepped(d - 1, k, -1)
                       /\ \A j \in 0..(k - 1) : ~IsBusinessDay(Stepped(d - 1, j, -1), held)
  BY <1>1 DEF FirstFrom
<1>3. IsBusinessDay(r, held)
  BY <1>1 DEF FirstFrom
<1> HIDE DEF r
<1>4. r = (d - 1) - k /\ \A j \in 0..(k - 1) : ~IsBusinessDay((d - 1) - j, held)
  BY <1>0, <1>2 DEF Stepped
<1>5. ASSUME NEW x \in (r + 1)..(d - 1) PROVE ~IsBusinessDay(x, held)
  <2>1. (d - 1) - x \in 0..(k - 1) /\ (d - 1) - ((d - 1) - x) = x
    BY <1>4
  <2> QED
    BY <1>4, <2>1
<1>6. BusinessDayCount(r + 1, d, held) = 0
  <2>1. r + 1 \in Int
    BY <1>1
  <2> QED
    BY <1>5, <2>1, CountOfNone
<1>7. BusinessDayCount(r, r + 1, held) = 1
  BY <1>1, <1>3, CountOfDay
<1>8. r <= r + 1 /\ r + 1 <= d /\ r + 1 \in Int
  BY <1>1, <1>4
<1>9. BusinessDayCount(r, d, held) =
        BusinessDayCount(r, r + 1, held) + BusinessDayCount(r + 1, d, held)
  BY <1>1, <1>8, CountsAdd
<1>10. r < d /\ BusinessDayCount(r, d, held) = 1
  BY <1>1, <1>6, <1>7, <1>8, <1>9
<1> QED
  BY <1>1, <1>3, <1>10 DEF IsNthBefore, r

\* Counting goes on from any day in between.
LEMMA NthAfter ==
  ASSUME NEW first \in Int, NEW n \in Nat, NEW m \in Nat, NEW held, NEW d, NEW e,
         IsNth(first, n, held, d), IsNth(d + 1, m, held, e)
  PROVE  IsNth(first, n + m, held, e)
<1>1. d \in Int /\ e \in Int /\ first <= d + 1 /\ d + 1 <= e + 1 /\ first <= e
      /\ d + 1 \in Int /\ e + 1 \in Int
  BY DEF IsNth
<1>2. BusinessDayCount(first, e + 1, held) =
        BusinessDayCount(first, d + 1, held) + BusinessDayCount(d + 1, e + 1, held)
  BY <1>1, CountsAdd
<1> QED
  BY <1>1, <1>2 DEF IsNth

LEMMA NthBeforeThat ==
  ASSUME NEW d \in Int, NEW n \in Nat, NEW m \in Nat, NEW held, NEW e, NEW f,
         IsNthBefore(d, n, held, e), IsNthBefore(e, m, held, f)
  PROVE  IsNthBefore(d, n + m, held, f)
<1>1. e \in Int /\ f \in Int /\ f <= e /\ e <= d /\ f < d
  BY DEF IsNthBefore
<1>2. BusinessDayCount(f, d, held) = BusinessDayCount(f, e, held) + BusinessDayCount(e, d, held)
  BY <1>1, CountsAdd
<1> QED
  BY <1>1, <1>2 DEF IsNthBefore

LEMMA AddedForward ==
  ASSUME NEW first \in Int, NEW n \in Nat \ {0}, NEW held, IsFiniteSet(held)
  PROVE  IsNth(first, n, held, AddBusinessDays(first, n - 1, held))
<1> DEFINE m == n - 1
<1>1. m \in Nat /\ m + 1 = n /\ ~(m < 0)
  OBVIOUS
<1> HIDE DEF m
<1>2. PICK day : /\ day[0] = Roll(first, 1, held)
                 /\ \A k \in 1..m : day[k] = Roll(day[k - 1] + 1, 1, held)
                 /\ AddBusinessDays(first, m, held) = day[m]
  <2> DEFINE sign == 1
             p == m
  <2>1. p \in Int /\ m = (IF p < 0 THEN -p ELSE p) /\ sign = IF p < 0 THEN -1 ELSE 1
    BY <1>1
  <2> HIDE DEF sign, p
  <2>2. \E day : /\ day[0] = Roll(first, 1, held)
                 /\ \A k \in 1..m : day[k] = Roll(day[k - 1] + sign, sign, held)
                 /\ AddBusinessDays(first, p, held) = day[m]
    BY <2>1, AddsByDays
  <2> QED
    BY <2>2 DEF sign, p
<1> DEFINE N == {k \in Nat : k <= m => IsNth(first, k + 1, held, day[k])}
<1>3. 0 \in N
  <2>1. IsNth(first, 1, held, day[0])
    BY <1>2, RollsForward
  <2> QED
    BY <2>1
<1>4. ASSUME NEW k \in N PROVE k + 1 \in N
  <2> SUFFICES ASSUME k + 1 <= m PROVE IsNth(first, (k + 1) + 1, held, day[k + 1])
    OBVIOUS
  <2>1. k \in Nat /\ k <= m /\ k + 1 \in 1..m /\ (k + 1) - 1 = k /\ k + 1 \in Nat
    BY <1>1
  <2>2. IsNth(first, k + 1, held, day[k])
    BY <2>1
  <2>3. day[k] \in Int /\ day[k] + 1 \in Int
    BY <2>2 DEF IsNth
  <2>4. day[k + 1] = Roll(day[k] + 1, 1, held)
    BY <1>2, <2>1
  <2>5. IsNth(day[k] + 1, 1, held, day[k + 1])
    BY <2>3, <2>4, RollsForward
  <2> HIDE DEF N
  <2> QED
    BY <2>1, <2>2, <2>5, NthAfter
<1>5. N = Nat
  <2>1. N \subseteq Nat
    OBVIOUS
  <2> HIDE DEF N
  <2> QED
    BY <1>3, <1>4, <2>1, Induction
<1>6. IsNth(first, m + 1, held, day[m])
  <2>1. m \in N
    BY <1>1, <1>5
  <2> QED
    BY <1>1, <2>1
<1> QED
  BY <1>1, <1>2, <1>6 DEF m

LEMMA AddedBack ==
  ASSUME NEW d \in Int, NEW n \in Nat \ {0}, NEW held, IsFiniteSet(held)
  PROVE  IsNthBefore(d, n, held, AddBusinessDays(d, -n, held))
<1> DEFINE sign == -1
<1>1. n \in Nat /\ n # 0 /\ sign \in {1, -1} /\ (IF sign = 1 THEN n ELSE -n) = -n
  OBVIOUS
<1> HIDE DEF sign
<1>2. PICK day : /\ day[0] = Roll(d, 1, held)
                 /\ \A k \in 1..n : day[k] = Roll(day[k - 1] + sign, sign, held)
                 /\ AddBusinessDays(d, -n, held) = day[n]
  <2> DEFINE m == -n
  <2>1. m \in Int /\ n = (IF m < 0 THEN -m ELSE m) /\ sign = IF m < 0 THEN -1 ELSE 1
    BY <1>1 DEF sign
  <2> HIDE DEF m
  <2>2. \E day : /\ day[0] = Roll(d, 1, held)
                 /\ \A k \in 1..n : day[k] = Roll(day[k - 1] + sign, sign, held)
                 /\ AddBusinessDays(d, m, held) = day[n]
    BY <1>1, <2>1, AddsByDays
  <2> QED
    BY <2>2 DEF m
<1> DEFINE r == Roll(d, 1, held)
           N == {k \in Nat : k + 1 <= n => IsNthBefore(r, k + 1, held, day[k + 1])}
<1>3. IsNth(d, 1, held, r)
  BY RollsForward
<1>4. r \in Int /\ d <= r /\ IsBusinessDay(r, held)
  BY <1>3 DEF IsNth
<1>5. ASSUME NEW k \in Nat, k + 1 <= n, day[k] \in Int
      PROVE  IsNthBefore(day[k], 1, held, day[k + 1])
  <2>1. k + 1 \in 1..n /\ (k + 1) - 1 = k /\ day[k] + sign = day[k] - 1 /\ sign = -1
    BY <1>5 DEF sign
  <2>2. day[k + 1] = Roll(day[k] - 1, -1, held)
    BY <1>2, <2>1
  <2> QED
    BY <1>5, <2>2, RollsBack
<1> HIDE DEF r
<1>6. 0 \in N
  <2>1. 0 + 1 = 1 /\ 1 <= n /\ day[0] = r
    BY <1>1, <1>2 DEF r
  <2>2. IsNthBefore(day[0], 1, held, day[1])
    BY <1>4, <1>5, <2>1
  <2> QED
    BY <2>1, <2>2
<1>7. ASSUME NEW k \in N PROVE k + 1 \in N
  <2> SUFFICES ASSUME (k + 1) + 1 <= n
               PROVE  IsNthBefore(r, (k + 1) + 1, held, day[(k + 1) + 1])
    OBVIOUS
  <2>1. k \in Nat /\ k + 1 <= n /\ k + 1 \in Nat
    OBVIOUS
  <2>2. IsNthBefore(r, k + 1, held, day[k + 1])
    BY <2>1
  <2>3. day[k + 1] \in Int
    BY <2>2 DEF IsNthBefore
  <2>4. IsNthBefore(day[k + 1], 1, held, day[(k + 1) + 1])
    BY <1>5, <2>1, <2>3
  <2> HIDE DEF N
  <2> QED
    BY <1>4, <2>1, <2>2, <2>4, NthBeforeThat
<1>8. N = Nat
  <2>1. N \subseteq Nat
    OBVIOUS
  <2> HIDE DEF N
  <2> QED
    BY <1>6, <1>7, <2>1, Induction
<1> DEFINE e == day[n]
<1>9. IsNthBefore(r, n, held, e)
  <2>1. n - 1 \in Nat /\ (n - 1) + 1 = n /\ (n - 1) + 1 <= n
    OBVIOUS
  <2>2. n - 1 \in N
    BY <1>8, <2>1
  <2> QED
    BY <2>1, <2>2
<1> HIDE DEF e, N
<1>10. e \in Int /\ e < r /\ IsBusinessDay(e, held) /\ BusinessDayCount(e, r, held) = n
  BY <1>9 DEF IsNthBefore
<1>11. BusinessDayCount(d, r, held) = 0 /\ e < d
  <2>1. BusinessDayCount(d, r + 1, held) = 1
    BY <1>3 DEF IsNth
  <2>2. BusinessDayCount(r, r + 1, held) = 1
    BY <1>4, CountOfDay
  <2>3. BusinessDayCount(d, r + 1, held) =
          BusinessDayCount(d, r, held) + BusinessDayCount(r, r + 1, held)
        /\ BusinessDayCount(d, r, held) \in Nat
    <3>1. r + 1 \in Int /\ r <= r + 1
      BY <1>4
    <3> QED
      BY <1>4, <3>1, CountsAdd
  <2>4. BusinessDayCount(d, r, held) = 0
    BY <2>1, <2>2, <2>3
  <2>5. BusinessDays(d, r, held) = {}
    BY <1>4, <2>4, DaysCounted, FS_EmptySet
  <2>6. ~(d <= e)
    BY <1>4, <1>10, <2>5 DEF BusinessDays
  <2> QED
    BY <1>10, <2>4, <2>6
<1>12. BusinessDayCount(e, r, held) = BusinessDayCount(e, d, held) + BusinessDayCount(d, r, held)
       /\ BusinessDayCount(e, d, held) \in Nat
  <2>1. e \in Int /\ r \in Int /\ e <= d /\ d <= r
    BY <1>4, <1>10, <1>11
  <2> QED
    BY <2>1, CountsAdd
<1>13. BusinessDayCount(e, d, held) = n
  BY <1>10, <1>11, <1>12
<1> QED
  BY <1>2, <1>10, <1>11, <1>13 DEF IsNthBefore, e

-----------------------------------------------------------------------------
\* The dates are the documented ones.

LEMMA CountThrough ==
  ASSUME NEW a \in Int, NEW e \in Int, a <= e, NEW held, IsBusinessDay(e, held)
  PROVE  /\ BusinessDayCount(a, e, held) \in Nat
         /\ BusinessDayCount(a, e + 1, held) = BusinessDayCount(a, e, held) + 1
<1> DEFINE c == e + 1
<1>1. c \in Int /\ e <= c
  OBVIOUS
<1>2. BusinessDayCount(e, c, held) = 1
  BY CountOfDay
<1> HIDE DEF c
<1>3. /\ BusinessDayCount(a, e, held) \in Nat
      /\ BusinessDayCount(a, c, held) = BusinessDayCount(a, e, held) + BusinessDayCount(e, c, held)
  BY <1>1, CountsAdd
<1> QED
  BY <1>2, <1>3 DEF c

LEMMA CountFrom ==
  ASSUME NEW e \in Int, NEW d \in Int, e < d, NEW held, IsBusinessDay(e, held)
  PROVE  /\ BusinessDayCount(e + 1, d, held) \in Nat
         /\ BusinessDayCount(e, d, held) = 1 + BusinessDayCount(e + 1, d, held)
<1> DEFINE c == e + 1
<1>1. c \in Int /\ e <= c /\ c <= d
  OBVIOUS
<1>2. BusinessDayCount(e, c, held) = 1
  BY CountOfDay
<1> HIDE DEF c
<1>3. /\ BusinessDayCount(c, d, held) \in Nat
      /\ BusinessDayCount(e, d, held) = BusinessDayCount(e, c, held) + BusinessDayCount(c, d, held)
  BY <1>1, CountsAdd
<1> QED
  BY <1>2, <1>3 DEF c

LEMMA NthNotBoth ==
  ASSUME NEW first \in Int, NEW n, NEW held, NEW d, NEW e,
         IsNth(first, n, held, d), IsNth(first, n, held, e)
  PROVE  ~(d < e)
<1> SUFFICES ASSUME d < e PROVE FALSE
  OBVIOUS
<1>1. d \in Int /\ e \in Int /\ first <= d /\ IsBusinessDay(e, held)
      /\ BusinessDayCount(first, d + 1, held) = n /\ BusinessDayCount(first, e + 1, held) = n
  BY DEF IsNth
<1>2. d + 1 \in Int /\ e + 1 \in Int /\ first <= d + 1 /\ d + 1 <= e /\ e <= e + 1
      /\ first <= e
  BY <1>1
<1>3. BusinessDayCount(first, e + 1, held) = BusinessDayCount(first, e, held) + 1
  BY <1>1, <1>2, CountThrough
<1> DEFINE c == d + 1
<1>4. c \in Int /\ e \in Int /\ first <= c /\ c <= e
  BY <1>1, <1>2
<1> HIDE DEF c
<1>5. /\ BusinessDayCount(first, c, held) \in Nat /\ BusinessDayCount(c, e, held) \in Nat
      /\ BusinessDayCount(first, e, held) =
           BusinessDayCount(first, c, held) + BusinessDayCount(c, e, held)
  BY <1>4, CountsAdd
<1> QED
  BY <1>1, <1>3, <1>5 DEF c

LEMMA NthAlone ==
  ASSUME NEW first \in Int, NEW n, NEW held, NEW d, NEW e,
         IsNth(first, n, held, d), IsNth(first, n, held, e)
  PROVE  d = e
<1>1. ~(d < e) /\ ~(e < d)
  BY NthNotBoth
<1>2. d \in Int /\ e \in Int
  BY DEF IsNth
<1> QED
  BY <1>1, <1>2

LEMMA NthInWindow ==
  ASSUME NEW first \in Int, NEW n \in Nat, NEW held, IsFiniteSet(held), NEW e,
         IsNth(first, n, held, e)
  PROVE  e \in first..(first + 7 * (n + Cardinality(held)))
<1> DEFINE b == first + 7 * (n + Cardinality(held))
<1>1. Cardinality(held) \in Nat /\ BusinessDayCount(first, b, held) >= n
  BY EnoughDays
<1>2. b \in Int /\ first <= b
  BY <1>1
<1> HIDE DEF b
<1>3. e \in Int /\ first <= e /\ IsBusinessDay(e, held) /\ e + 1 \in Int /\ e <= e + 1
      /\ BusinessDayCount(first, e + 1, held) = n
  BY DEF IsNth
<1>4. ~(b < e)
  <2> SUFFICES ASSUME b < e PROVE FALSE
    OBVIOUS
  <2>1. BusinessDayCount(first, e + 1, held) = BusinessDayCount(first, e, held) + 1
    BY <1>3, CountThrough
  <2>2. b \in Int /\ e \in Int /\ first <= b /\ b <= e
    BY <1>2, <1>3
  <2>3. /\ BusinessDayCount(first, b, held) \in Nat /\ BusinessDayCount(b, e, held) \in Nat
        /\ BusinessDayCount(first, e, held) =
             BusinessDayCount(first, b, held) + BusinessDayCount(b, e, held)
    BY <2>2, CountsAdd
  <2> QED
    BY <1>1, <1>3, <2>1, <2>3
<1> QED
  BY <1>2, <1>3, <1>4 DEF b

LEMMA NthIsDocumented ==
  ASSUME NEW first \in Int, NEW n \in Nat, NEW held, IsFiniteSet(held), NEW e,
         IsNth(first, n, held, e)
  PROVE  NthOf(first, n, held) = e
<1> DEFINE W == first..(first + 7 * (n + Cardinality(held)))
           P(d) == IsBusinessDay(d, held) /\ BusinessDayCount(first, d + 1, held) = n
<1>1. e \in W /\ P(e)
  BY NthInWindow DEF IsNth
<1>2. ASSUME NEW d \in W, P(d) PROVE d = e
  <2>1. Cardinality(held) \in Nat
    BY FS_CardinalityType
  <2>2. d \in Int /\ first <= d
    BY <2>1
  <2>3. IsNth(first, n, held, d)
    BY <1>2, <2>2 DEF IsNth
  <2> QED
    BY <2>3, NthAlone
<1>3. (CHOOSE d \in W : P(d)) = e
  <2> HIDE DEF W, P
  <2> QED
    BY <1>1, <1>2
<1> QED
  BY <1>3 DEF NthOf

LEMMA NthBeforeNotBoth ==
  ASSUME NEW d \in Int, NEW n, NEW held, NEW e, NEW f,
         IsNthBefore(d, n, held, e), IsNthBefore(d, n, held, f)
  PROVE  ~(e < f)
<1> SUFFICES ASSUME e < f PROVE FALSE
  OBVIOUS
<1>1. e \in Int /\ f \in Int /\ f < d /\ IsBusinessDay(e, held)
      /\ BusinessDayCount(e, d, held) = n /\ BusinessDayCount(f, d, held) = n
  BY DEF IsNthBefore
<1>2. e \in Int /\ f \in Int /\ e <= f /\ f <= d
  BY <1>1
<1>3. BusinessDayCount(e, d, held) =
        BusinessDayCount(e, f, held) + BusinessDayCount(f, d, held)
      /\ BusinessDayCount(f, d, held) \in Nat
  BY <1>2, CountsAdd
<1>4. /\ BusinessDayCount(e + 1, f, held) \in Nat
      /\ BusinessDayCount(e, f, held) = 1 + BusinessDayCount(e + 1, f, held)
  BY <1>1, CountFrom
<1> QED
  BY <1>1, <1>3, <1>4

LEMMA NthBeforeInWindow ==
  ASSUME NEW d \in Int, NEW n \in Nat, NEW e, IsNthBefore(d, n, {}, e)
  PROVE  e \in (d - 7 * n - 7)..(d - 1)
<1> DEFINE a == d - 7 * n
<1>1. a \in Int /\ a <= d
  OBVIOUS
<1>2. BusinessDayCount(a, d, {}) >= n
  <2>1. IsFiniteSet({}) /\ Cardinality({}) = 0
    BY FS_EmptySet
  <2>2. BusinessDayCount(a, a + 7 * (n + Cardinality({})), {}) >= n
    <3> HIDE DEF a
    <3> QED
      BY <1>1, <2>1, EnoughDays
  <2>3. a + 7 * (n + Cardinality({})) = d
    BY <2>1
  <2> QED
    BY <2>2, <2>3
<1>3. e \in Int /\ e < d /\ IsBusinessDay(e, {}) /\ BusinessDayCount(e, d, {}) = n
  BY DEF IsNthBefore
<1> HIDE DEF a
<1>4. ~(e < a)
  <2> SUFFICES ASSUME e < a PROVE FALSE
    OBVIOUS
  <2>1. e \in Int /\ a \in Int /\ e <= a /\ a <= d
    BY <1>1, <1>3
  <2>2. /\ BusinessDayCount(a, d, {}) \in Nat
        /\ BusinessDayCount(e, d, {}) = BusinessDayCount(e, a, {}) + BusinessDayCount(a, d, {})
    BY <2>1, CountsAdd
  <2>3. /\ BusinessDayCount(e + 1, a, {}) \in Nat
        /\ BusinessDayCount(e, a, {}) = 1 + BusinessDayCount(e + 1, a, {})
    BY <1>1, <1>3, CountFrom
  <2> QED
    BY <1>2, <1>3, <2>2, <2>3
<1> QED
  BY <1>1, <1>3, <1>4 DEF a

LEMMA NthBeforeIsDocumented ==
  ASSUME NEW d \in Int, NEW n \in Nat, NEW e, IsNthBefore(d, n, {}, e)
  PROVE  NthBefore(d, n) = e
<1> DEFINE W == (d - 7 * n - 7)..(d - 1)
           P(b) == IsBusinessDay(b, {}) /\ BusinessDayCount(b, d, {}) = n
<1>1. e \in W /\ P(e)
  BY NthBeforeInWindow DEF IsNthBefore
<1>2. ASSUME NEW b \in W, P(b) PROVE b = e
  <2>1. b \in Int /\ b < d /\ e \in Int
    BY DEF IsNthBefore
  <2>2. IsNthBefore(d, n, {}, b)
    BY <1>2, <2>1 DEF IsNthBefore
  <2>3. ~(b < e) /\ ~(e < b)
    BY <2>2, NthBeforeNotBoth
  <2> QED
    BY <2>1, <2>3
<1>3. (CHOOSE b \in W : P(b)) = e
  <2> HIDE DEF W, P
  <2> QED
    BY <1>1, <1>2
<1> QED
  BY <1>3 DEF NthBefore

\* What calendars say of the days counted is all that matters.
LEMMA NthByPrefix ==
  ASSUME NEW first \in Int, NEW n, NEW held, NEW all, NEW e, IsNth(first, n, held, e),
         \A x \in first..e : x \in held <=> x \in all
  PROVE  IsNth(first, n, all, e)
<1>1. e \in Int /\ first <= e /\ e \in first..e /\ e + 1 \in Int /\ (e + 1) - 1 = e
  BY DEF IsNth
<1>2. BusinessDays(first, e + 1, held) = BusinessDays(first, e + 1, all)
  BY <1>1 DEF BusinessDays, IsBusinessDay
<1>3. BusinessDayCount(first, e + 1, held) = BusinessDayCount(first, e + 1, all)
  BY <1>1, <1>2, DaysCounted
<1> QED
  BY <1>1, <1>3 DEF IsNth, IsBusinessDay

-----------------------------------------------------------------------------
\* Date rules.

LEMMA CivilInt ==
  ASSUME NEW d \in Int
  PROVE  Year(d) \in Int /\ Month(d) \in Int
<1> DEFINE era == (d + 719468) \div 146097
           day == (d + 719468) % 146097
           p == day \div 1460   q == day \div 36524   r == day \div 146096
           year == (day - p + q - r) \div 365
           s == year \div 4   t == year \div 100
           yearday == day - (365 * year + s - t)
           u == (5 * yearday + 2) \div 153
           month == ((u + 2) % 12) + 1
<1>1. era \in Int /\ day \in Int
  OBVIOUS
<1>2. p \in Int /\ q \in Int /\ r \in Int
  <2> HIDE DEF day
  <2> QED
    BY <1>1
<1>3. year \in Int
  <2> HIDE DEF day, p, q, r
  <2> QED
    BY <1>1, <1>2
<1>4. s \in Int /\ t \in Int
  <2> HIDE DEF year
  <2> QED
    BY <1>3
<1>5. yearday \in Int
  <2> HIDE DEF day, year, s, t
  <2> QED
    BY <1>1, <1>3, <1>4
<1>6. u \in Int
  <2> HIDE DEF yearday
  <2> QED
    BY <1>5
<1>7. month \in Int
  <2> HIDE DEF u
  <2> QED
    BY <1>6
<1>8. Civil(d) = [year |-> 400 * era + year + (IF month <= 2 THEN 1 ELSE 0), month |-> month]
  BY DEF Civil
<1> HIDE DEF era, year, month
<1> QED
  BY <1>1, <1>3, <1>7, <1>8 DEF Year, Month

LEMMA FollowingInt ==
  ASSUME NEW d \in Int
  PROVE  FirstOfFollowing(d) \in Int
<1>1. Year(d) \in Int /\ Month(d) \in Int /\ Year(d) + 1 \in Int /\ Month(d) + 1 \in Int
  BY CivilInt
<1> QED
  BY <1>1, DayInt DEF FirstOfFollowing

\* What each rule computes from a date: a date, and for those that count, the
\* day they count to.
LEMMA DerivedDates ==
  ASSUME NEW rule, IsDateRule(rule), NEW anchor \in Int, Null \notin Int,
         NEW held, IsFiniteSet(held)
  PROVE  /\ Derived(rule, anchor, held) \in Int
         /\ rule.fn = "nth_business_day_of_following_month" =>
              IsNth(FirstOfFollowing(anchor), rule.n, held, Derived(rule, anchor, held))
         /\ rule.fn = "nth_business_day_next_month" =>
              IsNth(FirstOfFollowing(anchor), rule.n, {}, Derived(rule, anchor, held))
         /\ rule.fn = "previous_business_day" =>
              IsNthBefore(anchor, 1, {}, Derived(rule, anchor, held))
         /\ rule.fn = "previous_business_days" =>
              IsNthBefore(anchor, rule.n, {}, Derived(rule, anchor, held))
<1> DEFINE d == Derived(rule, anchor, held)
           fn == rule.fn
           n == rule.n
           first == FirstOfFollowing(anchor)
<1>1. anchor # Null /\ n \in Int /\ first \in Int /\ IsFiniteSet({})
  BY FollowingInt, FS_EmptySet DEF IsDateRule
<1>2. CASE fn = "nth_business_day_of_following_month"
  <2>1. n \in Nat \ {0}
    BY <1>1, <1>2 DEF IsDateRule
  <2>2. d = AddBusinessDays(first, n - 1, held)
    BY <1>1, <1>2 DEF Derived, NthBusinessDayOfFollowingMonth
  <2> HIDE DEF first, n, d
  <2>3. IsNth(first, n, held, d)
    BY <1>1, <2>1, <2>2, AddedForward
  <2>4. d \in Int
    BY <2>3 DEF IsNth
  <2> QED
    BY <1>2, <2>3, <2>4 DEF first, n, d
<1>3. CASE fn = "nth_business_day_next_month"
  <2>1. n \in Nat \ {0}
    BY <1>1, <1>3 DEF IsDateRule
  <2>2. d = AddBusinessDays(first, n - 1, {})
    BY <1>1, <1>3 DEF Derived, NthBusinessDayNextMonth, NthBusinessDayOfFollowingMonth
  <2> HIDE DEF first, n, d
  <2>3. IsNth(first, n, {}, d)
    BY <1>1, <2>1, <2>2, AddedForward
  <2>4. d \in Int
    BY <2>3 DEF IsNth
  <2> QED
    BY <1>3, <2>3, <2>4 DEF first, n, d
<1>4. CASE fn = "previous_business_day"
  <2>1. d = AddBusinessDays(anchor, -1, {})
    BY <1>1, <1>4 DEF Derived, PreviousBusinessDay
  <2>2. 1 \in Nat \ {0}
    OBVIOUS
  <2>3. IsNthBefore(anchor, 1, {}, AddBusinessDays(anchor, -1, {}))
    BY <1>1, <2>2, AddedBack
  <2> HIDE DEF d
  <2>4. IsNthBefore(anchor, 1, {}, d)
    BY <2>1, <2>3
  <2>5. d \in Int
    BY <2>4 DEF IsNthBefore
  <2> QED
    BY <1>4, <2>4, <2>5 DEF d
<1>5. CASE fn = "previous_business_days"
  <2>1. n \in Nat \ {0}
    BY <1>1, <1>5 DEF IsDateRule
  <2>2. d = AddBusinessDays(anchor, -n, {})
    BY <1>1, <1>5 DEF Derived, PreviousBusinessDays
  <2> HIDE DEF n, d
  <2>3. IsNthBefore(anchor, n, {}, d)
    BY <1>1, <2>1, <2>2, AddedBack
  <2>4. d \in Int
    BY <2>3 DEF IsNthBefore
  <2> QED
    BY <1>5, <2>3, <2>4 DEF n, d
<1>6. CASE fn \in {"same_day", "copy_date", "add_days", "previous_day"}
  <2>1. d \in {anchor, anchor + n, anchor - 1}
    BY <1>1, <1>6 DEF Derived, AddDays, PreviousDay
  <2> HIDE DEF d
  <2>2. d \in Int
    BY <1>1, <2>1
  <2> QED
    BY <1>6, <2>2 DEF d
<1>7. CASE fn \in {"start_of_tenor_year", "first_day_of_tenor_month", "constant_month_of_tenor_year"}
  <2>1. d \in {Day(Year(anchor), 1, 1), Day(Year(anchor), Month(anchor), 1),
               Day(Year(anchor), n, 1)}
    BY <1>1, <1>7 DEF Derived, StartOfTenorYear, FirstDayOfTenorMonth, ConstantMonthOfTenorYear
  <2>2. Year(anchor) \in Int /\ Month(anchor) \in Int /\ 1 \in Int
    BY CivilInt
  <2> HIDE DEF d, n
  <2>3. \A m \in Int : Day(Year(anchor), m, 1) \in Int
    BY <2>2, DayInt
  <2>4. d \in Int
    BY <1>1, <2>1, <2>2, <2>3
  <2> QED
    BY <1>7, <2>4 DEF d
<1> QED
  BY <1>2, <1>3, <1>4, <1>5, <1>6, <1>7 DEF IsDateRule

\* With the holidays of the calendar all is as documented; with a calendar held
\* up to some day, what does not go beyond it.
LEMMA DerivedAsDocumented ==
  ASSUME NEW rule, IsDateRule(rule), NEW anchor \in Int, Null \notin Int,
         NEW held, NEW all, IsFiniteSet(all), all \subseteq Int, held \subseteq all,
         \A d \in held : \A x \in all : x < d => x \in held
  PROVE  \/ /\ rule.fn = "nth_business_day_of_following_month"
            /\ \A d \in held : d < Derived(rule, anchor, held)
         \/ Derived(rule, anchor, held) = Documented(rule, anchor, all)
<1> DEFINE e == Derived(rule, anchor, held)
           fn == rule.fn
           n == rule.n
           first == FirstOfFollowing(anchor)
<1>1. anchor # Null /\ first \in Int /\ IsFiniteSet({}) /\ IsFiniteSet(held)
  BY FollowingInt, FS_EmptySet, FS_Subset
<1>2. e \in Int
  BY <1>1, DerivedDates
<1>3. CASE fn = "nth_business_day_of_following_month"
  <2> SUFFICES ASSUME NEW d \in held, ~(d < e) PROVE e = Documented(rule, anchor, all)
    BY <1>3
  <2>1. IsNth(first, n, held, e)
    BY <1>1, <1>3, DerivedDates
  <2>2. n \in Nat
    BY <1>3 DEF IsDateRule
  <2>3. Documented(rule, anchor, all) = NthOf(first, n, all)
    BY <1>1, <1>3 DEF Documented
  <2> HIDE DEF e, n, first
  <2>4. d \in Int /\ e <= d
    BY <1>2
  <2>5. ASSUME NEW x \in first..e PROVE x \in held <=> x \in all
    <3>1. x \in Int /\ x <= e
      BY <1>1, <1>2
    <3>2. x = d \/ x < d
      BY <1>2, <2>4, <3>1
    <3> QED
      BY <3>2
  <2>6. IsNth(first, n, all, e)
    BY <1>1, <2>1, <2>5, NthByPrefix
  <2> QED
    BY <1>1, <2>2, <2>3, <2>6, NthIsDocumented
<1>4. CASE fn = "nth_business_day_next_month"
  <2>1. IsNth(first, n, {}, e)
    BY <1>1, <1>4, DerivedDates
  <2>2. n \in Nat
    BY <1>4 DEF IsDateRule
  <2>3. Documented(rule, anchor, all) = NthOf(first, n, {})
    BY <1>1, <1>4 DEF Documented
  <2> HIDE DEF n, first, e
  <2>4. NthOf(first, n, {}) = e
    BY <1>1, <2>1, <2>2, NthIsDocumented
  <2> QED
    BY <2>3, <2>4 DEF e
<1>5. CASE fn = "previous_business_day"
  <2>1. IsNthBefore(anchor, 1, {}, e)
    BY <1>1, <1>5, DerivedDates
  <2>2. Documented(rule, anchor, all) = NthBefore(anchor, 1)
    BY <1>1, <1>5 DEF Documented
  <2> HIDE DEF e
  <2>3. 1 \in Nat
    OBVIOUS
  <2>4. NthBefore(anchor, 1) = e
    BY <2>1, <2>3, NthBeforeIsDocumented
  <2> QED
    BY <2>2, <2>4 DEF e
<1>6. CASE fn = "previous_business_days"
  <2>1. IsNthBefore(anchor, n, {}, e)
    BY <1>1, <1>6, DerivedDates
  <2>2. n \in Nat
    BY <1>6 DEF IsDateRule
  <2>3. Documented(rule, anchor, all) = NthBefore(anchor, n)
    BY <1>1, <1>6 DEF Documented
  <2> HIDE DEF n, e
  <2>4. NthBefore(anchor, n) = e
    BY <2>1, <2>2, NthBeforeIsDocumented
  <2> QED
    BY <2>3, <2>4 DEF e
<1>7. CASE fn \in {"same_day", "copy_date", "add_days", "previous_day", "start_of_tenor_year",
                   "first_day_of_tenor_month", "constant_month_of_tenor_year"}
  <2>1. Documented(rule, anchor, all) = Derived(rule, anchor, all)
    BY <1>1, <1>7 DEF Documented
  <2>2. Derived(rule, anchor, all) = e
    BY <1>1, <1>7 DEF Derived
  <2> QED
    BY <2>1, <2>2
<1> QED
  BY <1>3, <1>4, <1>5, <1>6, <1>7 DEF IsDateRule

-----------------------------------------------------------------------------
\* The dates a rule writes.

LEMMA TakenIsCase ==
  ASSUME NEW rule, IsList(rule.cases), NEW value, Taken(rule, value) # 0
  PROVE  Taken(rule, value) \in DOMAIN rule.cases
<1>1. CASE Matching(rule, value) # 0
  BY <1>1, SelectedFits DEF Taken
<1>2. CASE Matching(rule, value) = 0
  BY <1>2, DefaultFits DEF Taken
<1> QED
  BY <1>1, <1>2

LEMMA RuleExpressions ==
  ASSUME NEW h, IsHierarchy(h), ~Ambiguous(h), NEW rule \in ToSet(CollectRulesFromMro(h))
  PROVE  IsList(rule.cases) /\ \A c \in ToSet(rule.cases) : c.expr \in Expressions(h)
<1> DEFINE all == CollectRulesFromMro(h)
           own == Compiled(h)
<1>1. /\ IsList(all) /\ IsList(own) /\ Len(own) <= Len(all)
      /\ \A x \in 1..Len(own) : all[x] = own[x]
      /\ \A x \in (Len(own) + 1)..Len(all) : all[x] \in ExplicitRules(h)
  BY CollectedRules
<1>2. /\ DOMAIN all = 1..Len(all) /\ Len(all) \in Nat
      /\ DOMAIN own = 1..Len(own) /\ Len(own) \in Nat
  BY <1>1, ListIsSeq
<1>3. PICK x \in DOMAIN all : rule = all[x]
  BY DEF ToSet
<1>4. (x \in DOMAIN own /\ rule = own[x]) \/ rule \in ExplicitRules(h)
  <2> HIDE DEF all, own
  <2> QED
    BY <1>1, <1>2, <1>3
<1>5. CASE x \in DOMAIN own /\ rule = own[x]
  <2>1. IsList(rule.cases)
    BY <1>5, CompiledRule DEF IsRule
  <2>2. ASSUME NEW c \in ToSet(rule.cases) PROVE c.expr \in Expressions(h)
    <3>1. PICK m \in Methods(h) : c = OwnCase(Case(h[m[1]].methods[m[2]]))
      BY <1>5, CompiledCases
    <3>2. m[1] \in DOMAIN h /\ m[2] \in DOMAIN h[m[1]].methods
      <4>1. m[1] \in 1..Len(h) /\ m[2] \in 1..Len(h[m[1]].methods)
        BY MethodPlaces
      <4> QED
        BY <4>1, ListIsSeq DEF IsHierarchy
    <3>3. c.expr = h[m[1]].methods[m[2]].expr
      BY <3>1, CaseSpec DEF OwnCase
    <3>4. h[m[1]].methods[m[2]] \in ToSet(h[m[1]].methods)
      BY <3>2 DEF ToSet
    <3> QED
      BY <3>2, <3>3, <3>4 DEF Expressions
  <2> QED
    BY <2>1, <2>2
<1>6. CASE rule \in ExplicitRules(h)
  <2>1. PICK i \in DOMAIN h : rule \in ToSet(h[i].rules)
    BY <1>6 DEF ExplicitRules
  <2>2. IsList(rule.cases)
    BY <2>1 DEF IsHierarchy
  <2>3. \A c \in ToSet(rule.cases) : c.expr \in Expressions(h)
    BY <2>1 DEF Expressions
  <2> QED
    BY <2>2, <2>3
<1> QED
  BY <1>4, <1>5, <1>6

\* A rule whose expressions are date rules computes a date, or null.
LEMMA ComputedDate ==
  ASSUME NEW rule, IsList(rule.cases), NEW r, ReadBy(rule) \subseteq DOMAIN r,
         NEW held, IsFiniteSet(held), Null \notin Int,
         \A c \in ToSet(rule.cases) :
           /\ IsDateRule(c.expr)
           /\ c.expr.anchor \in DOMAIN r => r[c.expr.anchor] \in Int \cup {Null}
  PROVE  Computed(rule, r, held) \in Int \cup {Null}
<1> DEFINE i == Taken(rule, r[rule.selector])
           expr == rule.cases[i].expr
           anchor == r[expr.anchor]
<1>1. Computed(rule, r, held) = IF i = 0 THEN Null ELSE Derived(expr, anchor, held)
  BY DEF Computed
<1>2. CASE i # 0
  <2>1. i \in DOMAIN rule.cases /\ expr.anchor \in ReadBy(rule)
    BY <1>2, TakenIsCase, TakenIsRead
  <2>2. rule.cases[i] \in ToSet(rule.cases)
    BY <2>1 DEF ToSet
  <2>3. IsDateRule(expr) /\ anchor \in Int \cup {Null}
    BY <2>1, <2>2
  <2> HIDE DEF i, expr, anchor
  <2>4. CASE anchor = Null
    BY <1>1, <1>2, <2>4 DEF Derived
  <2>5. CASE anchor \in Int
    <3>1. Derived(expr, anchor, held) \in Int
      BY <2>3, <2>5, DerivedDates
    <3> QED
      BY <1>1, <1>2, <3>1
  <2> QED
    BY <2>3, <2>4, <2>5
<1> HIDE DEF i
<1> QED
  BY <1>1, <1>2

-----------------------------------------------------------------------------
\* Validation: the rules of the decorated methods settle one after the other.

\* The rules of the decorated methods.
Rules == Compiled(mro)

\* The column of a rule is as it was given.
Untouched(i, r) ==
  Rules[i].output \in DOMAIN r =>
    Rules[i].output \in DOMAIN given /\ r[Rules[i].output] = given[Rules[i].output]

\* The column of a rule holds what the rule says of the row, if nothing was given.
Settled(i, r) ==
  /\ ReadBy(Rules[i]) \subseteq DOMAIN r /\ Rules[i].output \in DOMAIN r
  /\ r[Rules[i].output] =
       IF Filled(Rules[i].output) THEN Computed(Rules[i], r, holidays[pricer])
       ELSE given[Rules[i].output]

\* The first k rules have been applied; the others are still to come, in order.
Progress(k, r, list) ==
  /\ \A i \in 1..k : Settled(i, r)
  /\ \A i \in (k + 1)..Len(Rules) : Untouched(i, r) /\ \E m \in DOMAIN list : list[m] = Rules[i]
  /\ \A i \in (k + 2)..Len(Rules) : \A m \in DOMAIN list :
       list[m] = Rules[i] => \E n \in 1..(m - 1) : list[n] = Rules[i - 1]

FrameInv ==
  /\ wraps \in Nat
  /\ status \in {"built", "resolving", "validated"} =>
       mro \in Hierarchies /\ DOMAIN given \subseteq DOMAIN row
  /\ status = "built" => row = given
  /\ status \in {"resolving", "validated"} => ~Ambiguous(mro)
  /\ status = "resolving" =>
       IsList(todo) /\ ToSet(todo) \subseteq ToSet(CollectRulesFromMro(mro))
  /\ Tidy =>
       /\ status = "resolving" => \E k \in 0..Len(Rules) : Progress(k, row, todo)
       /\ status = "validated" => \A i \in DOMAIN Rules : Settled(i, row)

LEMMA RulesTyped ==
  ASSUME mro \in Hierarchies
  PROVE  /\ IsHierarchy(mro) /\ IsList(Rules) /\ Len(Rules) \in Nat /\ DOMAIN Rules = 1..Len(Rules)
         /\ \A i \in DOMAIN Rules : IsRule(Rules[i]) /\ IsList(Rules[i].cases)
         /\ \A i, j \in DOMAIN Rules : KeyOf(Rules[i]) = KeyOf(Rules[j]) => i = j
<1>1. IsHierarchy(mro)
  BY FramesAssumption
<1> QED
  BY <1>1, CompiledGroups, CompiledRule, ListIsSeq DEF Rules, Grouping, IsRule

\* Every rule of the schema is one of a decorated method or writes none of
\* their columns and nothing they read.
LEMMA TidyRules ==
  ASSUME mro \in Hierarchies, Tidy, NEW rule \in ToSet(CollectRulesFromMro(mro))
  PROVE  \/ \E i \in DOMAIN Rules : rule = Rules[i]
         \/ \A i \in DOMAIN Rules :
              rule # Rules[i] /\ rule.output # Rules[i].output /\ rule.output \notin ReadBy(Rules[i])
<1> DEFINE all == CollectRulesFromMro(mro)
<1>1. /\ IsList(all) /\ DOMAIN all = 1..Len(all) /\ Len(all) \in Nat
      /\ \A x \in 1..Len(Rules) : all[x] = Rules[x]
      /\ \A x \in (Len(Rules) + 1)..Len(all) :
           /\ all[x] \in ExplicitRules(mro)
           /\ \A y \in 1..Len(Rules) : KeyOf(all[x]) # KeyOf(Rules[y])
  BY RulesTyped, CollectedRules, ListIsSeq DEF Rules
<1>2. PICK x \in DOMAIN all : rule = all[x]
  BY DEF ToSet
<1>3. Len(Rules) \in Nat /\ DOMAIN Rules = 1..Len(Rules)
  BY RulesTyped
<1> HIDE DEF all
<1>4. CASE x \in 1..Len(Rules)
  BY <1>1, <1>2, <1>3, <1>4
<1>5. CASE x \notin 1..Len(Rules)
  <2>1. x \in (Len(Rules) + 1)..Len(all)
    BY <1>1, <1>3, <1>5
  <2>2. rule \in ExplicitRules(mro) /\ \A y \in DOMAIN Rules : KeyOf(rule) # KeyOf(Rules[y])
    BY <1>1, <1>2, <1>3, <2>1
  <2>3. PICK c \in DOMAIN mro : rule \in ToSet(mro[c].rules)
    BY <2>2 DEF ExplicitRules
  <2>4. /\ \A r \in ToSet(Rules) : rule.output \notin ReadBy(r)
        /\ rule.output \in Outputs => KeyOf(rule) \in {KeyOf(r) : r \in ToSet(Rules)}
    BY <2>3 DEF Tidy, Rules
  <2>5. \A i \in DOMAIN Rules : Rules[i] \in ToSet(Rules)
    BY DEF ToSet
  <2>6. \A r \in ToSet(Rules) : \E i \in DOMAIN Rules : r = Rules[i]
    BY DEF ToSet
  <2>7. rule.output \notin Outputs
    BY <2>2, <2>4, <2>6
  <2>8. \A i \in DOMAIN Rules : Rules[i].output \in Outputs
    BY <2>5 DEF Outputs, Rules
  <2> QED
    BY <2>2, <2>4, <2>5, <2>7, <2>8
<1> QED
  BY <1>4, <1>5

LEMMA RepeatedInOrder ==
  ASSUME NEW rules, IsList(rules), NEW n \in Nat \ {0}
  PROVE  LET list == Repeated(rules, n)
         IN  /\ IsList(list) /\ ToSet(list) \subseteq ToSet(rules)
             /\ \A i \in 1..Len(rules) : i \in DOMAIN list /\ list[i] = rules[i]
             /\ \A m \in DOMAIN list : \E j \in 1..Len(rules) : list[m] = rules[j] /\ j <= m
<1> DEFINE s == [i \in 1..n |-> rules]
           list == Repeated(rules, n)
           X == ToSet(rules)
<1>1. rules \in Seq(X) /\ Len(rules) \in Nat /\ DOMAIN rules = 1..Len(rules)
  BY ListIsSeq
<1>2. s \in Seq(Seq(X)) /\ Len(s) = n /\ \A i \in 1..n : s[i] = rules
  <2> HIDE DEF X
  <2> QED
    BY <1>1
<1>3. list = FlattenSeq(s)
  BY DEF Repeated
<1> HIDE DEF s, list, X
<1>4. list \in Seq(X)
  BY <1>2, <1>3, Flattened
<1>5. PICK off : Offsets(s, list, off)
  BY <1>2, <1>3, Flattened
<1>6. \A i \in 1..Len(rules) : i \in DOMAIN list /\ list[i] = rules[i]
  <2> SUFFICES ASSUME NEW i \in 1..Len(rules) PROVE i \in DOMAIN list /\ list[i] = rules[i]
    OBVIOUS
  <2>1. 1 \in 1..Len(s) /\ s[1] = rules /\ i \in 1..Len(s[1])
    BY <1>2
  <2>2. off[1] + i \in DOMAIN list /\ list[off[1] + i] = s[1][i]
    BY <1>5, <2>1, OffsetsOrder
  <2>3. off[1] + i = i
    BY <1>1, <1>5 DEF Offsets
  <2> QED
    BY <2>1, <2>2, <2>3
<1>7. ASSUME NEW m \in DOMAIN list
      PROVE  \E j \in 1..Len(rules) : list[m] = rules[j] /\ j <= m
  <2>1. PICK i \in 1..Len(s) : \E j \in 1..Len(s[i]) : m = off[i] + j
    BY <1>5, OffsetsCover
  <2>2. PICK j \in 1..Len(s[i]) : m = off[i] + j
    BY <2>1
  <2>3. list[off[i] + j] = s[i][j] /\ off[i] + j >= j
    BY <1>5, OffsetsOrder
  <2>4. s[i] = rules /\ j \in Nat
    BY <1>1, <1>2
  <2>5. off[i] \in Nat
    <3>1. i \in 1..(Len(s) + 1)
      BY <1>2
    <3> QED
      BY <1>5, <3>1 DEF Offsets
  <2>6. j <= m
    BY <2>2, <2>4, <2>5
  <2> QED
    BY <2>2, <2>3, <2>4, <2>6
<1>8. IsList(list) /\ ToSet(list) \subseteq ToSet(rules)
  <2>1. \A m \in DOMAIN list : list[m] \in X
    BY <1>4
  <2> QED
    BY <1>4, <2>1, SeqIsList DEF ToSet, X
<1> QED
  BY <1>6, <1>7, <1>8 DEF list

\* A validation starts with none of the rules applied, or with all.
LEMMA FirstProgress ==
  ASSUME mro \in Hierarchies, Tidy, NEW n \in Nat \ {0}
  PROVE  Progress(0, given, Repeated(CollectRulesFromMro(mro), n))
<1> DEFINE all == CollectRulesFromMro(mro)
           list == Repeated(all, n)
<1>1. /\ IsList(all) /\ Len(all) \in Nat /\ Len(Rules) <= Len(all)
      /\ \A x \in 1..Len(Rules) : all[x] = Rules[x]
      /\ \A x \in (Len(Rules) + 1)..Len(all) :
           \A y \in 1..Len(Rules) : KeyOf(all[x]) # KeyOf(Rules[y])
  BY RulesTyped, CollectedRules, ListIsSeq DEF Rules
<1>2. /\ Len(Rules) \in Nat /\ DOMAIN Rules = 1..Len(Rules)
      /\ \A i, j \in DOMAIN Rules : KeyOf(Rules[i]) = KeyOf(Rules[j]) => i = j
  BY RulesTyped
<1>3. /\ IsList(list) /\ \A i \in 1..Len(all) : i \in DOMAIN list /\ list[i] = all[i]
      /\ \A m \in DOMAIN list : \E j \in 1..Len(all) : list[m] = all[j] /\ j <= m
  BY <1>1, RepeatedInOrder
<1>4. DOMAIN list = 1..Len(list) /\ Len(list) \in Nat
  BY <1>3, ListIsSeq
<1> HIDE DEF all, list
<1>5. \A i \in 1..Len(Rules) : i \in DOMAIN list /\ list[i] = Rules[i]
  BY <1>1, <1>2, <1>3
<1>6. ASSUME NEW i \in 2..Len(Rules), NEW m \in DOMAIN list, list[m] = Rules[i]
      PROVE  \E k \in 1..(m - 1) : list[k] = Rules[i - 1]
  <2>1. PICK j \in 1..Len(all) : list[m] = all[j] /\ j <= m
    BY <1>3
  <2> DEFINE len == Len(Rules)
  <2> HIDE DEF len
  <2>0. len \in Nat /\ i \in 1..len /\ all[j] = Rules[i]
    BY <1>2, <1>6, <2>1 DEF len
  <2>2. j \in 1..len
    <3>1. CASE j \in (len + 1)..Len(all)
      BY <1>1, <2>0, <3>1 DEF len
    <3> QED
      BY <1>1, <2>0, <2>1, <3>1
  <2>3. j = i
    <3>1. Rules[j] = Rules[i] /\ i \in DOMAIN Rules /\ j \in DOMAIN Rules
      BY <1>1, <1>2, <2>0, <2>2 DEF len
    <3> QED
      BY <1>2, <3>1
  <2>4. i - 1 \in 1..(m - 1) /\ i - 1 \in 1..Len(Rules)
    BY <1>2, <1>4, <1>6, <2>1, <2>3
  <2> QED
    BY <1>5, <2>4
<1>7. \A i \in 1..Len(Rules) : Untouched(i, given)
  BY DEF Untouched
<1> QED
  BY <1>2, <1>5, <1>6, <1>7 DEF Progress, list, all

\* r and new have the same in the columns S.
Same(r, new, S) ==
  \A c \in S : (c \in DOMAIN new <=> c \in DOMAIN r) /\ (c \in DOMAIN r => new[c] = r[c])

LEMMA SettledStays ==
  ASSUME mro \in Hierarchies, NEW i \in DOMAIN Rules, NEW r, NEW new, Settled(i, r),
         Same(r, new, ReadBy(Rules[i])), Same(r, new, {Rules[i].output})
  PROVE  Settled(i, new)
<1>1. IsList(Rules[i].cases)
  BY RulesTyped
<1>2. \A c \in ReadBy(Rules[i]) : c \in DOMAIN r /\ c \in DOMAIN new /\ new[c] = r[c]
  BY DEF Settled, Same
<1>3. Computed(Rules[i], r, holidays[pricer]) = Computed(Rules[i], new, holidays[pricer])
  BY <1>1, <1>2, ComputedReads
<1> QED
  BY <1>2, <1>3 DEF Settled, Same

LEMMA UntouchedStays ==
  ASSUME NEW i, NEW r, NEW new, Untouched(i, r), Same(r, new, {Rules[i].output})
  PROVE  Untouched(i, new)
  BY DEF Untouched, Same

LEMMA AppliedElsewhere ==
  ASSUME NEW rule, NEW r, NEW held, NEW S, rule.output \notin S
  PROVE  Same(r, Apply(rule, r, held), S)
  BY DEF Same, Apply, Written

\* A rule applied to a row it has settled changes nothing.
LEMMA AppliedAgain ==
  ASSUME mro \in Hierarchies, NEW i \in DOMAIN Rules, NEW r, Settled(i, r), NEW S
  PROVE  Same(r, Apply(Rules[i], r, holidays[pricer]), S)
<1> DEFINE o == Rules[i].output
           new == Apply(Rules[i], r, holidays[pricer])
<1>1. Rules[i].cases # <<>>
  BY RulesTyped DEF IsRule
<1>2. new = Written(Rules[i], r, holidays[pricer])
  BY <1>1 DEF Apply
<1>3. o \in DOMAIN r
  BY DEF Settled
<1>4. r[o] = Null => Computed(Rules[i], r, holidays[pricer]) = Null
  BY DEF Settled, Filled
<1>5. DOMAIN new = DOMAIN r \cup {o} /\ \A c \in DOMAIN r : new[c] = r[c]
  BY <1>2, <1>3, <1>4 DEF Written
<1> HIDE DEF new
<1> QED
  BY <1>3, <1>5 DEF Same, new

\* A rule applied for the first time settles its column.
LEMMA AppliedSettles ==
  ASSUME mro \in Hierarchies, Tidy, NEW i \in DOMAIN Rules, NEW r, Untouched(i, r),
         ReadBy(Rules[i]) \subseteq DOMAIN r, DOMAIN given \subseteq DOMAIN r
  PROVE  Settled(i, Apply(Rules[i], r, holidays[pricer]))
<1> DEFINE o == Rules[i].output
           held == holidays[pricer]
           new == Apply(Rules[i], r, held)
<1>1. Rules[i].cases # <<>> /\ IsList(Rules[i].cases)
  BY RulesTyped DEF IsRule
<1>2. new = Written(Rules[i], r, held)
  BY <1>1 DEF Apply
<1>3. o \notin ReadBy(Rules[i])
  <2>1. DOMAIN Rules = 1..Len(Rules)
    BY RulesTyped
  <2> QED
    BY <2>1 DEF Tidy, Orderly, Rules
<1>4. /\ DOMAIN new = DOMAIN r \cup {o} /\ \A c \in DOMAIN r : c # o => new[c] = r[c]
      /\ new[o] = IF o \in DOMAIN r /\ r[o] # Null THEN r[o] ELSE Computed(Rules[i], r, held)
  BY <1>2 DEF Written
<1> HIDE DEF new, held
<1>5. Computed(Rules[i], r, held) = Computed(Rules[i], new, held)
  BY <1>1, <1>3, <1>4, ComputedReads
<1>6. new[o] = IF Filled(o) THEN Computed(Rules[i], new, held) ELSE given[o]
  BY <1>4, <1>5 DEF Untouched, Filled
<1> QED
  BY <1>4, <1>6 DEF Settled, new, held

\* One rule of the list brings the validation on.
LEMMA RuleProgress ==
  ASSUME mro \in Hierarchies, Tidy, NEW k \in 0..Len(Rules), NEW r, NEW list,
         IsList(list), list # <<>>, ToSet(list) \subseteq ToSet(CollectRulesFromMro(mro)),
         Progress(k, r, list), ReadBy(Head(list)) \subseteq DOMAIN r,
         DOMAIN given \subseteq DOMAIN r
  PROVE  \E n \in 0..Len(Rules) :
           Progress(n, Apply(Head(list), r, holidays[pricer]), Tail(list))
<1> DEFINE head == Head(list)
           tail == Tail(list)
           new == Apply(head, r, holidays[pricer])
<1>1. /\ list \in Seq(ToSet(list)) /\ Len(list) \in Nat /\ Len(list) >= 1
      /\ DOMAIN list = 1..Len(list) /\ head = list[1]
      /\ DOMAIN tail = 1..(Len(list) - 1)
      /\ \A m \in 1..(Len(list) - 1) : tail[m] = list[m + 1]
  <2> DEFINE X == ToSet(list)
  <2>1. list \in Seq(X) /\ Len(list) \in Nat /\ DOMAIN list = 1..Len(list)
    BY ListIsSeq
  <2> HIDE DEF X
  <2>2. Len(list) >= 1
    BY <2>1
  <2>3. head = list[1] /\ DOMAIN tail = 1..(Len(list) - 1)
        /\ \A m \in 1..(Len(list) - 1) : tail[m] = list[m + 1]
    BY <2>1, <2>2
  <2> QED
    BY <2>1, <2>2, <2>3 DEF X
<1>2. /\ Len(Rules) \in Nat /\ DOMAIN Rules = 1..Len(Rules) /\ k \in Nat /\ k <= Len(Rules)
      /\ \A i, j \in DOMAIN Rules : KeyOf(Rules[i]) = KeyOf(Rules[j]) => i = j
  BY RulesTyped
<1>3. /\ \A i, j \in DOMAIN Rules : i <= j => Rules[j].output \notin ReadBy(Rules[i])
      /\ \A i, j \in DOMAIN Rules : Rules[i].output = Rules[j].output => i = j
  BY DEF Tidy, Orderly, Rules
<1> HIDE DEF head, tail, new
<1>4. head \in ToSet(CollectRulesFromMro(mro))
  <2>1. 1 \in DOMAIN list
    BY <1>1
  <2> QED
    BY <1>1, <2>1 DEF ToSet
\* What is left of the list, after a head that is not the n-th rule or later.
<1>5. ASSUME NEW n \in k..Len(Rules),
             \A i \in (n + 1)..Len(Rules) : head # Rules[i]
      PROVE  /\ \A i \in (n + 1)..Len(Rules) : \E m \in DOMAIN tail : tail[m] = Rules[i]
             /\ \A i \in (n + 2)..Len(Rules) : \A m \in DOMAIN tail :
                  tail[m] = Rules[i] => \E l \in 1..(m - 1) : tail[l] = Rules[i - 1]
  <2>1. ASSUME NEW i \in (n + 1)..Len(Rules) PROVE \E m \in DOMAIN tail : tail[m] = Rules[i]
    <3>1. i \in (k + 1)..Len(Rules)
      BY <1>2
    <3>2. PICK m \in DOMAIN list : list[m] = Rules[i]
      BY <3>1 DEF Progress
    <3>3. m # 1
      BY <1>1, <1>5, <3>2
    <3>4. m - 1 \in 1..(Len(list) - 1) /\ (m - 1) + 1 = m
      BY <1>1, <3>3
    <3> QED
      BY <1>1, <3>2, <3>4
  <2>2. ASSUME NEW i \in (n + 2)..Len(Rules), NEW m \in DOMAIN tail, tail[m] = Rules[i]
        PROVE  \E l \in 1..(m - 1) : tail[l] = Rules[i - 1]
    <3>1. i \in (k + 2)..Len(Rules) /\ i - 1 \in (n + 1)..Len(Rules)
      BY <1>2
    <3>2. m + 1 \in DOMAIN list /\ list[m + 1] = Rules[i] /\ m \in Nat
      BY <1>1, <2>2
    <3>3. PICK l \in 1..((m + 1) - 1) : list[l] = Rules[i - 1]
      BY <3>1, <3>2 DEF Progress
    <3>4. l # 1
      BY <1>1, <1>5, <3>1, <3>3
    <3>5. l - 1 \in 1..(m - 1) /\ (l - 1) + 1 = l /\ l - 1 \in 1..(Len(list) - 1)
      BY <1>1, <3>2, <3>3, <3>4
    <3>6. tail[l - 1] = Rules[i - 1]
      BY <1>1, <3>3, <3>5
    <3> QED
      BY <3>5, <3>6
  <2> QED
    BY <2>1, <2>2
<1>6. \A i \in 1..k : i \in DOMAIN Rules /\ Settled(i, r)
  BY <1>2 DEF Progress
<1>7. \A i \in (k + 1)..Len(Rules) : i \in DOMAIN Rules /\ Untouched(i, r)
  BY <1>2 DEF Progress
<1>8. CASE \E i \in DOMAIN Rules : head = Rules[i]
  <2>1. PICK i \in DOMAIN Rules : head = Rules[i]
    BY <1>8
  <2>2. i <= k + 1
    <3> SUFFICES ASSUME i \in (k + 2)..Len(Rules) PROVE FALSE
      BY <1>2
    <3>1. 1 \in DOMAIN list /\ list[1] = Rules[i]
      BY <1>1, <2>1
    <3>2. \E l \in 1..(1 - 1) : list[l] = Rules[i - 1]
      BY <3>1 DEF Progress
    <3> QED
      BY <3>2
  <2>3. \A j \in DOMAIN Rules : head = Rules[j] => j = i
    BY <1>2, <2>1
  <2>4. \A j \in DOMAIN Rules : j # i => Rules[i].output # Rules[j].output
    BY <1>3
  <2>5. CASE i <= k
    <3>1. Settled(i, r)
      BY <1>2, <1>6, <2>5
    <3>2. \A S : Same(r, new, S)
      BY <2>1, <3>1, AppliedAgain DEF new
    <3>3. \A j \in 1..k : Settled(j, new)
      BY <1>6, <3>2, SettledStays
    <3>4. \A j \in (k + 1)..Len(Rules) : Untouched(j, new)
      BY <1>7, <3>2, UntouchedStays
    <3>5. \A j \in (k + 1)..Len(Rules) : head # Rules[j]
      BY <1>2, <2>3, <2>5
    <3>6. Progress(k, new, tail)
      <4>1. k \in k..Len(Rules)
        BY <1>2
      <4> QED
        BY <1>5, <3>3, <3>4, <3>5, <4>1 DEF Progress
    <3> QED
      BY <3>6 DEF new, tail, head
  <2>6. CASE i = k + 1
    <3>1. Untouched(i, r)
      BY <1>2, <1>7, <2>6
    <3>2. Settled(i, new)
      BY <2>1, <3>1, AppliedSettles DEF new, head
    <3>3. ASSUME NEW j \in 1..k PROVE Settled(j, new)
      <4>1. j \in DOMAIN Rules /\ Settled(j, r) /\ j <= i /\ j # i
        BY <1>2, <1>6, <2>6
      <4>2. Rules[i].output \notin ReadBy(Rules[j]) /\ Rules[i].output \notin {Rules[j].output}
        BY <1>3, <2>4, <4>1
      <4>3. Same(r, new, ReadBy(Rules[j])) /\ Same(r, new, {Rules[j].output})
        BY <2>1, <4>2, AppliedElsewhere DEF new
      <4> QED
        BY <4>1, <4>3, SettledStays
    <3>4. \A j \in 1..(k + 1) : Settled(j, new)
      BY <1>2, <2>6, <3>2, <3>3
    <3>5. ASSUME NEW j \in (k + 2)..Len(Rules) PROVE Untouched(j, new)
      <4>1. j \in (k + 1)..Len(Rules) /\ j \in DOMAIN Rules /\ j # i
        BY <1>2, <2>6
      <4>2. Same(r, new, {Rules[j].output})
        BY <2>1, <2>4, <4>1, AppliedElsewhere DEF new
      <4> QED
        BY <1>7, <4>1, <4>2, UntouchedStays
    <3>6. \A j \in (k + 2)..Len(Rules) : head # Rules[j]
      BY <1>2, <2>3, <2>6
    <3>7. Progress(k + 1, new, tail) /\ k + 1 \in 0..Len(Rules)
      <4>1. k + 1 \in k..Len(Rules) /\ (k + 1) + 1 = k + 2
        BY <1>2, <2>6
      <4>2. /\ \A j \in ((k + 1) + 1)..Len(Rules) : \E m \in DOMAIN tail : tail[m] = Rules[j]
            /\ \A j \in ((k + 1) + 2)..Len(Rules) : \A m \in DOMAIN tail :
                 tail[m] = Rules[j] => \E l \in 1..(m - 1) : tail[l] = Rules[j - 1]
        BY <1>5, <3>6, <4>1
      <4>3. k + 1 \in 0..Len(Rules)
        BY <1>2, <4>1
      <4> QED
        BY <3>4, <3>5, <4>1, <4>2, <4>3 DEF Progress
    <3> QED
      BY <3>7 DEF new, tail, head
  <2> QED
    BY <1>2, <2>2, <2>5, <2>6
<1>9. CASE \A i \in DOMAIN Rules :
             head # Rules[i] /\ head.output # Rules[i].output /\ head.output \notin ReadBy(Rules[i])
  <2>1. \A j \in DOMAIN Rules :
          Same(r, new, ReadBy(Rules[j])) /\ Same(r, new, {Rules[j].output})
    BY <1>9, AppliedElsewhere DEF new
  <2>2. \A j \in 1..k : Settled(j, new)
    BY <1>6, <2>1, SettledStays
  <2>3. \A j \in (k + 1)..Len(Rules) : Untouched(j, new)
    BY <1>7, <2>1, UntouchedStays
  <2>4. \A j \in (k + 1)..Len(Rules) : head # Rules[j]
    BY <1>7, <1>9
  <2>5. Progress(k, new, tail)
    <3>1. k \in k..Len(Rules)
      BY <1>2
    <3> QED
      BY <1>5, <2>2, <2>3, <2>4, <3>1 DEF Progress
  <2> QED
    BY <2>5 DEF new, tail, head
<1> QED
  BY <1>4, <1>8, <1>9, TidyRules

\* Every step brings the validation on, or leaves it where it was.
LEMMA FrameStep == FrameInv /\ [Next]_vars => FrameInv'
<1> SUFFICES ASSUME FrameInv, [Next]_vars PROVE FrameInv'
  OBVIOUS
<1>1. CASE UNCHANGED frameVars /\ (status # "idle" => UNCHANGED calendarVars)
  <2>1. CASE status \in {"built", "resolving", "validated"}
    <3>1. UNCHANGED <<frameVars, calendarVars>>
      BY <1>1, <2>1
    <3> QED
      BY <3>1 DEF FrameInv, frameVars, calendarVars, Tidy, Outputs, Rules, Progress, Settled,
                  Untouched, Filled
  <2>2. CASE status \notin {"built", "resolving", "validated"}
    BY <1>1, <2>2 DEF FrameInv, frameVars
  <2> QED
    BY <2>1, <2>2
<1>2. CASE \E p \in Process, hierarchy \in Hierarchies, frame \in Frames :
             Build(p, hierarchy, frame)
  BY <1>2 DEF Build, FrameInv
<1>3. CASE Validate
  <2>1. /\ status \in {"built", "validated"} /\ ~Ambiguous(mro)
        /\ todo' = Repeated(CollectRulesFromMro(mro), 1 + wraps')
        /\ status' = "resolving" /\ UNCHANGED <<calendarVars, mro, given, row, pricer>>
    BY <1>3 DEF Validate
  <2>2. wraps' \in Nat /\ 1 + wraps' \in Nat \ {0}
    <3>1. wraps \in Nat
      BY DEF FrameInv
    <3>2. wraps' = 1 \/ wraps' = wraps + 1
      BY <1>3 DEF Validate, ToSchema
    <3> QED
      BY <3>1, <3>2
  <2>3. mro \in Hierarchies /\ DOMAIN given \subseteq DOMAIN row
    BY <2>1 DEF FrameInv
  <2>4. IsList(todo') /\ ToSet(todo') \subseteq ToSet(CollectRulesFromMro(mro))
    <3>1. IsList(CollectRulesFromMro(mro))
      BY <2>3, RulesTyped, CollectedRules
    <3> QED
      BY <2>1, <2>2, <3>1, RepeatedInOrder
  <2>5. ASSUME Tidy PROVE \E k \in 0..Len(Rules) : Progress(k, row, todo')
    <3>1. Len(Rules) \in Nat /\ DOMAIN Rules = 1..Len(Rules)
      BY <2>3, RulesTyped
    <3>2. CASE status = "built"
      <4>1. Progress(0, row, todo')
        BY <2>1, <2>2, <2>3, <2>5, <3>2, FirstProgress DEF FrameInv
      <4> QED
        BY <3>1, <4>1
    <3>3. CASE status = "validated"
      <4>1. \A i \in 1..Len(Rules) : Settled(i, row)
        BY <2>5, <3>1, <3>3 DEF FrameInv
      <4>2. (Len(Rules) + 1)..Len(Rules) = {} /\ (Len(Rules) + 2)..Len(Rules) = {}
        BY <3>1
      <4>3. Progress(Len(Rules), row, todo')
        BY <4>1, <4>2 DEF Progress
      <4> QED
        BY <3>1, <4>3
    <3> QED
      BY <2>1, <3>2, <3>3
  <2>6. Tidy' => \E k \in 0..Len(Rules)' : Progress(k, row, todo)'
    BY <2>1, <2>5 DEF Tidy, Outputs, Rules, Progress, Settled, Untouched, Filled, calendarVars
  <2> QED
    BY <2>1, <2>2, <2>3, <2>4, <2>6 DEF FrameInv
<1>4. CASE ApplyRule
  <2>1. /\ status = "resolving" /\ todo # <<>>
        /\ ReadBy(Head(todo)) \subseteq DOMAIN row
        /\ row' = Apply(Head(todo), row, holidays[pricer]) /\ todo' = Tail(todo)
        /\ UNCHANGED <<calendarVars, mro, given, wraps, validations, pricer, status>>
    BY <1>4 DEF ApplyRule
  <2>2. /\ mro \in Hierarchies /\ DOMAIN given \subseteq DOMAIN row /\ wraps \in Nat
        /\ ~Ambiguous(mro)
        /\ IsList(todo) /\ ToSet(todo) \subseteq ToSet(CollectRulesFromMro(mro))
    BY <2>1 DEF FrameInv
  <2>3. DOMAIN given \subseteq DOMAIN row'
    BY <2>1, <2>2, AppliedKeeps
  <2>4. IsList(todo') /\ ToSet(todo') \subseteq ToSet(todo)
    <3> DEFINE X == ToSet(todo)
    <3>1. todo \in Seq(X)
      BY <2>2, ListIsSeq
    <3> HIDE DEF X
    <3>2. todo' \in Seq(X)
      BY <2>1, <3>1
    <3>3. ToSet(todo') \subseteq X
      BY <3>2 DEF ToSet
    <3> QED
      BY <3>2, <3>3, SeqIsList DEF X
  <2>5. ASSUME Tidy PROVE \E k \in 0..Len(Rules) : Progress(k, row', todo')
    <3>1. PICK k \in 0..Len(Rules) : Progress(k, row, todo)
      BY <2>1, <2>5 DEF FrameInv
    <3> QED
      BY <2>1, <2>2, <2>5, <3>1, RuleProgress
  <2>6. Tidy' => \E k \in 0..Len(Rules)' : Progress(k, row, todo)'
    <3>1. Tidy' <=> Tidy
      BY <2>1 DEF Tidy, Outputs
    <3>2. Rules' = Rules
      BY <2>1 DEF Rules
    <3>3. ASSUME NEW k, Progress(k, row', todo') PROVE Progress(k, row, todo)'
      <4>1. ASSUME NEW i, Settled(i, row') PROVE Settled(i, row)'
        BY <2>1, <3>2, <4>1 DEF Settled, Filled, calendarVars
      <4>2. ASSUME NEW i, Untouched(i, row') PROVE Untouched(i, row)'
        BY <2>1, <3>2, <4>2 DEF Untouched
      <4> QED
        BY <3>2, <3>3, <4>1, <4>2 DEF Progress
    <3> QED
      BY <2>5, <3>1, <3>2, <3>3
  <2> QED
    BY <2>1, <2>2, <2>3, <2>4, <2>6 DEF FrameInv
<1>5. CASE Accepted
  <2>1. /\ status = "resolving" /\ todo = <<>> /\ status' = "validated"
        /\ UNCHANGED <<calendarVars, mro, given, row, todo, wraps, validations, pricer>>
    BY <1>5 DEF Accepted
  <2>2. mro \in Hierarchies /\ DOMAIN given \subseteq DOMAIN row /\ wraps \in Nat /\ ~Ambiguous(mro)
    BY <2>1 DEF FrameInv
  <2>3. ASSUME Tidy PROVE \A i \in DOMAIN Rules : Settled(i, row)
    <3>1. PICK k \in 0..Len(Rules) : Progress(k, row, todo)
      BY <2>1, <2>3 DEF FrameInv
    <3>2. Len(Rules) \in Nat /\ DOMAIN Rules = 1..Len(Rules)
      BY <2>2, RulesTyped
    <3>3. DOMAIN todo = {}
      BY <2>1
    <3>4. ~(k + 1 \in (k + 1)..Len(Rules))
      BY <3>1, <3>3 DEF Progress
    <3>5. k = Len(Rules)
      <4> DEFINE n == Len(Rules)
      <4>1. n \in Nat /\ k \in 0..n /\ ~(k + 1 \in (k + 1)..n)
        BY <3>2, <3>4
      <4> HIDE DEF n
      <4>2. k = n
        BY ONLY <4>1, SMT
      <4> QED
        BY <4>2 DEF n
    <3> QED
      BY <3>1, <3>2, <3>5 DEF Progress
  <2>4. Tidy' => \A i \in (DOMAIN Rules)' : Settled(i, row)'
    BY <2>1, <2>3 DEF Tidy, Outputs, Rules, Settled, Filled, calendarVars
  <2> QED
    BY <2>1, <2>2, <2>4 DEF FrameInv
<1>6. CASE ValidateRaises \/ Rejected
  BY <1>6 DEF ValidateRaises, Rejected, FrameInv
<1>7. (\E p \in Process : CalendarStep(p)) /\ status = "idle" /\ UNCHANGED frameVars
        => UNCHANGED frameVars /\ (status # "idle" => UNCHANGED calendarVars)
  OBVIOUS
<1>8. UNCHANGED vars => UNCHANGED frameVars /\ (status # "idle" => UNCHANGED calendarVars)
  BY DEF vars
<1> QED
  BY <1>1, <1>2, <1>3, <1>4, <1>5, <1>6, <1>7, <1>8 DEF Next

LEMMA FrameInductive == FrameSpec => []FrameInv
<1>1. Init => FrameInv
  BY DEF Init, FrameInit, FrameInv
<1> QED
  BY <1>1, FrameStep, PTL DEF FrameSpec

\* The rule of a column takes its case t, if not 0, and so has the most specific
\* expression; what it computes of the row stands in the column.
Decided(output, rule, t) ==
  /\ IsList(rule.cases)
  /\ \/ t = 0 /\ Deciding(output) = {}
     \/ /\ t \in DOMAIN rule.cases /\ t # 0
        /\ Deciding(output) = {rule.cases[t].expr}
        /\ rule.cases[t].expr.anchor \in DOMAIN row
  /\ row[output] =
       IF ~Filled(output) THEN given[output]
       ELSE IF t = 0 THEN Null
       ELSE Derived(rule.cases[t].expr, row[rule.cases[t].expr.anchor], holidays[pricer])

LEMMA DecidingTaken ==
  ASSUME FrameInv, status = "validated", Tidy, NEW output \in Outputs
  PROVE  \E i \in DOMAIN Rules, t \in Nat : Decided(output, Rules[i], t)
<1>1. mro \in Hierarchies /\ ~Ambiguous(mro) /\ \A i \in DOMAIN Rules : Settled(i, row)
  BY DEF FrameInv
<1>2. IsHierarchy(mro) /\ \A i \in DOMAIN Rules : IsList(Rules[i].cases)
  BY <1>1, RulesTyped
<1>3. PICK i \in DOMAIN Rules : Rules[i].output = output
  BY DEF Outputs, Rules, ToSet
<1> DEFINE rule == Rules[i]
           value == IF rule.selector \in DOMAIN row THEN row[rule.selector] ELSE Null
           t == Taken(rule, value)
<1>4. Deciding(output) = MostSpecific(mro, output, value)
  <2>1. \A j \in DOMAIN Rules : Rules[j].output = output => j = i
    BY <1>3 DEF Tidy, Orderly, Rules
  <2>2. (CHOOSE r \in ToSet(Rules) : r.output = output) = Rules[i]
    <3>1. Rules[i] \in ToSet(Rules)
      BY DEF ToSet
    <3>2. \A r \in ToSet(Rules) : r.output = output => r = Rules[i]
      BY <2>1 DEF ToSet
    <3> QED
      BY <1>3, <3>1, <3>2
  <2> DEFINE chosen == CHOOSE r \in ToSet(Compiled(mro)) : r.output = output
  <2>3. Deciding(output) =
          MostSpecific(mro, output,
                       IF chosen.selector \in DOMAIN row THEN row[chosen.selector] ELSE Null)
    BY DEF Deciding
  <2>4. chosen = rule
    BY <2>2 DEF Rules
  <2> HIDE DEF rule, chosen
  <2> QED
    BY <2>3, <2>4
<1>5. /\ t = 0 => Deciding(output) = {}
      /\ t # 0 => Deciding(output) = {rule.cases[t].expr}
  BY <1>1, <1>2, <1>3, <1>4, TakenIsMostSpecific DEF Rules
<1>6. ReadBy(rule) \subseteq DOMAIN row
      /\ row[output] = IF Filled(output) THEN Computed(rule, row, holidays[pricer])
                       ELSE given[output]
  BY <1>1, <1>3 DEF Settled
<1>7. Taken(rule, row[rule.selector]) = t
  <2>1. rule.selector \in ReadBy(rule) => row[rule.selector] = value
    BY <1>6
  <2> HIDE DEF value
  <2> QED
    BY <1>2, <2>1, ReadsDecide
<1>8. Computed(rule, row, holidays[pricer]) =
        IF t = 0 THEN Null
        ELSE Derived(rule.cases[t].expr, row[rule.cases[t].expr.anchor], holidays[pricer])
  <2> HIDE DEF t
  <2> QED
    BY <1>7 DEF Computed
<1>9. t # 0 => t \in DOMAIN rule.cases /\ rule.cases[t].expr.anchor \in DOMAIN row
  BY <1>2, <1>6, TakenIsCase, TakenIsRead
<1>10. IsList(rule.cases) /\ t \in Nat
  <2>1. IsList(rule.cases) /\ DOMAIN rule.cases = 1..Len(rule.cases)
    BY <1>2, ListIsSeq
  <2>2. t = 0 \/ t \in 1..Len(rule.cases)
    BY <1>9, <2>1
  <2> HIDE DEF t, rule
  <2> QED
    BY <2>1, <2>2
<1> HIDE DEF t, rule
<1>11. Decided(output, rule, t)
  BY <1>5, <1>6, <1>8, <1>9, <1>10 DEF Decided
<1> QED
  BY <1>10, <1>11 DEF rule

\* "More-specific classes override base-class cases" (rules.py:87): in any
\* hierarchy that is tidy, whatever explicit rules stand beside, a validated row
\* has what the most specific class says, through any number of validations,
\* of wrappers round them and of pricing functions before.
THEOREM MostSpecificAlwaysWins == FrameSpec => []MostSpecificWins
<1>1. FrameInv => MostSpecificWins
  <2> SUFFICES ASSUME FrameInv, status = "validated", Tidy, NEW output \in Outputs
               PROVE  row[output] =
                        IF ~Filled(output) THEN given[output]
                        ELSE IF Deciding(output) = {} THEN Null
                        ELSE LET expr == CHOOSE e \in Deciding(output) : TRUE
                             IN  Derived(expr, row[expr.anchor], holidays[pricer])
    BY DEF MostSpecificWins
  <2>1. PICK i \in DOMAIN Rules, t \in Nat : Decided(output, Rules[i], t)
    BY DecidingTaken
  <2> DEFINE rule == Rules[i]
             expr == rule.cases[t].expr
  <2>2. /\ (t = 0 /\ Deciding(output) = {}) \/ (t # 0 /\ Deciding(output) = {expr})
        /\ row[output] =
             IF ~Filled(output) THEN given[output]
             ELSE IF t = 0 THEN Null
             ELSE Derived(expr, row[expr.anchor], holidays[pricer])
    BY <2>1 DEF Decided
  <2> HIDE DEF rule, expr
  <2>3. CASE t = 0
    BY <2>2, <2>3
  <2>4. CASE t # 0
    <3>1. Deciding(output) # {} /\ (CHOOSE e \in Deciding(output) : TRUE) = expr
      BY <2>2, <2>4
    <3> QED
      BY <2>2, <2>4, <3>1
  <2> QED
    BY <2>3, <2>4
<1> QED
  BY <1>1, FrameInductive, PTL

-----------------------------------------------------------------------------
\* The dates in a row, by the calendar its process holds.

\* The columns the rules of a schema anchor their dates at hold dates.
DateInv ==
  status \in {"built", "resolving", "validated"} =>
    /\ pricer \in Process /\ pc[pricer] = "ready"
    /\ IsDated(mro, row)

LEMMA HeldCalendar ==
  ASSUME CalendarInv, ReadyInv, DateInv, status \in {"built", "resolving", "validated"}
  PROVE  LET held == holidays[pricer]
         IN  /\ held \subseteq GenerateHolidays
             /\ \A d \in held : \A e \in GenerateHolidays : e < d => e \in held
             /\ IsFiniteSet(held)
<1>1. PICK n \in Places : holidays[pricer] = Loaded(n)
  BY DEF DateInv, ReadyInv
<1>2. /\ Loaded(n) \subseteq GenerateHolidays
      /\ \A d \in Loaded(n) : \A e \in GenerateHolidays : e < d => e \in Loaded(n)
  BY LoadedIsPrefix
<1>3. IsFiniteSet(Loaded(n))
  BY <1>2, HolidaysFinite, FS_Subset
<1> QED
  BY <1>1, <1>2, <1>3

\* An application writes a date, or null, or nothing.
LEMMA AppliedDated ==
  ASSUME NEW h \in Hierarchies, ~Ambiguous(h), NEW rule \in ToSet(CollectRulesFromMro(h)),
         NEW r, ReadBy(rule) \subseteq DOMAIN r, NEW held, IsFiniteSet(held), IsDated(h, r)
  PROVE  IsDated(h, Apply(rule, r, held))
<1>1. /\ IsHierarchy(h) /\ Null \notin Int
      /\ \A expr \in Expressions(h) : IsDateRule(expr)
  BY FramesAssumption
<1>2. IsList(rule.cases) /\ \A c \in ToSet(rule.cases) : c.expr \in Expressions(h)
  BY <1>1, RuleExpressions
<1>3. Computed(rule, r, held) \in Int \cup {Null}
  BY <1>1, <1>2, ComputedDate DEF IsDated
<1>4. CASE rule.cases = <<>>
  BY <1>4 DEF Apply
<1>5. CASE rule.cases # <<>>
  <2> DEFINE new == Written(rule, r, held)
  <2>1. Apply(rule, r, held) = new
    BY <1>5 DEF Apply
  <2>2. \A c \in DOMAIN new :
          (c \in DOMAIN r /\ new[c] = r[c]) \/ new[c] = Computed(rule, r, held)
    BY DEF Written
  <2> HIDE DEF new
  <2> QED
    BY <1>3, <2>1, <2>2 DEF IsDated
<1> QED
  BY <1>4, <1>5

LEMMA DateStep == CalendarInv /\ ReadyInv /\ FrameInv /\ DateInv /\ [Next]_vars => DateInv'
<1> SUFFICES ASSUME CalendarInv, ReadyInv, FrameInv, DateInv, [Next]_vars PROVE DateInv'
  OBVIOUS
<1> USE DEF IsDated
<1>1. CASE status = "idle" /\ UNCHANGED frameVars
  BY <1>1 DEF DateInv, frameVars
<1>2. CASE \E p \in Process, hierarchy \in Hierarchies, frame \in Frames :
             Build(p, hierarchy, frame)
  BY <1>2, FramesAssumption DEF Build, DateInv, calendarVars
<1>3. CASE Validate \/ ValidateRaises \/ Rejected \/ Accepted
  BY <1>3 DEF Validate, ValidateRaises, Rejected, Accepted, DateInv, calendarVars
<1>4. CASE ApplyRule
  <2>1. /\ status = "resolving" /\ todo # <<>>
        /\ ReadBy(Head(todo)) \subseteq DOMAIN row
        /\ row' = Apply(Head(todo), row, holidays[pricer])
        /\ UNCHANGED <<calendarVars, mro, pricer, status>>
    BY <1>4 DEF ApplyRule
  <2>2. mro \in Hierarchies /\ ~Ambiguous(mro)
        /\ IsList(todo) /\ ToSet(todo) \subseteq ToSet(CollectRulesFromMro(mro))
    BY <2>1 DEF FrameInv
  <2>3. Head(todo) \in ToSet(CollectRulesFromMro(mro))
    <3>1. DOMAIN todo = 1..Len(todo) /\ Len(todo) \in Nat /\ todo \in Seq(ToSet(todo))
      BY <2>2, ListIsSeq
    <3>2. 1 \in DOMAIN todo /\ Head(todo) = todo[1]
      BY <2>1, <3>1
    <3> QED
      BY <2>2, <3>2 DEF ToSet
  <2>4. IsFiniteSet(holidays[pricer]) /\ IsDated(mro, row)
    BY <2>1, HeldCalendar DEF DateInv
  <2>5. IsDated(mro, row')
    BY <2>1, <2>2, <2>3, <2>4, AppliedDated
  <2> QED
    BY <2>1, <2>5 DEF DateInv, calendarVars
<1>5. CASE UNCHANGED vars
  BY <1>5 DEF vars, frameVars, calendarVars, DateInv
<1> QED
  BY <1>1, <1>2, <1>3, <1>4, <1>5 DEF Next

LEMMA DateInductive == FrameSpec => []DateInv
<1>1. Init => DateInv
  BY DEF Init, FrameInit, DateInv
<1> QED
  BY <1>1, DateStep, CalendarInductive, ReadyInductive, FrameInductive, PTL DEF FrameSpec

\* business_days.py, date_rules.py: a date a validated row has derived is the
\* one its rule names by the whole calendar, though the process may hold but the
\* first of the holidays; or it counts business days past the last one it holds.
THEOREM DatesRightBeforeHorizon == FrameSpec => []RightBeforeHorizon
<1>1. CalendarInv /\ ReadyInv /\ FrameInv /\ DateInv => RightBeforeHorizon
  <2> SUFFICES ASSUME CalendarInv, ReadyInv, FrameInv, DateInv, status = "validated", Tidy,
                      NEW output \in Outputs, Filled(output), row[output] # Null,
                      NEW expr \in Deciding(output)
               PROVE  \/ /\ expr.fn = "nth_business_day_of_following_month"
                         /\ \A d \in holidays[pricer] : d < row[output]
                      \/ row[output] = Documented(expr, row[expr.anchor], GenerateHolidays)
    BY DEF RightBeforeHorizon
  <2>1. PICK i \in DOMAIN Rules, t \in Nat : Decided(output, Rules[i], t)
    BY DecidingTaken
  <2> DEFINE rule == Rules[i]
             anchor == row[expr.anchor]
             held == holidays[pricer]
             all == GenerateHolidays
  <2>2. /\ IsList(rule.cases) /\ t \in DOMAIN rule.cases /\ expr = rule.cases[t].expr
        /\ expr.anchor \in DOMAIN row /\ row[output] = Derived(expr, anchor, held)
    BY <2>1 DEF Decided
  <2>3. mro \in Hierarchies /\ ~Ambiguous(mro)
    BY DEF FrameInv
  <2>4. rule \in ToSet(CollectRulesFromMro(mro))
    <3> DEFINE collected == CollectRulesFromMro(mro)
    <3>1. /\ IsList(collected) /\ IsList(Rules) /\ Len(Rules) <= Len(collected)
          /\ \A x \in 1..Len(Rules) : collected[x] = Rules[x]
      BY <2>3, RulesTyped, CollectedRules DEF Rules
    <3>2. /\ DOMAIN Rules = 1..Len(Rules) /\ Len(Rules) \in Nat
          /\ DOMAIN collected = 1..Len(collected) /\ Len(collected) \in Nat
      BY <3>1, ListIsSeq
    <3> HIDE DEF collected
    <3>3. i \in DOMAIN collected /\ collected[i] = rule
      BY <3>1, <3>2
    <3> QED
      BY <3>3 DEF ToSet, collected
  <2>5. expr \in Expressions(mro)
    <3>1. rule.cases[t] \in ToSet(rule.cases)
      BY <2>2 DEF ToSet
    <3> QED
      BY <2>2, <2>3, <2>4, <3>1, RuleExpressions, FramesAssumption
  <2>6. IsDateRule(expr) /\ Null \notin Int /\ anchor \in Int \cup {Null}
    BY <2>2, <2>3, <2>5, FramesAssumption DEF DateInv, IsDated
  <2>7. /\ held \subseteq GenerateHolidays
        /\ \A d \in held : \A e \in GenerateHolidays : e < d => e \in held
    BY HeldCalendar
  <2>8. IsFiniteSet(GenerateHolidays) /\ GenerateHolidays \subseteq Int
    BY HolidaysFinite
  <2> HIDE DEF anchor, held, all
  <2>9. anchor \in Int
    BY <2>2, <2>6 DEF Derived
  <2>10. \/ /\ expr.fn = "nth_business_day_of_following_month"
            /\ \A d \in held : d < Derived(expr, anchor, held)
         \/ Derived(expr, anchor, held) = Documented(expr, anchor, all)
    BY <2>6, <2>7, <2>8, <2>9, DerivedAsDocumented DEF all
  <2> QED
    BY <2>2, <2>10 DEF anchor, held, all
<1> QED
  BY <1>1, CalendarInductive, ReadyInductive, FrameInductive, DateInductive, PTL
=============================================================================
