---------------------------- MODULE AnbimaCalendar ----------------------------
(***************************************************************************)
(* The ANBIMA holiday calendar (market_data/calendar/anbima.py): generated  *)
(* from the Easter date, kept in the file ANBIMA.cal, and loaded once by    *)
(* every process that imports the module, which writes the file first when  *)
(* it is missing.  A process that has loaded it may regenerate it.          *)
(*                                                                          *)
(* The file is a prefix of the sorted dates: opening it for writing cuts it *)
(* to nothing, and the one write of all lines may stop early (a full disk)  *)
(* or never come (a crash).  Comments and blank lines carry no dates.       *)
(***************************************************************************)
EXTENDS Dates, SequencesExt

CONSTANTS Process,              \* the processes that import schenberg
          StartYear, EndYear,   \* 2000 and 2100 in the code
          Cuts,                 \* how many dates a write that fails leaves
          MaxFaults, MaxWrites, \* bounds: crashes and failed writes; regenerations
          NoFile

ASSUME AnbimaAssumption ==
  /\ StartYear \in Nat /\ EndYear \in Nat /\ StartYear <= EndYear
  /\ Cuts \subseteq Nat /\ MaxFaults \in Nat /\ MaxWrites \in Nat

FixedHolidays ==
  {<<1, 1>>, <<4, 21>>, <<5, 1>>, <<9, 7>>, <<10, 12>>, <<11, 2>>, <<11, 15>>, <<12, 25>>}

\* _easter_sunday: the algorithm of Meeus, Jones and Butcher.
EasterSunday(year) ==
  LET a == year % 19
      b == year \div 100     c == year % 100
      d == b \div 4          e == b % 4
      f == (b + 8) \div 25   g == (b - f + 1) \div 3
      h == (19 * a + b - d - g + 15) % 30
      i == c \div 4          k == c % 4
      l == (32 + 2 * e + 2 * i - h - k) % 7
      m == (a + 11 * h + 22 * l) \div 451
      days == h + l - 7 * m + 114
  IN  Day(year, days \div 31, (days % 31) + 1)

HolidaysForYear(year) ==
  {Day(year, md[1], md[2]) : md \in FixedHolidays}
    \cup (IF year >= 2024 THEN {Day(year, 11, 20)} ELSE {})
    \cup {EasterSunday(year) + n : n \in {-48, -47, -2, 60}}

GenerateHolidays == UNION {HolidaysForYear(year) : year \in StartYear..EndYear}

\* Mutant: the dates are written from the last one on.
LinesFromLast ==
  [i \in 1..Cardinality(GenerateHolidays) |->
     CHOOSE d \in GenerateHolidays : Cardinality({e \in GenerateHolidays : e > d}) = i - 1]

\* The lines write_cal_file writes, in order.
Lines ==
  [i \in 1..Cardinality(GenerateHolidays) |->
     CHOOSE d \in GenerateHolidays : Cardinality({e \in GenerateHolidays : e < d}) = i - 1]

-----------------------------------------------------------------------------
VARIABLES file,     \* NoFile, or [dates, cut]: its lines, the last one cut or not
          pc,       \* process -> where it is in import or in write_cal_file
          holidays, \* process -> ANBIMA_HOLIDAYS, NoFile before it is loaded
          faults, writes

calendarVars == <<file, pc, holidays, faults, writes>>

Phase == {"start", "open", "write", "load", "ready", "rewrite", "failed"}

Empty == [dates |-> <<>>, cut |-> FALSE]
Full == [dates |-> Lines, cut |-> FALSE]

CalendarInit ==
  /\ file \in {NoFile, Full}
  /\ pc = [p \in Process |-> "start"]
  /\ holidays = [p \in Process |-> NoFile]
  /\ faults = 0 /\ writes = 0

Goes(p, from, to) == pc[p] = from /\ pc' = [pc EXCEPT ![p] = to]

\* "if not CAL_PATH.exists()"
Import(p) ==
  /\ Goes(p, "start", IF file = NoFile THEN "open" ELSE "load")
  /\ UNCHANGED <<file, holidays, faults, writes>>

Open(p) ==
  /\ Goes(p, "open", "write")
  /\ file' = Empty
  /\ UNCHANGED <<holidays, faults, writes>>

\* Mutant: nothing is written before the file is read.
WriteLater(p) ==
  /\ Goes(p, "write", "load")
  /\ UNCHANGED <<file, holidays, faults, writes>>

\* Every writer writes at the start of the file it opened.
Write(p) ==
  /\ \/ Goes(p, "write", "load")
     \/ Goes(p, "rewrite", "ready")
  /\ file' = Full
  /\ UNCHANGED <<holidays, faults, writes>>

\* The write raises after part of the lines, and the import fails with it.
\* What another writer has put further on in the file stays.
WriteFails(p) ==
  /\ faults < MaxFaults
  /\ pc[p] \in {"write", "rewrite"}
  /\ \E n \in Cuts, cut \in BOOLEAN :
       /\ n < Len(Lines)
       /\ file' = IF n > Len(file.dates) \/ (n = Len(file.dates) /\ cut)
                  THEN [dates |-> SubSeq(Lines, 1, n), cut |-> cut] ELSE file
  /\ pc' = [pc EXCEPT ![p] = IF @ = "write" THEN "failed" ELSE "ready"]
  /\ faults' = faults + 1
  /\ UNCHANGED <<holidays, writes>>

\* load_holidays: a line that is cut is no date, and the import fails.
Load(p) ==
  /\ Goes(p, "load", IF file.cut THEN "failed" ELSE "ready")
  /\ holidays' = IF file.cut THEN holidays ELSE [holidays EXCEPT ![p] = ToSet(file.dates)]
  /\ UNCHANGED <<file, faults, writes>>

\* write_cal_file(), called by a process that has imported the module.
Regenerate(p) ==
  /\ writes < MaxWrites
  /\ Goes(p, "ready", "rewrite")
  /\ file' = Empty
  /\ writes' = writes + 1
  /\ UNCHANGED <<holidays, faults>>

\* A process dies anywhere, or exits after a failed import, and is started again.
Crash(p) ==
  /\ pc[p] # "start"
  /\ pc[p] # "failed" => faults < MaxFaults
  /\ faults' = IF pc[p] = "failed" THEN faults ELSE faults + 1
  /\ pc' = [pc EXCEPT ![p] = "start"]
  /\ holidays' = [holidays EXCEPT ![p] = NoFile]
  /\ UNCHANGED <<file, writes>>

CalendarStep(p) ==
  \/ Import(p) \/ Open(p) \/ Write(p) \/ WriteFails(p)
  \/ Load(p) \/ Regenerate(p) \/ Crash(p)

-----------------------------------------------------------------------------
\* Properties.

\* A process holds the earliest holidays, however many writers met and
\* wherever they stopped: it may lack holidays after the last it holds, never
\* one before.
NoHolidayMissedBefore ==
  \A p \in Process : holidays[p] # NoFile =>
    /\ holidays[p] \subseteq GenerateHolidays
    /\ \A d \in holidays[p] : \A e \in GenerateHolidays : e < d => e \in holidays[p]

\* anbima.py:129: a file that is absent is generated, so the import does not
\* fail.  With no write failed or abandoned and no other process writing, an
\* import holds every holiday of the calendar.
QuietImportLoadsAll ==
  [][\A p \in Process :
       /\ pc[p] = "load" /\ pc'[p] \in {"ready", "failed"} /\ faults = 0
       /\ \A q \in Process : pc[q] \notin {"write", "rewrite"}
       => pc'[p] = "ready" /\ holidays'[p] = GenerateHolidays]_calendarVars
=============================================================================
