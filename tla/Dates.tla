-------------------------------- MODULE Dates --------------------------------
(***************************************************************************)
(* Dates as day numbers counted from 1970-01-01, and the rules of           *)
(* date_rules.py and business_days.py over them.  The civil calendar and    *)
(* polars' add_business_days are external.                                  *)
(***************************************************************************)
EXTENDS Integers, FiniteSets

CONSTANT Null   \* polars' null

\* The Gregorian calendar, with years that start in March.
Day(year, month, day) ==
  LET y == IF month <= 2 THEN year - 1 ELSE year
      yearday == (153 * ((month + 9) % 12) + 2) \div 5 + day - 1
  IN  365 * y + y \div 4 - y \div 100 + y \div 400 + yearday - 719468

\* Back from the day number: eras of 400 such years have 146097 days each.
Civil(d) ==
  LET era == (d + 719468) \div 146097
      day == (d + 719468) % 146097
      year == (day - day \div 1460 + day \div 36524 - day \div 146096) \div 365
      yearday == day - (365 * year + year \div 4 - year \div 100)
      month == (((5 * yearday + 2) \div 153 + 2) % 12) + 1
  IN  [year |-> 400 * era + year + (IF month <= 2 THEN 1 ELSE 0), month |-> month]

Year(d) == Civil(d).year
Month(d) == Civil(d).month

\* Monday is 0.
Weekday(d) == (d + 3) % 7

IsBusinessDay(d, holidays) == Weekday(d) < 5 /\ d \notin holidays

\* business_day_count and business_day_count_expr: from start up to, without, end.
BusinessDayCount(start, end, holidays) ==
  Cardinality({d \in start..(end - 1) : IsBusinessDay(d, holidays)})

\* The business day itself or the next one in the direction of step.
Roll(date, step, holidays) ==
  LET roll[d \in Int] == IF IsBusinessDay(d, holidays) THEN d ELSE roll[d + step]
  IN  roll[date]

\* Expr.dt.add_business_days(n, holidays, roll="forward")
AddBusinessDays(date, n, holidays) ==
  LET step == IF n < 0 THEN -1 ELSE 1
      days == IF n < 0 THEN -n ELSE n
      day[k \in 0..days] ==
        IF k = 0 THEN Roll(date, 1, holidays) ELSE Roll(day[k - 1] + step, step, holidays)
  IN  day[days]

-----------------------------------------------------------------------------
\* date_rules.py

\* dt.offset_by("1mo") of the first day of a month.
FirstOfFollowing(d) ==
  IF Month(d) = 12 THEN Day(Year(d) + 1, 1, 1) ELSE Day(Year(d), Month(d) + 1, 1)

\* Mutant: n business days are added to the first one.
NthBusinessDayCounted(period, n, holidays) ==
  AddBusinessDays(FirstOfFollowing(period), n, holidays)

\* The period of a date is its month; n >= 1 is required.
NthBusinessDayOfFollowingMonth(period, n, holidays) ==
  AddBusinessDays(FirstOfFollowing(period), n - 1, holidays)

StartOfTenorYear(d) == Day(Year(d), 1, 1)
FirstDayOfTenorMonth(d) == Day(Year(d), Month(d), 1)
ConstantMonthOfTenorYear(d, month) == Day(Year(d), month, 1)

AddDays(d, days) == d + days
PreviousDay(d) == d - 1

\* Monday to Friday, whatever the calendar of the market.
PreviousBusinessDays(d, n) == AddBusinessDays(d, -n, {})
PreviousBusinessDay(d) == AddBusinessDays(d, -1, {})
NthBusinessDayNextMonth(d, n) == NthBusinessDayOfFollowingMonth(d, n, {})

\* The expressions of date_rules; those that count raise for n < 1.
IsDateRule(rule) ==
  /\ rule.fn \in {"same_day", "copy_date", "add_days", "previous_day", "previous_business_day",
                  "start_of_tenor_year", "first_day_of_tenor_month",
                  "constant_month_of_tenor_year", "previous_business_days",
                  "nth_business_day_of_following_month", "nth_business_day_next_month"}
  /\ rule.n \in Int
  /\ rule.fn \in {"previous_business_days", "nth_business_day_of_following_month",
                  "nth_business_day_next_month"} => rule.n >= 1

\* What an expression of date_rules computes from its anchor column.
Derived(rule, anchor, holidays) ==
  IF anchor = Null THEN Null
  ELSE CASE rule.fn = "same_day" -> anchor
         [] rule.fn = "copy_date" -> anchor
         [] rule.fn = "add_days" -> AddDays(anchor, rule.n)
         [] rule.fn = "previous_day" -> PreviousDay(anchor)
         [] rule.fn = "previous_business_day" -> PreviousBusinessDay(anchor)
         [] rule.fn = "previous_business_days" -> PreviousBusinessDays(anchor, rule.n)
         [] rule.fn = "nth_business_day_of_following_month" ->
              NthBusinessDayOfFollowingMonth(anchor, rule.n, holidays)
         [] rule.fn = "nth_business_day_next_month" -> NthBusinessDayNextMonth(anchor, rule.n)
         [] rule.fn = "start_of_tenor_year" -> StartOfTenorYear(anchor)
         [] rule.fn = "first_day_of_tenor_month" -> FirstDayOfTenorMonth(anchor)
         [] rule.fn = "constant_month_of_tenor_year" -> ConstantMonthOfTenorYear(anchor, rule.n)

-----------------------------------------------------------------------------
\* The same dates by their definition, for what a rule names in its docstring.

\* "The n-th business day of the month after": n business days from the first
\* of that month through it, and it is one.  Every week without a holiday has
\* one.
NthOf(first, n, holidays) ==
  CHOOSE d \in first..(first + 7 * (n + Cardinality(holidays))) :
    /\ IsBusinessDay(d, holidays)
    /\ BusinessDayCount(first, d + 1, holidays) = n

\* "The n-th business day before the anchor date."
NthBefore(d, n) ==
  CHOOSE b \in (d - 7 * n - 7)..(d - 1) :
    IsBusinessDay(b, {}) /\ BusinessDayCount(b, d, {}) = n

Documented(rule, anchor, holidays) ==
  IF anchor = Null THEN Null
  ELSE CASE rule.fn = "nth_business_day_of_following_month" ->
              NthOf(FirstOfFollowing(anchor), rule.n, holidays)
         [] rule.fn = "nth_business_day_next_month" ->
              NthOf(FirstOfFollowing(anchor), rule.n, {})
         [] rule.fn \in {"previous_business_day", "previous_business_days"} ->
              NthBefore(anchor, IF rule.fn = "previous_business_day" THEN 1 ELSE rule.n)
         [] OTHER -> Derived(rule, anchor, holidays)
=============================================================================
