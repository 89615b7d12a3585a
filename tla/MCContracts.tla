----------------------------- MODULE MCContracts -----------------------------
(* Every import of the calendar by two processes with frames that need it,   *)
(* and, in a process that has imported it, hierarchies of three classes.     *)
EXTENDS ContractFrames

Rule(fn, anchor, n) == [fn |-> fn, anchor |-> anchor, n |-> n]
Method(expr, specs) == [specs |-> specs, expr |-> expr]

SameDay == Rule("same_day", "tenor", 0)
IndexDay(value) == Spec("index_fixing", "indexer", value, FALSE)
IndexDefault == Spec("index_fixing", "indexer", Null, TRUE)
CurrencyDay(value) == Spec("currency_fixing", "currency", value, FALSE)
CurrencyDefault == Spec("currency_fixing", "currency", Null, TRUE)

Body(methods, rules) == [methods |-> methods, rules |-> rules]

Forward ==
  Body(<<Method(Rule("add_days", "tenor", 5), <<IndexDay("CPI")>>),
         Method(SameDay, <<IndexDefault>>)>>, <<>>)

Energy(n) ==
  Body(<<Method(Rule("nth_business_day_of_following_month", "tenor", n), <<IndexDay("PLD")>>),
         Method(Rule("previous_business_days", "tenor", 5), <<IndexDefault>>)>>, <<>>)

Explicit(output, selector, value, default, expr) ==
  [output |-> output, selector |-> selector,
   cases |-> <<[value |-> value, default |-> default, expr |-> expr]>>]

\* One column derived from another.
Derivation ==
  Body(<<Method(Rule("start_of_tenor_year", "index_fixing", 0), <<CurrencyDay("EUR")>>),
         Method(Rule("nth_business_day_next_month", "index_fixing", 1),
                <<CurrencyDefault>>)>>, <<>>)

Bodies3 ==
  {Body(<<>>, <<>>),
   Forward,
   \* overrides one case
   Body(<<Method(Rule("add_days", "tenor", 10), <<IndexDay("CPI")>>)>>, <<>>),
   \* overrides the default, adds a case
   Body(<<Method(Rule("previous_business_day", "tenor", 0), <<IndexDefault>>),
          Method(Rule("first_day_of_tenor_month", "tenor", 0), <<IndexDay("PLD")>>)>>, <<>>),
   \* two decorators on one method; a case for None
   Body(<<Method(Rule("previous_day", "tenor", 0), <<IndexDefault, CurrencyDay("EUR")>>),
          Method(SameDay, <<IndexDay(Null)>>)>>, <<>>),
   Derivation,
   \* an explicit rule, for a column methods may write too, and one of no cases
   Body(<<>>, <<Explicit("index_fixing", "indexer", Null, TRUE,
                         Rule("constant_month_of_tenor_year", "tenor", 7)),
                [output |-> "audit", selector |-> "indexer", cases |-> <<>>]>>),
   \* another selector for the column, by a method and explicitly
   Body(<<Method(SameDay, <<Spec("index_fixing", "currency", "EUR", FALSE)>>)>>, <<>>),
   Body(<<>>, <<Explicit("currency_fixing", "indexer", "CPI", FALSE,
                         Rule("copy_date", "tenor", 0))>>)}

MCHierarchies ==
  {<<Energy(1)>>, <<Energy(6)>>} \cup {<<a, b, c>> : a, b \in Bodies3, c \in {Forward, Derivation}}

UsesCalendar == {<<Energy(1)>>, <<Energy(6)>>}

MCFrames ==
  {[c \in {"tenor", "indexer", "currency"} \cup extra |->
      CASE c = "tenor" -> tenor [] c = "indexer" -> indexer [] c = "currency" -> "EUR"
        [] c = "index_fixing" -> fixing] :
     tenor \in {Day(2026, 5, 15), Day(2026, 10, 31)}, indexer \in {"CPI", "PLD", Null},
     extra \in {{}, {"index_fixing"}}, fixing \in {Null, Day(2026, 1, 1)}}

NeedCalendar == {f \in MCFrames : DOMAIN f = {"tenor", "indexer", "currency"} /\ f["indexer"] = "PLD"}

\* Everything is imported and the calendar rests.
Rests ==
  /\ file = Full /\ faults = MaxFaults /\ writes = MaxWrites
  /\ pc = [p \in Process |-> "ready"]
  /\ holidays = [p \in Process |-> GenerateHolidays]

\* Frames that need the calendar meet every import of it, all others a calendar
\* at rest: their rules read nothing of it.
MCInit == FrameInit /\ (CalendarInit \/ Rests)

MCNext ==
  /\ Next
  /\ status = "idle" /\ status' = "built" =>
       IF mro' \in UsesCalendar THEN given' \in NeedCalendar ELSE Rests

MCSpec == MCInit /\ [][MCNext]_vars

MCCuts == {0, 4, 18, 21}
=============================================================================
