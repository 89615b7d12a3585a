---------------------------- MODULE ContractRules ----------------------------
(***************************************************************************)
(* Contract rules (schenberg/domain/rules.py): the cases a class hierarchy  *)
(* declares with @rule_for, compiled into one rule per output column, and   *)
(* their application to a frame.                                            *)
(*                                                                          *)
(* A hierarchy is the __mro__ of a schema class, the class itself first.  A *)
(* class is [methods, rules]: its decorated methods in the order of its     *)
(* body and its own explicit __rules__.  A method is [specs, expr]: the     *)
(* specs of its decorators, the innermost first, and the date rule it       *)
(* returns.  Rules are applied row by row, so a frame is one row: a         *)
(* function from its columns to values.                                     *)
(***************************************************************************)
EXTENDS Dates, SequencesExt

IsList(s) == s \in Seq(ToSet(s))

\* Bodies, __rules__ and their cases are lists, and no case is for the marker of
\* the default.
IsHierarchy(mro) ==
  /\ IsList(mro)
  /\ \A i \in DOMAIN mro :
       /\ IsList(mro[i].methods) /\ IsList(mro[i].rules)
       /\ \A r \in ToSet(mro[i].rules) : IsList(r.cases)
       /\ \A j \in DOMAIN mro[i].methods :
            LET spec == Last(mro[i].methods[j].specs)
            IN  spec.default \in BOOLEAN /\ spec.value # "__default__"

\* The expressions the methods return and the explicit rules hold.
Expressions(mro) ==
  UNION {{m.expr : m \in ToSet(mro[i].methods)}
           \cup UNION {{c.expr : c \in ToSet(r.cases)} : r \in ToSet(mro[i].rules)} :
         i \in DOMAIN mro}

Spec(output, selector, value, default) ==
  [output |-> output, selector |-> selector, value |-> value, default |-> default]

\* rule_for: a decorator replaces the spec an inner one has left.
RuleFor(method) == Last(method.specs)

Normalized(spec) == IF spec.default THEN "__default__" ELSE spec.value

Triple(spec) == <<spec.output, spec.selector, Normalized(spec)>>

Case(method) ==
  [spec |-> RuleFor(method), expr |-> method.expr]

\* Mutant: the class itself comes first, and its bases write over it.
BodiesForward(mro) == FlattenSeq([i \in DOMAIN mro |-> mro[i].methods])

\* "for klass in reversed(cls.__mro__)"
Bodies(mro) == FlattenSeq(Reverse([i \in DOMAIN mro |-> mro[i].methods]))

\* override_map: a case keeps the place of the case it overrides.
Override(cases, case) ==
  LET same == {i \in DOMAIN cases : Triple(cases[i].spec) = Triple(case.spec)}
  IN  IF same = {} THEN Append(cases, case)
      ELSE [i \in DOMAIN cases |-> IF i \in same THEN case ELSE cases[i]]

OverrideMap(mro) ==
  FoldLeft(LAMBDA cases, method : Override(cases, Case(method)), <<>>, Bodies(mro))

\* "declared with selectors ...; ambiguous"
Ambiguous(mro) ==
  \E i, j \in DOMAIN OverrideMap(mro) :
    LET a == OverrideMap(mro)[i].spec  b == OverrideMap(mro)[j].spec
    IN  a.output = b.output /\ a.selector # b.selector

KeyOf(rule) == <<rule.output, rule.selector>>

\* groups.setdefault(key, []).append: a case joins the rule of its output and
\* selector, or starts one.
Grouped(rules, case) ==
  LET same == {i \in DOMAIN rules : KeyOf(rules[i]) = KeyOf(case.spec)}
      own == [value |-> case.spec.value, default |-> case.spec.default, expr |-> case.expr]
  IN  IF same = {}
      THEN Append(rules, [output |-> case.spec.output, selector |-> case.spec.selector,
                          cases |-> <<own>>])
      ELSE [i \in DOMAIN rules |->
              IF i \in same THEN [rules[i] EXCEPT !.cases = Append(@, own)] ELSE rules[i]]

\* One rule for each (output, selector) of the decorated methods.
Compiled(mro) == FoldLeft(Grouped, <<>>, OverrideMap(mro))

\* __rules__ of the classes, the bases first, where no method covers them.
Merged(rules, rule) ==
  IF KeyOf(rule) \in {KeyOf(rules[i]) : i \in DOMAIN rules} THEN rules ELSE Append(rules, rule)

CollectRulesFromMro(mro) ==
  FoldLeft(Merged, Compiled(mro), FlattenSeq(Reverse([i \in DOMAIN mro |-> mro[i].rules])))

-----------------------------------------------------------------------------
\* ContractRule.apply

\* The chain of when-then: a null selector and a case for None match nothing.
Matching(rule, value) ==
  SelectInSeq(rule.cases, LAMBDA c : ~c.default /\ value # Null /\ c.value = value)

FirstDefault(rule) == SelectInSeq(rule.cases, LAMBDA c : c.default)

\* The place of the case a row takes: the first match, else the first default,
\* else 0.
Taken(rule, value) ==
  IF Matching(rule, value) # 0 THEN Matching(rule, value) ELSE FirstDefault(rule)

Computed(rule, row, holidays) ==
  LET i == Taken(rule, row[rule.selector])
      expr == rule.cases[i].expr
  IN  IF i = 0 THEN Null ELSE Derived(expr, row[expr.anchor], holidays)

\* The columns an application of rule reads: the selector for a when-then only.
ReadBy(rule) ==
  LET cases == {c \in ToSet(rule.cases) : ~c.default}
      i == FirstDefault(rule)
  IN  {c.expr.anchor : c \in cases}
        \cup (IF cases = {} THEN {} ELSE {rule.selector})
        \cup (IF i = 0 THEN {} ELSE {rule.cases[i].expr.anchor})

\* Mutant: the column is computed anew.
WrittenAnew(rule, row, holidays) ==
  [c \in DOMAIN row \cup {rule.output} |->
     IF c = rule.output THEN Computed(rule, row, holidays) ELSE row[c]]

\* coalesce(col(output), computed), or computed where there is no such column.
Written(rule, row, holidays) ==
  [c \in DOMAIN row \cup {rule.output} |->
     IF c # rule.output THEN row[c]
     ELSE IF c \in DOMAIN row /\ row[c] # Null THEN row[c]
     ELSE Computed(rule, row, holidays)]

Apply(rule, row, holidays) ==
  IF rule.cases = <<>> THEN row ELSE Written(rule, row, holidays)

-----------------------------------------------------------------------------
\* What a hierarchy promises for an output, read off the classes themselves.

Methods(mro) == UNION {{i} \X DOMAIN mro[i].methods : i \in DOMAIN mro}

\* The methods, each by its class and its place in the body, that decide output
\* for a selector value.
Decides(mro, output, default, value) ==
  {m \in Methods(mro) :
     LET spec == RuleFor(mro[m[1]].methods[m[2]])
     IN  /\ spec.output = output /\ spec.default = default
         /\ default \/ (spec.value = value /\ value # Null)}

\* "More-specific classes override base-class cases.", and in one body the last.
Nearest(mro, output, default, value) ==
  LET deciding == Decides(mro, output, default, value)
  IN  {mro[m[1]].methods[m[2]].expr :
         m \in {m \in deciding : \A other \in deciding :
                  m[1] < other[1] \/ (m[1] = other[1] /\ m[2] >= other[2])}}

MostSpecific(mro, output, value) ==
  IF Nearest(mro, output, FALSE, value) # {} THEN Nearest(mro, output, FALSE, value)
  ELSE Nearest(mro, output, TRUE, value)

\* No rule reads what it or a later rule writes, and every output has one rule.
Orderly(rules) ==
  /\ \A i, j \in DOMAIN rules : i <= j => rules[j].output \notin ReadBy(rules[i])
  /\ \A i, j \in DOMAIN rules : rules[i].output = rules[j].output => i = j
=============================================================================
