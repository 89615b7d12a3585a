-------------------------------- MODULE Router --------------------------------
(***************************************************************************)
(* Router (schenberg/core/router.py): branches registered one by one, a     *)
(* fallback, a mode and a view contract, and where plan and diagnose send   *)
(* the rows of a frame.                                                     *)
(*                                                                          *)
(* A row gives each column a value or null.  A predicate is an equality of  *)
(* a column and a value, None among them (an opaque polars expression       *)
(* passed to when() is a column of its own).  Conditions follow polars'     *)
(* three-valued logic: a comparison with null on either side gives null,    *)
(* and filter keeps the rows where it is true.                              *)
(***************************************************************************)
EXTENDS Naturals, Sequences, FiniteSets, SequencesExt

CONSTANTS
  RouteColumn,  \* the columns of Router.on
  OtherColumn,  \* further columns when() may test
  Value, Null,  \* what a column holds, and what case() and when() compare it
                \* with (Null being None)
  Computation,  \* the computations builders return
  Provides,     \* computation -> fields of the contract's view, AnySchema
                \* when it declares none, NoView when it has no such view
  Contract,     \* the contracts callers declare: sets of fields or AnySchema
  NoView, AnySchema, Nothing,
  CaseKeys,     \* the keys callers pass to case()
  WhenPredicates, \* the sets of predicates callers pass to when()
  MaxBranches,  \* bound on registered branches
  Liberties     \* the ways a router may be built beyond on(), returns(), the
                \* mode, then case(): sets of "when", "mode", "contract" and
                \* "stored" (see below)

Column == RouteColumn \cup OtherColumn
Row == [Column -> Value \cup {Null}]
Predicate == Column \X (Value \cup {Null})
Key == [RouteColumn -> Value \cup {Null}]

ASSUME RouterAssumption ==
  /\ RouteColumn # {} /\ IsFiniteSet(Column)
  /\ Null \notin Value
  /\ DOMAIN Provides = Computation
  /\ Nothing \notin Computation \cup Contract \cup Key
  /\ NoView # AnySchema
  /\ CaseKeys \subseteq Key
  /\ WhenPredicates \subseteq SUBSET Predicate
  /\ MaxBranches \in Nat
  /\ Liberties \subseteq SUBSET {"when", "mode", "contract", "stored"}

VARIABLES branches, \* the list of Branch records
          fallback, \* the default computation or Nothing
          mode,     \* "exclusive" or "first_match"
          contract, \* the declared contract or Nothing
          pending,  \* decorators case() and when() returned, not yet applied
          liberties \* how the calling code builds this router

vars == <<branches, fallback, mode, contract, pending, liberties>>

Decorator == [predicates : SUBSET Predicate, key : Key \cup {Nothing}]
Branch == [predicates : SUBSET Predicate, key : Key \cup {Nothing},
           computation : Computation]

TypeOK ==
  /\ branches \in Seq(Branch) /\ Len(branches) <= MaxBranches
  /\ fallback \in Computation \cup {Nothing}
  /\ mode \in {"exclusive", "first_match"}
  /\ contract \in Contract \cup {Nothing}
  /\ pending \subseteq Decorator
  /\ liberties \in Liberties

Init ==
  /\ branches = <<>>
  /\ fallback = Nothing
  /\ mode = "exclusive"
  /\ contract = Nothing
  /\ pending = {}
  /\ liberties \in Liberties

\* Written as "@router.case(..)" above a function, a decorator is applied at
\* once and dropped; a caller at liberty "stored" keeps it, to apply it later
\* and as often as it likes.
DecoratorDone == pending = {} \/ "stored" \in liberties

\* At liberty, the mode and the contract change after cases were registered.
Fresh == branches = <<>> /\ fallback = Nothing

Returns(k) ==
  /\ DecoratorDone
  /\ Fresh \/ "contract" \in liberties
  /\ contract' = k
  /\ UNCHANGED <<branches, fallback, mode, pending, liberties>>

SetMode(m) ==
  /\ DecoratorDone
  /\ Fresh \/ "mode" \in liberties
  /\ mode' = m
  /\ UNCHANGED <<branches, fallback, contract, pending, liberties>>

\* _schema_compatible: the branch's fields cover the contract's.
SchemaCompatible(fields, k) == k \subseteq fields

\* _check_contract: a schema is compared when both sides declare one.
Satisfies(c, k) ==
  k # Nothing =>
    /\ Provides[c] # NoView
    /\ AnySchema \notin {k, Provides[c]} => SchemaCompatible(Provides[c], k)

\* Mutant: the fallback is not checked.
DefaultUnchecked(c) ==
  /\ DecoratorDone
  /\ fallback' = c
  /\ UNCHANGED <<branches, mode, contract, pending, liberties>>

\* default(computation)
Default(c) ==
  /\ DecoratorDone
  /\ Satisfies(c, contract)
  /\ fallback' = c
  /\ UNCHANGED <<branches, mode, contract, pending, liberties>>

\* Mutant: only one route column is tested.
KeyPredicatesShort(key) == {<<c, key[c]>> : c \in {CHOOSE c \in RouteColumn : TRUE}}

\* "column == value for column, value in zip(...)"
KeyPredicates(key) == {<<c, key[c]>> : c \in RouteColumn}

\* Mutant: duplicates are not looked for.
CaseUnchecked(key) ==
  /\ DecoratorDone
  /\ pending' = pending \cup {[predicates |-> KeyPredicates(key), key |-> key]}
  /\ UNCHANGED <<branches, fallback, mode, contract, liberties>>

\* case(*values): in exclusive mode a key some branch has is rejected.
Case(key) ==
  /\ DecoratorDone
  /\ mode = "exclusive" => \A i \in DOMAIN branches : branches[i].key # key
  /\ pending' = pending \cup {[predicates |-> KeyPredicates(key), key |-> key]}
  /\ UNCHANGED <<branches, fallback, mode, contract, liberties>>

\* when(*predicates): no duplicate check, whatever the mode.
When(predicates) ==
  /\ DecoratorDone
  /\ "when" \in liberties
  /\ pending' = pending \cup {[predicates |-> predicates, key |-> Nothing]}
  /\ UNCHANGED <<branches, fallback, mode, contract, liberties>>

\* The decorator runs its builder and appends the branch if the computation
\* meets the contract; otherwise it raises and the decorator is spent.
Apply(d, c) ==
  /\ Len(branches) < MaxBranches
  /\ branches' = IF Satisfies(c, contract)
                 THEN Append(branches, [predicates |-> d.predicates, key |-> d.key,
                                        computation |-> c])
                 ELSE branches
  /\ pending' = IF "stored" \in liberties THEN pending ELSE pending \ {d}
  /\ UNCHANGED <<fallback, mode, contract, liberties>>

Next ==
  \/ \E k \in Contract : Returns(k)
  \/ \E m \in {"exclusive", "first_match"} : SetMode(m)
  \/ \E c \in Computation : Default(c)
  \/ \E key \in CaseKeys : Case(key)
  \/ \E predicates \in WhenPredicates : When(predicates)
  \/ \E d \in pending, c \in Computation : Apply(d, c)

Spec == Init /\ [][Next]_vars

-----------------------------------------------------------------------------
\* Three-valued logic, over sets of operands.

Not(x) == CASE x = "true" -> "false" [] x = "false" -> "true" [] OTHER -> "null"

And(S) == IF "false" \in S THEN "false" ELSE IF "null" \in S THEN "null" ELSE "true"

Or(S) == IF "true" \in S THEN "true" ELSE IF "null" \in S THEN "null" ELSE "false"

Eq(x, y) ==
  IF Null \in {x, y} THEN "null" ELSE IF x = y THEN "true" ELSE "false"

\* _and(branch.predicates) on a row
Condition(b, row) == And({Eq(row[p[1]], p[2]) : p \in b.predicates})

\* Mutant: "matched = condition" instead of "matched | condition".
MatchedPrevious(i, row) ==
  IF i = 1 THEN "false" ELSE Condition(branches[i - 1], row)

\* The running "matched" before branch i.
Matched(i, row) == Or({Condition(branches[j], row) : j \in 1..(i - 1)})

Selector(i, row) ==
  IF mode = "first_match"
  THEN And({Condition(branches[i], row), Not(Matched(i, row))})
  ELSE Condition(branches[i], row)

Unmatched(row) == Not(Matched(Len(branches) + 1, row))

\* plan: the parts of the concat a row is in, 0 being the fallback's.
Parts(row) ==
  {i \in DOMAIN branches : Selector(i, row) = "true"}
  \cup {i \in {0} : fallback # Nothing /\ Unmatched(row) = "true"}

\* Mutant: "matched" includes the branch itself.
OverlapsItself(row) ==
  {i \in DOMAIN branches :
     And({Condition(branches[i], row), Matched(i + 1, row)}) = "true"}

\* diagnose on the frame of one row: the branches that report an overlap, and
\* whether the row is counted as unmatched.
Overlaps(row) ==
  {i \in DOMAIN branches :
     And({Condition(branches[i], row), Matched(i, row)}) = "true"}

Used == {branches[i].computation : i \in DOMAIN branches} \cup ({fallback} \ {Nothing})

\* _enforce_contract selects the contract's fields from the diagonal concat,
\* whose columns are those of its parts.
SelectRaises ==
  /\ contract \notin {Nothing, AnySchema}
  /\ {NoView, AnySchema} \cap {Provides[c] : c \in Used} = {}
  /\ ~(contract \subseteq UNION {Provides[c] : c \in Used})

\* No part at all, a part without the view, or a field no part has.
PlanRaises ==
  \/ Used = {}
  \/ \E c \in Used : Provides[c] = NoView
  \/ SelectRaises

-----------------------------------------------------------------------------
\* Properties.

Holds(b, row) == \A p \in b.predicates : Eq(row[p[1]], p[2]) = "true"

\* A row some predicate rejects; on a row it neither holds on nor rules out, a
\* null leaves a branch undecided.
RuledOut(b, row) == \E p \in b.predicates : Eq(row[p[1]], p[2]) = "false"

\* RouterMode: "cases must partition the rows; duplicates rejected".  No two
\* cases of an exclusive router ever select the same row, null or not, when
\* the mode was chosen first and decorators are applied where they stand.
ExclusiveCasesDisjoint ==
  mode = "exclusive" /\ liberties \cap {"mode", "stored"} = {} =>
    \A row \in Row, i, j \in DOMAIN branches :
      /\ branches[i].key # Nothing /\ branches[j].key # Nothing
      /\ Selector(i, row) = "true" /\ Selector(j, row) = "true"
      => i = j

\* A row in no part is lost and a row in two is counted twice.  With a
\* fallback, a row every branch rules out is in the fallback's part, and any
\* other in the branches that hold on it: in first-match mode only in the
\* first, and only if all before it rule the row out.  A router of cases has
\* no row in two parts, so a row no branch is undecided on is in exactly one;
\* a row is lost exactly where an undecided branch stands in its way, which
\* takes a null in the row or a case of None.
RoutedExactlyOnce ==
  fallback # Nothing =>
    \A row \in Row :
      LET open    == {i \in DOMAIN branches : ~RuledOut(branches[i], row)}
          reached == {i \in open : /\ Holds(branches[i], row)
                                   /\ mode = "first_match" => \A j \in open : i <= j}
      IN  /\ Parts(row) = IF open = {} THEN {0} ELSE reached
          /\ liberties = {} => \A i, j \in Parts(row) : i = j

\* In first-match mode no row, null or not, is ever in two parts.
NeverTwice ==
  mode = "first_match" => \A row \in Row : \A i, j \in Parts(row) : i = j

\* diagnose: "a cheap check that an exclusive router's cases truly partition
\* the rows".  It reports an overlap for a row exactly when plan of an
\* exclusive router puts the row in two branches.
DiagnoseFindsOverlaps ==
  mode = "exclusive" =>
    \A row \in Row :
      Overlaps(row) # {} <=> \E i, j \in Parts(row) \ {0} : i # j

\* Router docstring: "every branch must satisfy" the contract, so that a plan
\* of the contract's view never meets a branch without it.  Holds when the
\* contract was declared first.
ContractKept ==
  contract # Nothing /\ "contract" \notin liberties =>
    /\ PlanRaises => Fresh
    /\ \A c \in {fallback} \cup {branches[i].computation : i \in DOMAIN branches} :
         c # Nothing /\ AnySchema \notin {contract, Provides[c]}
           => contract \subseteq Provides[c]

\* Router docstring: "Unmatched rows fall to default": a row that no branch
\* selects is in the fallback's part.
UnmatchedFallToDefault ==
  fallback # Nothing =>
    \A row \in Row :
      (\A i \in DOMAIN branches : Condition(branches[i], row) # "true")
        => 0 \in Parts(row)
===============================================================================
