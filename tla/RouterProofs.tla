----------------------------- MODULE RouterProofs -----------------------------
(***************************************************************************)
(* Proofs about Router.  The three-valued operators are characterised by    *)
(* what makes them true; first-match routing then follows from the state    *)
(* alone, exclusive routing from an invariant on keys, and the contract     *)
(* from one on what each branch was checked against.                        *)
(***************************************************************************)
EXTENDS Router, TLAPS

\* Every branch a router appends was checked: the state keeps its type
\* whatever callers do.
THEOREM TypeCorrect == Spec => []TypeOK
<1>1. Init => TypeOK
  BY RouterAssumption DEF Init, TypeOK, Branch, Decorator
<1>2. TypeOK /\ [Next]_vars => TypeOK'
  <2> SUFFICES ASSUME TypeOK, [Next]_vars PROVE TypeOK'
    OBVIOUS
  <2>1. CASE \E k \in Contract : Returns(k)
    BY <2>1 DEF Returns, TypeOK
  <2>2. CASE \E m \in {"exclusive", "first_match"} : SetMode(m)
    BY <2>2 DEF SetMode, TypeOK
  <2>3. CASE \E c \in Computation : Default(c)
    BY <2>3 DEF Default, TypeOK
  <2>4. CASE \E key \in CaseKeys : Case(key)
    <3>1. PICK key \in CaseKeys : Case(key)
      BY <2>4
    <3>2. \A c \in RouteColumn : <<c, key[c]>> \in Predicate
      BY RouterAssumption DEF Key, Predicate, Column
    <3>3. KeyPredicates(key) \in SUBSET Predicate
      BY <3>2 DEF KeyPredicates
    <3>4. [predicates |-> KeyPredicates(key), key |-> key] \in Decorator
      BY <3>3, RouterAssumption DEF Decorator
    <3> QED
      BY <3>1, <3>4 DEF Case, TypeOK
  <2>5. CASE \E predicates \in WhenPredicates : When(predicates)
    BY <2>5, RouterAssumption DEF When, TypeOK, Decorator, Predicate
  <2>6. CASE \E d \in pending, c \in Computation : Apply(d, c)
    <3>1. PICK d \in pending, c \in Computation : Apply(d, c)
      BY <2>6
    <3>2. d \in Decorator
      BY DEF TypeOK
    <3>3. [predicates |-> d.predicates, key |-> d.key, computation |-> c] \in Branch
      BY <3>2 DEF Decorator, Branch
    <3>4. branches' \in Seq(Branch) /\ Len(branches') <= MaxBranches
      BY <3>1, <3>3, RouterAssumption DEF Apply, TypeOK
    <3> QED
      BY <3>1, <3>4 DEF Apply, TypeOK
  <2>7. CASE UNCHANGED vars
    BY <2>7 DEF vars, TypeOK
  <2> QED
    BY <2>1, <2>2, <2>3, <2>4, <2>5, <2>6, <2>7 DEF Next
<1> QED
  BY <1>1, <1>2, PTL DEF Spec

-----------------------------------------------------------------------------
\* What makes the three-valued operators true.
LEMMA AndTrue ==
  ASSUME NEW x, NEW y, And({x, y}) = "true",
         x \in {"true", "false", "null"}, y \in {"true", "false", "null"}
  PROVE  x = "true" /\ y = "true"
BY DEF And

LEMMA TrueAnd == And({"true", "true"}) = "true"
BY DEF And

LEMMA NotTrue ==
  ASSUME NEW x, Not(x) = "true"
  PROVE  x = "false"
<1>1. CASE x = "true"
  BY <1>1 DEF Not
<1>2. CASE x = "false"
  BY <1>2
<1>3. CASE x # "true" /\ x # "false"
  BY <1>3 DEF Not
<1> QED
  BY <1>1, <1>2, <1>3

LEMMA ThreeValued ==
  /\ \A S : And(S) \in {"true", "false", "null"}
  /\ \A S : Or(S) \in {"true", "false", "null"}
  /\ \A x : Not(x) \in {"true", "false", "null"}
BY DEF And, Or, Not

\* What is matched before branch i, in terms of the branches before it.
LEMMA MatchedBefore ==
  ASSUME NEW i \in Nat, NEW row
  PROVE  /\ Matched(i, row) = "true"
              <=> \E j \in 1..(i - 1) : Condition(branches[j], row) = "true"
         /\ Not(Matched(i, row)) = "true"
              => \A j \in 1..(i - 1) : Condition(branches[j], row) # "true"
<1>1. Matched(i, row) = "true"
        <=> \E j \in 1..(i - 1) : Condition(branches[j], row) = "true"
  BY DEF Matched, Or
<1>2. Not(Matched(i, row)) = "true" => Matched(i, row) = "false"
  BY NotTrue
<1> QED
  BY <1>1, <1>2

\* In first-match mode no row is in two parts of the concat, nulls or not and
\* whatever the predicates.
THEOREM FirstMatchNeverTwice == Spec => []NeverTwice
<1>1. TypeOK => NeverTwice
  <2> SUFFICES ASSUME TypeOK, mode = "first_match", NEW row \in Row,
                      NEW i \in Parts(row), NEW j \in Parts(row), i # j
               PROVE  FALSE
    BY DEF NeverTwice
  <2>1. Len(branches) \in Nat /\ DOMAIN branches = 1..Len(branches)
    BY DEF TypeOK
  <2>2. \A n \in Parts(row) :
          \/ n \in DOMAIN branches /\ Selector(n, row) = "true"
          \/ n = 0 /\ Unmatched(row) = "true"
    BY DEF Parts
  <2>3. ASSUME NEW n \in DOMAIN branches, Selector(n, row) = "true"
        PROVE  /\ Condition(branches[n], row) = "true"
               /\ \A m \in 1..(n - 1) : Condition(branches[m], row) # "true"
    <3>1. Condition(branches[n], row) \in {"true", "false", "null"}
      BY ThreeValued DEF Condition
    <3>2. Not(Matched(n, row)) \in {"true", "false", "null"}
      BY ThreeValued
    <3>3. And({Condition(branches[n], row), Not(Matched(n, row))}) = "true"
      BY <2>3 DEF Selector
    <3>4. Condition(branches[n], row) = "true" /\ Not(Matched(n, row)) = "true"
      BY <3>1, <3>2, <3>3, AndTrue
    <3>5. n \in Nat
      BY <2>1
    <3> QED
      BY <3>4, <3>5, MatchedBefore
  <2>4. Unmatched(row) = "true" =>
          \A m \in DOMAIN branches : Condition(branches[m], row) # "true"
    <3>1. Len(branches) + 1 \in Nat /\ 1..((Len(branches) + 1) - 1) = DOMAIN branches
      BY <2>1
    <3> QED
      BY <3>1, MatchedBefore DEF Unmatched
  <2>5. CASE i \in DOMAIN branches /\ j \in DOMAIN branches
    <3>1. Selector(i, row) = "true" /\ Selector(j, row) = "true"
      BY <2>1, <2>2, <2>5
    <3>2. i \in 1..(j - 1) \/ j \in 1..(i - 1)
      BY <2>1, <2>5
    <3> QED
      BY <2>3, <2>5, <3>1, <3>2
  <2>6. CASE i = 0 \/ j = 0
    BY <2>1, <2>2, <2>3, <2>4, <2>6
  <2> QED
    BY <2>2, <2>5, <2>6
<1> QED
  BY <1>1, TypeCorrect, PTL

\* diagnose reports an overlap exactly for the rows an exclusive router puts
\* in two branches.
THEOREM DiagnoseIsExact == Spec => []DiagnoseFindsOverlaps
<1>1. TypeOK => DiagnoseFindsOverlaps
  <2> SUFFICES ASSUME TypeOK, mode = "exclusive", NEW row \in Row
               PROVE  Overlaps(row) # {} <=> \E i, j \in Parts(row) \ {0} : i # j
    BY DEF DiagnoseFindsOverlaps
  <2>1. Len(branches) \in Nat /\ DOMAIN branches = 1..Len(branches)
    BY DEF TypeOK
  <2>2. \A i \in DOMAIN branches : Condition(branches[i], row) \in {"true", "false", "null"}
    BY ThreeValued DEF Condition
  <2>3. \A i \in DOMAIN branches : Matched(i, row) \in {"true", "false", "null"}
    BY ThreeValued DEF Matched
  <2>4. Parts(row) \ {0} = {i \in DOMAIN branches : Condition(branches[i], row) = "true"}
    BY <2>1 DEF Parts, Selector
  <2>5. \A i \in DOMAIN branches : i \in Overlaps(row) <=>
          /\ Condition(branches[i], row) = "true"
          /\ \E j \in 1..(i - 1) : Condition(branches[j], row) = "true"
    <3> TAKE i \in DOMAIN branches
    <3>1. i \in Nat
      BY <2>1
    <3>2. i \in Overlaps(row)
            <=> And({Condition(branches[i], row), Matched(i, row)}) = "true"
      BY DEF Overlaps
    <3>3. And({Condition(branches[i], row), Matched(i, row)}) = "true"
            <=> Condition(branches[i], row) = "true" /\ Matched(i, row) = "true"
      BY <2>2, <2>3, AndTrue, TrueAnd
    <3> QED
      BY <3>1, <3>2, <3>3, MatchedBefore
  <2>6. ASSUME NEW i \in DOMAIN branches, i \in Overlaps(row)
        PROVE  \E m, n \in Parts(row) \ {0} : m # n
    <3>1. PICK j \in 1..(i - 1) : Condition(branches[j], row) = "true"
      BY <2>5, <2>6
    <3>2. j \in Parts(row) \ {0} /\ i \in Parts(row) \ {0} /\ i # j
      BY <2>1, <2>4, <2>5, <2>6, <3>1
    <3> QED
      BY <3>2
  <2>7. ASSUME NEW m \in Parts(row) \ {0}, NEW n \in Parts(row) \ {0}, m # n
        PROVE  Overlaps(row) # {}
    <3>1. m \in DOMAIN branches /\ n \in DOMAIN branches
      BY <2>4
    <3>2. m \in 1..(n - 1) \/ n \in 1..(m - 1)
      BY <2>1, <2>7, <3>1
    <3> QED
      BY <2>4, <2>5, <3>1, <3>2
  <2>8. Overlaps(row) \subseteq DOMAIN branches
    BY DEF Overlaps
  <2> QED
    BY <2>6, <2>7, <2>8
<1> QED
  BY <1>1, TypeCorrect, PTL

-----------------------------------------------------------------------------
\* The invariant of exclusive routing for callers who set the mode first and
\* apply decorators where they stand: a branch with a key tests exactly that
\* key, no two have one key, and neither has the decorator on its way (the
\* duplicate check was made before the decorator existed, so the invariant
\* must carry its answer over to the append).
Orderly == liberties \cap {"mode", "stored"} = {}

TestsItsKey(x) == x.key # Nothing => x.key \in Key /\ x.predicates = KeyPredicates(x.key)

KeyInv ==
  /\ \A d \in pending : TestsItsKey(d)
  /\ \A d, e \in pending : d = e
  /\ \A i \in DOMAIN branches : TestsItsKey(branches[i])
  /\ mode = "exclusive" =>
       /\ \A i, j \in DOMAIN branches :
            branches[i].key # Nothing /\ branches[i].key = branches[j].key => i = j
       /\ \A i \in DOMAIN branches, d \in pending :
            d.key # Nothing => branches[i].key # d.key

\* Two keys that hold on one row are one key.
LEMMA KeysDisjoint ==
  ASSUME NEW k \in Key, NEW l \in Key, NEW row,
         \A p \in KeyPredicates(k) : Eq(row[p[1]], p[2]) = "true",
         \A p \in KeyPredicates(l) : Eq(row[p[1]], p[2]) = "true"
  PROVE  k = l
<1>1. \A x, y : Eq(x, y) = "true" => x = y
  BY DEF Eq
<1>2. \A c \in RouteColumn : <<c, k[c]>> \in KeyPredicates(k)
  BY DEF KeyPredicates
<1>3. \A c \in RouteColumn : <<c, l[c]>> \in KeyPredicates(l)
  BY DEF KeyPredicates
<1>4. ASSUME NEW c \in RouteColumn PROVE k[c] = l[c]
  <2>1. Eq(row[c], k[c]) = "true"
    BY <1>2
  <2>2. Eq(row[c], l[c]) = "true"
    BY <1>3
  <2> QED
    BY <1>1, <2>1, <2>2
<1> QED
  BY <1>4 DEF Key

\* A condition is true only when each of its predicates is.
LEMMA ConditionTrue ==
  ASSUME NEW b, NEW row, Condition(b, row) = "true"
  PROVE  \A p \in b.predicates : Eq(row[p[1]], p[2]) = "true"
<1>1. \A x, y : Eq(x, y) \in {"true", "false", "null"}
  BY DEF Eq
<1>2. /\ "false" \notin {Eq(row[p[1]], p[2]) : p \in b.predicates}
      /\ "null" \notin {Eq(row[p[1]], p[2]) : p \in b.predicates}
  BY DEF Condition, And
<1> QED
  BY <1>1, <1>2

\* Appending a branch made from the one pending decorator.
LEMMA AppendKeepsKeys ==
  ASSUME TypeOK, KeyInv, NEW d \in pending, NEW b,
         b.key = d.key, b.predicates = d.predicates,
         branches' = Append(branches, b), pending' = {}, mode' = mode
  PROVE  KeyInv'
<1>1. /\ Len(branches) \in Nat
      /\ DOMAIN branches = 1..Len(branches)
      /\ DOMAIN branches' = 1..(Len(branches) + 1)
      /\ branches'[Len(branches) + 1] = b
      /\ \A i \in DOMAIN branches : branches'[i] = branches[i]
  BY DEF TypeOK
<1>2. \A i \in DOMAIN branches' : i \in DOMAIN branches \/ i = Len(branches) + 1
  BY <1>1
<1>3. TestsItsKey(b)
  BY DEF KeyInv, TestsItsKey
<1>4. \A i \in DOMAIN branches' : TestsItsKey(branches'[i])
  BY <1>1, <1>2, <1>3 DEF KeyInv
<1>5. ASSUME mode = "exclusive", NEW i \in DOMAIN branches',
             NEW j \in DOMAIN branches', branches'[i].key # Nothing,
             branches'[i].key = branches'[j].key
      PROVE  i = j
  BY <1>1, <1>2, <1>5 DEF KeyInv
<1>6. /\ \A x \in pending' : TestsItsKey(x)
      /\ \A x, y \in pending' : x = y
  OBVIOUS
<1>7. (\A i \in DOMAIN branches : TestsItsKey(branches[i]))'
  BY <1>4 DEF TestsItsKey, KeyPredicates
<1> QED
  BY <1>5, <1>6, <1>7 DEF KeyInv, TestsItsKey, KeyPredicates

LEMMA KeyInvKept ==
  ASSUME Orderly, TypeOK, KeyInv, [Next]_vars
  PROVE  KeyInv'
<1> USE DEF TestsItsKey
<1>1. CASE \E k \in Contract : Returns(k)
  BY <1>1 DEF Returns, KeyInv
<1>2. CASE \E m \in {"exclusive", "first_match"} : SetMode(m)
  <2>1. branches = <<>> /\ pending = {} /\ UNCHANGED <<branches, pending>>
    BY <1>2 DEF SetMode, DecoratorDone, Fresh, Orderly
  <2>2. DOMAIN branches = {}
    BY <2>1
  <2> QED
    BY <2>1, <2>2 DEF KeyInv
<1>3. CASE \E c \in Computation : Default(c)
  BY <1>3 DEF Default, KeyInv
<1>4. CASE \E key \in CaseKeys : Case(key)
  <2>1. PICK key \in CaseKeys : Case(key)
    BY <1>4
  <2> DEFINE d == [predicates |-> KeyPredicates(key), key |-> key]
  <2>2. pending' = {d}
    BY <2>1 DEF Case, DecoratorDone, Orderly
  <2>3. d.key = key /\ d.predicates = KeyPredicates(key)
    OBVIOUS
  <2>4. UNCHANGED <<branches, mode>>
    BY <2>1 DEF Case
  <2>5. mode = "exclusive" => \A i \in DOMAIN branches : branches[i].key # key
    BY <2>1 DEF Case
  <2>6. key \in Key
    BY RouterAssumption
  <2> HIDE DEF d
  <2> QED
    BY <2>2, <2>3, <2>4, <2>5, <2>6 DEF KeyInv
<1>5. CASE \E predicates \in WhenPredicates : When(predicates)
  <2>1. PICK predicates \in WhenPredicates : When(predicates)
    BY <1>5
  <2> DEFINE d == [predicates |-> predicates, key |-> Nothing]
  <2>2. pending' = {d} /\ UNCHANGED <<branches, mode>>
    BY <2>1 DEF When, DecoratorDone, Orderly
  <2>3. d.key = Nothing
    OBVIOUS
  <2> HIDE DEF d
  <2> QED
    BY <2>2, <2>3 DEF KeyInv
<1>6. CASE \E d \in pending, c \in Computation : Apply(d, c)
  <2>1. PICK d \in pending, c \in Computation : Apply(d, c)
    BY <1>6
  <2> DEFINE b == [predicates |-> d.predicates, key |-> d.key, computation |-> c]
  <2>2. pending' = {} /\ mode' = mode
    BY <2>1 DEF Apply, KeyInv, Orderly
  <2>3. b.key = d.key /\ b.predicates = d.predicates
    OBVIOUS
  <2>4. branches' = branches \/ branches' = Append(branches, b)
    BY <2>1 DEF Apply
  <2> HIDE DEF b
  <2>5. CASE branches' = branches
    BY <2>2, <2>5 DEF KeyInv
  <2>6. CASE branches' = Append(branches, b)
    BY <2>2, <2>3, <2>6, AppendKeepsKeys
  <2> QED
    BY <2>4, <2>5, <2>6
<1>7. CASE UNCHANGED vars
  BY <1>7 DEF vars, KeyInv
<1> QED
  BY <1>1, <1>2, <1>3, <1>4, <1>5, <1>6, <1>7 DEF Next

LEMMA LibertiesStay ==
  ASSUME [Next]_vars PROVE liberties' = liberties
BY DEF Next, vars, Returns, SetMode, Default, Case, When, Apply

\* The cases of an exclusive router are disjoint on every row.
THEOREM ExclusiveIsDisjoint == Spec => []ExclusiveCasesDisjoint
<1> DEFINE Inv == Orderly => KeyInv
<1>1. Init => Inv
  BY DEF Init, KeyInv
<1>2. TypeOK /\ Inv /\ [Next]_vars => Inv'
  <2> SUFFICES ASSUME TypeOK, Inv, [Next]_vars, Orderly' PROVE KeyInv'
    OBVIOUS
  <2>1. Orderly
    BY LibertiesStay DEF Orderly
  <2> QED
    BY <2>1, KeyInvKept
<1>3. Inv => ExclusiveCasesDisjoint
  <2> SUFFICES ASSUME KeyInv, mode = "exclusive", NEW row \in Row,
                      NEW i \in DOMAIN branches, NEW j \in DOMAIN branches,
                      branches[i].key # Nothing, branches[j].key # Nothing,
                      Selector(i, row) = "true", Selector(j, row) = "true"
               PROVE  i = j
    BY DEF ExclusiveCasesDisjoint, Orderly
  <2>1. Condition(branches[i], row) = "true" /\ Condition(branches[j], row) = "true"
    BY DEF Selector
  <2>2. /\ branches[i].key \in Key /\ branches[j].key \in Key
        /\ branches[i].predicates = KeyPredicates(branches[i].key)
        /\ branches[j].predicates = KeyPredicates(branches[j].key)
    BY DEF KeyInv, TestsItsKey
  <2>3. /\ \A p \in branches[i].predicates : Eq(row[p[1]], p[2]) = "true"
        /\ \A p \in branches[j].predicates : Eq(row[p[1]], p[2]) = "true"
    BY <2>1, ConditionTrue
  <2>4. branches[i].key = branches[j].key
    BY <2>2, <2>3, KeysDisjoint
  <2> QED
    BY <2>4 DEF KeyInv
<1> QED
  BY <1>1, <1>2, <1>3, TypeCorrect, PTL DEF Spec

-----------------------------------------------------------------------------
\* A contract declared before any branch is met by everything planned.
CheckedInv ==
  "contract" \notin liberties =>
    /\ \A i \in DOMAIN branches : Satisfies(branches[i].computation, contract)
    /\ fallback # Nothing => Satisfies(fallback, contract)

LEMMA CheckedInvKept ==
  ASSUME TypeOK, CheckedInv, [Next]_vars
  PROVE  CheckedInv'
<1> SUFFICES ASSUME "contract" \notin liberties, "contract" \notin liberties'
             PROVE  CheckedInv'
  BY LibertiesStay DEF CheckedInv
<1> USE DEF CheckedInv, Satisfies
<1>1. CASE \E k \in Contract : Returns(k)
  <2>1. branches = <<>> /\ fallback = Nothing /\ UNCHANGED <<branches, fallback>>
    BY <1>1 DEF Returns, Fresh
  <2>2. DOMAIN branches = {}
    BY <2>1
  <2> QED
    BY <2>1, <2>2
<1>2. CASE \E m \in {"exclusive", "first_match"} : SetMode(m)
  BY <1>2 DEF SetMode
<1>3. CASE \E c \in Computation : Default(c)
  BY <1>3 DEF Default
<1>4. CASE \E key \in CaseKeys : Case(key)
  BY <1>4 DEF Case
<1>5. CASE \E predicates \in WhenPredicates : When(predicates)
  BY <1>5 DEF When
<1>6. CASE \E d \in pending, c \in Computation : Apply(d, c)
  <2>1. PICK d \in pending, c \in Computation : Apply(d, c)
    BY <1>6
  <2> DEFINE b == [predicates |-> d.predicates, key |-> d.key, computation |-> c]
  <2>2. b.computation = c
    OBVIOUS
  <2>3. UNCHANGED <<fallback, contract>>
    BY <2>1 DEF Apply
  <2>4. \/ branches' = branches
        \/ branches' = Append(branches, b) /\ Satisfies(b.computation, contract)
    BY <2>1, <2>2 DEF Apply
  <2> HIDE DEF b
  <2>5. CASE branches' = branches
    BY <2>3, <2>5
  <2>6. CASE branches' = Append(branches, b) /\ Satisfies(b.computation, contract)
    <3>1. /\ DOMAIN branches' = DOMAIN branches \cup {Len(branches) + 1}
          /\ branches'[Len(branches) + 1] = b
          /\ \A i \in DOMAIN branches : branches'[i] = branches[i]
      BY <2>6 DEF TypeOK
    <3> QED
      BY <2>3, <2>6, <3>1
  <2> QED
    BY <2>4, <2>5, <2>6
<1>7. CASE UNCHANGED vars
  BY <1>7 DEF vars
<1> QED
  BY <1>1, <1>2, <1>3, <1>4, <1>5, <1>6, <1>7 DEF Next

\* No branch and no fallback lacks the view or a field of a contract declared
\* first, so a plan of that view raises only on a router without any.
THEOREM ContractAlwaysKept == Spec => []ContractKept
<1>1. Init => CheckedInv
  BY DEF Init, CheckedInv
<1>2. TypeOK /\ CheckedInv /\ [Next]_vars => CheckedInv'
  BY CheckedInvKept
<1>3. TypeOK /\ CheckedInv => ContractKept
  <2> SUFFICES ASSUME TypeOK, CheckedInv, contract # Nothing, "contract" \notin liberties
               PROVE  /\ PlanRaises => Fresh
                      /\ \A c \in {fallback} \cup {branches[i].computation : i \in DOMAIN branches} :
                           c # Nothing /\ AnySchema \notin {contract, Provides[c]}
                             => contract \subseteq Provides[c]
    BY DEF ContractKept
  <2>1. \A c \in {fallback} \cup {branches[i].computation : i \in DOMAIN branches} :
          c # Nothing => Satisfies(c, contract)
    BY DEF CheckedInv
  <2>2. \A i \in DOMAIN branches : Satisfies(branches[i].computation, contract)
    BY DEF CheckedInv
  <2>3. \A c \in {fallback} \cup {branches[i].computation : i \in DOMAIN branches} :
          c # Nothing /\ AnySchema \notin {contract, Provides[c]}
            => contract \subseteq Provides[c]
    BY <2>1 DEF Satisfies, SchemaCompatible
  <2>4. ASSUME Used = {} PROVE Fresh
    <3>1. fallback = Nothing
      BY <2>4 DEF Used
    <3>2. DOMAIN branches = {}
      BY <2>4 DEF Used
    <3> QED
      BY <3>1, <3>2 DEF Fresh, TypeOK
  <2>5. \A c \in Used : Provides[c] # NoView
    BY <2>1, <2>2 DEF Satisfies, Used, TypeOK, RouterAssumption
  <2>6. ASSUME SelectRaises PROVE Used = {}
    <3>1. SUFFICES ASSUME NEW c \in Used PROVE FALSE
      OBVIOUS
    <3>2. ASSUME NEW i \in DOMAIN branches PROVE branches[i].computation # Nothing
      <4>1. branches[i] \in Branch
        BY DEF TypeOK
      <4> QED
        BY <4>1, RouterAssumption DEF Branch
    <3>3. c # Nothing
      BY <3>2 DEF Used
    <3> QED
      BY <2>3, <2>6, <3>1, <3>3 DEF SelectRaises, Used
  <2> QED
    BY <2>3, <2>4, <2>5, <2>6 DEF PlanRaises
<1> QED
  BY <1>1, <1>2, <1>3, TypeCorrect, PTL DEF Spec

-----------------------------------------------------------------------------
\* Where a row goes, in terms of the branches that hold on it and those that
\* rule it out; a branch may do neither.

LEMMA ConditionDecided ==
  ASSUME NEW b, NEW row
  PROVE  /\ Condition(b, row) = "true" <=> Holds(b, row)
         /\ Condition(b, row) = "false" <=> RuledOut(b, row)
<1> DEFINE S == {Eq(row[p[1]], p[2]) : p \in b.predicates}
<1>1. \A x, y : Eq(x, y) \in {"true", "false", "null"}
  BY DEF Eq
<1>2. Holds(b, row) <=> \A x \in S : x = "true"
  BY DEF Holds
<1>3. RuledOut(b, row) <=> "false" \in S
  BY DEF RuledOut
<1>4. \A x \in S : x \in {"true", "false", "null"}
  BY <1>1
<1>5. Condition(b, row) = And(S)
  BY DEF Condition
<1> HIDE DEF S
<1> QED BY <1>2, <1>3, <1>4, <1>5 DEF And

HoldsAt(row) == {i \in DOMAIN branches : Holds(branches[i], row)}
OpenAt(row) == {i \in DOMAIN branches : ~RuledOut(branches[i], row)}

LEMMA HoldingIsOpen == \A row : HoldsAt(row) \subseteq OpenAt(row)
BY DEF HoldsAt, OpenAt, Holds, RuledOut

\* "Not matched so far" is known only when every branch so far rules it out.
LEMMA UnmatchedBefore ==
  ASSUME TypeOK, NEW row, NEW i \in 1..(Len(branches) + 1)
  PROVE  Not(Matched(i, row)) = "true" <=> \A j \in OpenAt(row) : ~(j < i)
<1>1. Len(branches) \in Nat /\ DOMAIN branches = 1..Len(branches)
  BY DEF TypeOK
<1>2. \A j : j \in 1..(i - 1) <=> j \in DOMAIN branches /\ j < i
  BY <1>1
<1> DEFINE S == {Condition(branches[j], row) : j \in 1..(i - 1)}
<1>3. \A x \in S : x \in {"true", "false", "null"}
  BY ThreeValued DEF Condition
<1>4. (\A x \in S : x = "false") <=> \A j \in 1..(i - 1) : RuledOut(branches[j], row)
  BY ConditionDecided
<1>5. Matched(i, row) = Or(S)
  BY DEF Matched
<1> HIDE DEF S
<1>6. Or(S) = "false" <=> \A x \in S : x = "false"
  BY <1>3 DEF Or
<1>7. Not(Or(S)) = "true" <=> Or(S) = "false"
  BY NotTrue DEF Not
<1> QED BY <1>2, <1>4, <1>5, <1>6, <1>7 DEF OpenAt

\* The parts of a row.
LEMMA PartsDecided ==
  ASSUME TypeOK, fallback # Nothing, NEW row
  PROVE  /\ 0 \in Parts(row) <=> OpenAt(row) = {}
         /\ mode = "exclusive" => Parts(row) \ {0} = HoldsAt(row)
         /\ mode = "first_match" =>
              Parts(row) \ {0} = {i \in HoldsAt(row) : \A j \in OpenAt(row) : i <= j}
<1>1. Len(branches) \in Nat /\ DOMAIN branches = 1..Len(branches)
  BY DEF TypeOK
<1>2. Unmatched(row) = "true" <=> OpenAt(row) = {}
  <2>1. Len(branches) + 1 \in 1..(Len(branches) + 1)
    BY <1>1
  <2>2. \A j \in OpenAt(row) : j < Len(branches) + 1
    BY <1>1 DEF OpenAt
  <2> QED BY <2>1, <2>2, UnmatchedBefore DEF Unmatched
<1>3. 0 \notin DOMAIN branches
  BY <1>1
<1>4. Parts(row) \ {0} = {i \in DOMAIN branches : Selector(i, row) = "true"}
  BY <1>3 DEF Parts
<1>5. 0 \in Parts(row) <=> OpenAt(row) = {}
  BY <1>2, <1>3 DEF Parts
<1>6. \A i \in DOMAIN branches :
        Condition(branches[i], row) = "true" <=> i \in HoldsAt(row)
  BY ConditionDecided DEF HoldsAt
<1>7. ASSUME mode = "exclusive" PROVE Parts(row) \ {0} = HoldsAt(row)
  BY <1>4, <1>6, <1>7 DEF Selector, HoldsAt
<1>8. ASSUME mode = "first_match"
      PROVE  Parts(row) \ {0} = {i \in HoldsAt(row) : \A j \in OpenAt(row) : i <= j}
  <2>1. ASSUME NEW i \in DOMAIN branches
        PROVE  Selector(i, row) = "true"
                 <=> i \in HoldsAt(row) /\ \A j \in OpenAt(row) : ~(j < i)
    <3>1. i \in 1..(Len(branches) + 1)
      BY <1>1
    <3> DEFINE x == Condition(branches[i], row)
               y == Not(Matched(i, row))
    <3>2. Selector(i, row) = And({x, y})
      BY <1>8 DEF Selector
    <3>3. x = "true" <=> i \in HoldsAt(row)
      BY <1>6
    <3>4. y = "true" <=> \A j \in OpenAt(row) : ~(j < i)
      BY <3>1, UnmatchedBefore
    <3>5. x \in {"true", "false", "null"} /\ y \in {"true", "false", "null"}
      BY ThreeValued DEF Condition
    <3> HIDE DEF x, y
    <3>6. And({x, y}) = "true" <=> x = "true" /\ y = "true"
      BY <3>5, AndTrue, TrueAnd
    <3> QED BY <3>2, <3>3, <3>4, <3>6
  <2>2. \A i, j \in OpenAt(row) : i <= j <=> ~(j < i)
    BY <1>1 DEF OpenAt
  <2>3. HoldsAt(row) \subseteq DOMAIN branches
    BY DEF HoldsAt
  <2> QED BY <1>4, <2>1, <2>2, <2>3, HoldingIsOpen
<1> QED BY <1>5, <1>7, <1>8

\* A router written with decorators and case() alone has no branch or pending
\* decorator without a key.
WhenInv ==
  liberties = {} =>
    /\ \A d \in pending : d.key # Nothing
    /\ \A i \in DOMAIN branches : branches[i].key # Nothing

LEMMA WhenInvKept ==
  ASSUME TypeOK, WhenInv, [Next]_vars
  PROVE  WhenInv'
<1> SUFFICES ASSUME liberties = {}, liberties' = {} PROVE WhenInv'
  BY LibertiesStay DEF WhenInv
<1> USE DEF WhenInv
<1>1. CASE \E k \in Contract : Returns(k)
  BY <1>1 DEF Returns
<1>2. CASE \E m \in {"exclusive", "first_match"} : SetMode(m)
  BY <1>2 DEF SetMode
<1>3. CASE \E c \in Computation : Default(c)
  BY <1>3 DEF Default
<1>4. CASE \E key \in CaseKeys : Case(key)
  <2>1. PICK key \in CaseKeys : Case(key)
    BY <1>4
  <2> DEFINE d == [predicates |-> KeyPredicates(key), key |-> key]
  <2>2. d.key # Nothing
    BY RouterAssumption
  <2>3. pending' = pending \cup {d} /\ UNCHANGED branches
    BY <2>1 DEF Case
  <2> HIDE DEF d
  <2> QED BY <2>2, <2>3
<1>5. CASE \E predicates \in WhenPredicates : When(predicates)
  BY <1>5 DEF When
<1>6. CASE \E d \in pending, c \in Computation : Apply(d, c)
  <2>1. PICK d \in pending, c \in Computation : Apply(d, c)
    BY <1>6
  <2> DEFINE b == [predicates |-> d.predicates, key |-> d.key, computation |-> c]
  <2>2. b.key # Nothing
    OBVIOUS
  <2>3. branches' = branches \/ branches' = Append(branches, b)
    BY <2>1 DEF Apply
  <2>4. pending' \subseteq pending
    BY <2>1 DEF Apply
  <2> HIDE DEF b
  <2>5. CASE branches' = branches
    BY <2>4, <2>5
  <2>6. CASE branches' = Append(branches, b)
    <3>1. /\ DOMAIN branches' = DOMAIN branches \cup {Len(branches) + 1}
          /\ branches'[Len(branches) + 1] = b
          /\ \A i \in DOMAIN branches : branches'[i] = branches[i]
      BY <2>6 DEF TypeOK
    <3> QED BY <2>2, <2>4, <3>1
  <2> QED BY <2>3, <2>5, <2>6
<1>7. CASE UNCHANGED vars
  BY <1>7 DEF vars
<1> QED BY <1>1, <1>2, <1>3, <1>4, <1>5, <1>6, <1>7 DEF Next

\* The cases of an exclusive router that hold on a row are one.
LEMMA HoldsOnce ==
  ASSUME TypeOK, KeyInv, WhenInv, liberties = {}, mode = "exclusive",
         NEW row, NEW i \in HoldsAt(row), NEW j \in HoldsAt(row)
  PROVE  i = j
<1>1. i \in DOMAIN branches /\ j \in DOMAIN branches
  BY DEF HoldsAt
<1>2. branches[i].key # Nothing /\ branches[j].key # Nothing
  BY <1>1 DEF WhenInv
<1>3. /\ branches[i].key \in Key /\ branches[j].key \in Key
      /\ branches[i].predicates = KeyPredicates(branches[i].key)
      /\ branches[j].predicates = KeyPredicates(branches[j].key)
  BY <1>1, <1>2 DEF KeyInv, TestsItsKey
<1>4. /\ \A p \in branches[i].predicates : Eq(row[p[1]], p[2]) = "true"
      /\ \A p \in branches[j].predicates : Eq(row[p[1]], p[2]) = "true"
  BY DEF HoldsAt, Holds
<1>5. branches[i].key = branches[j].key
  BY <1>3, <1>4, KeysDisjoint
<1> QED BY <1>1, <1>2, <1>5 DEF KeyInv

\* Where every row goes when there is a fallback, with nulls in rows and in
\* keys: to the fallback if every branch rules it out, else to the branches
\* that hold (the first, under first-match, if all before it rule the row
\* out), and in a router of cases to no two of them.
THEOREM RowsRoutedOnce == Spec => []RoutedExactlyOnce
<1> DEFINE Inv == (Orderly => KeyInv) /\ WhenInv
<1>1. Init => Inv
  BY DEF Init, KeyInv, WhenInv
<1>2. TypeOK /\ Inv /\ [Next]_vars => Inv'
  <2> SUFFICES ASSUME TypeOK, Inv, [Next]_vars PROVE Inv'
    OBVIOUS
  <2>1. Orderly' => Orderly
    BY LibertiesStay DEF Orderly
  <2> QED BY <2>1, KeyInvKept, WhenInvKept
<1>3. TypeOK /\ Inv => RoutedExactlyOnce
  <2> DEFINE H(row) == HoldsAt(row)
             O(row) == OpenAt(row)
             reached(row) == {i \in O(row) :
                                /\ Holds(branches[i], row)
                                /\ mode = "first_match" => \A j \in O(row) : i <= j}
  <2> SUFFICES ASSUME TypeOK, Inv, fallback # Nothing, NEW row \in Row
               PROVE  /\ Parts(row) = IF O(row) = {} THEN {0} ELSE reached(row)
                      /\ liberties = {} => \A i, j \in Parts(row) : i = j
    BY DEF RoutedExactlyOnce, OpenAt
  <2> DEFINE P == Parts(row)
             F == {i \in H(row) : \A j \in O(row) : i <= j}
  <2>1. 0 \in P <=> O(row) = {}
    BY PartsDecided
  <2>2. mode = "exclusive" => P \ {0} = H(row)
    BY PartsDecided
  <2>3. mode = "first_match" => P \ {0} = F
    BY PartsDecided
  <2>4. mode \in {"exclusive", "first_match"}
    BY DEF TypeOK
  <2>5. H(row) \subseteq O(row)
    BY HoldingIsOpen
  <2>6. O(row) \subseteq Nat
    BY DEF OpenAt, TypeOK
  <2>7. \A i \in O(row) : i \in H(row) <=> Holds(branches[i], row)
    BY DEF HoldsAt, OpenAt
  <2>8. reached(row) = IF mode = "first_match" THEN F ELSE H(row)
    BY <2>5, <2>7
  <2>9. liberties = {} => Orderly
    BY DEF Orderly
  <2>10. liberties = {} /\ mode = "exclusive" => \A i, j \in H(row) : i = j
    BY <2>9, HoldsOnce
  <2>11. \A i, j \in F : i = j
    BY <2>5, <2>6
  <2> HIDE DEF H, O, P, reached
  <2>12. P \ {0} = reached(row)
    BY <2>2, <2>3, <2>4, <2>8
  <2>13. P = IF O(row) = {} THEN {0} ELSE reached(row)
    <3>1. O(row) = {} => reached(row) = {}
      BY DEF reached
    <3> QED BY <2>1, <2>12, <3>1
  <2>14. ASSUME liberties = {}, NEW i \in P, NEW j \in P PROVE i = j
    <3>1. CASE O(row) = {}
      BY <2>13, <2>14, <3>1
    <3>2. CASE O(row) # {}
      BY <2>4, <2>8, <2>10, <2>11, <2>13, <2>14, <3>2
    <3> QED BY <3>1, <3>2
  <2> QED BY <2>13, <2>14 DEF P
<1> QED BY <1>1, <1>2, <1>3, TypeCorrect, PTL DEF Spec
=============================================================================
