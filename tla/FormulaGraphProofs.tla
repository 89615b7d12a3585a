-------------------------- MODULE FormulaGraphProofs --------------------------
(***************************************************************************)
(* Proofs about FormulaGraph for every set of names, schemas and            *)
(* expressions, whatever mixture of let and formula registers the terms.    *)
(*                                                                          *)
(* ResolutionKept is not inductive: a new term could carry the name of a    *)
(* variable of an older one.  IInv says what a variable of a declared term  *)
(* can be (a schema column, whose name no term takes, or a term registered  *)
(* before) and that "registered before" is a strict order, which leaves no  *)
(* room for a cycle through declared terms.                                 *)
(*                                                                          *)
(* _inline and visit are recursive functions over stacks and over states;   *)
(* that there are such functions is proved first, by induction over the     *)
(* number of terms off the stack or not yet seen.  What they compute        *)
(* follows from their equations: where _inline raises, that the order of    *)
(* visit is topological below every term that requires no cycle, and that   *)
(* the two plans give one formula.                                          *)
(***************************************************************************)
EXTENDS FormulaGraph, FiniteSetTheorems, WellFoundedInduction, TLAPS

VarsAreKnown ==
  \A t \in declared : HasSchema /\ Vars(t) \subseteq input \cup known[t]

KnownIsOrder ==
  \A t \in DOMAIN terms :
    /\ t \notin known[t]
    /\ known[t] \subseteq DOMAIN terms
    /\ \A m \in known[t] : known[m] \subseteq known[t]

NothingShadowed == HasSchema => \A t \in DOMAIN terms : t \notin input

IInv ==
  /\ TypeOK
  /\ order \in Seq(Name)
  /\ IsFiniteSet(DOMAIN terms)
  /\ NothingShadowed
  /\ VarsAreKnown
  /\ KnownIsOrder

LEMMA AppendToSet ==
  ASSUME NEW S, NEW s \in Seq(S), NEW x \in S
  PROVE  /\ Append(s, x) \in Seq(S)
         /\ Len(Append(s, x)) = Len(s) + 1
         /\ ToSet(Append(s, x)) = ToSet(s) \cup {x}
<1>1. /\ Append(s, x) \in Seq(S)
      /\ Len(Append(s, x)) = Len(s) + 1
      /\ DOMAIN Append(s, x) = 1..(Len(s) + 1)
      /\ DOMAIN s = 1..Len(s)
      /\ \A i \in 1..Len(s) : Append(s, x)[i] = s[i]
      /\ Append(s, x)[Len(s) + 1] = x
      /\ Len(s) \in Nat
  OBVIOUS
<1>2. 1..(Len(s) + 1) = (1..Len(s)) \cup {Len(s) + 1}
  BY <1>1
<1> QED BY <1>1, <1>2 DEF ToSet

\* Registration by either call; a term joins the declared ones only when its
\* variables are schema columns or terms.
LEMMA RegisterStep ==
  ASSUME IInv, NEW name \in Name, NEW expr \in Exprs, Register(name, expr),
         \/ declared' = declared
         \/ /\ HasSchema
            /\ declared' = declared \cup {name}
            /\ ToSet(expr) \subseteq input \cup DOMAIN terms
  PROVE  IInv'
<1> USE DEF Register
<1>1. /\ name \notin DOMAIN terms /\ (HasSchema => name \notin input)
      /\ views' = views /\ input' = input /\ order' = Append(order, name)
      /\ HasSchema' = HasSchema
  BY DEF HasSchema
<1>2. /\ DOMAIN terms' = DOMAIN terms \cup {name}
      /\ terms'[name] = expr
      /\ \A t \in DOMAIN terms : terms'[t] = terms[t]
  BY <1>1
<1>3. /\ DOMAIN known' = DOMAIN terms \cup {name}
      /\ known'[name] = DOMAIN terms
      /\ \A t \in DOMAIN terms : known'[t] = known[t]
  BY <1>1 DEF IInv, TypeOK
<1>4. /\ order' \in Seq(Name)
      /\ ToSet(order') = DOMAIN terms'
      /\ Len(order') = Len(order) + 1
  BY <1>1, <1>2, AppendToSet DEF IInv, TypeOK
<1>5. /\ IsFiniteSet(DOMAIN terms')
      /\ Cardinality(DOMAIN terms') = Cardinality(DOMAIN terms) + 1
  BY <1>1, <1>2, FS_AddElement DEF IInv
<1>6. TypeOK'
  BY <1>1, <1>2, <1>3, <1>4, <1>5 DEF IInv, TypeOK
<1>7. VarsAreKnown'
  <2> SUFFICES ASSUME NEW t \in declared'
               PROVE  HasSchema /\ ToSet(terms'[t]) \subseteq input \cup known'[t]
    BY <1>1 DEF VarsAreKnown, Vars
  <2>1. CASE t \in declared
    <3>1. t \in DOMAIN terms
      BY <2>1 DEF IInv, TypeOK
    <3> QED BY <2>1, <3>1, <1>2, <1>3 DEF IInv, VarsAreKnown, Vars
  <2>2. CASE t \notin declared
    BY <2>2, <1>2, <1>3
  <2> QED BY <2>1, <2>2
<1>8. KnownIsOrder'
  BY <1>1, <1>2, <1>3 DEF IInv, KnownIsOrder
<1>9. NothingShadowed'
  BY <1>1, <1>2 DEF IInv, NothingShadowed
<1> QED BY <1>1, <1>2, <1>4, <1>5, <1>6, <1>7, <1>8, <1>9 DEF IInv

LEMMA Invariance == Spec => []IInv
<1>1. Init => IInv
  <2> SUFFICES ASSUME Init PROVE IInv
    OBVIOUS
  <2>1. /\ DOMAIN terms = {} /\ DOMAIN known = {} /\ DOMAIN views = {}
        /\ order = <<>> /\ declared = {} /\ input \in Schemas \cup {NoInput}
    BY DEF Init
  <2>2. ToSet(order) = {} /\ Len(order) = 0 /\ order \in Seq(Name)
    BY <2>1 DEF ToSet
  <2>3. IsFiniteSet({}) /\ Cardinality({}) = 0
    BY FS_EmptySet
  <2> QED BY <2>1, <2>2, <2>3
          DEF IInv, TypeOK, VarsAreKnown, KnownIsOrder, NothingShadowed
<1>2. IInv /\ [Next]_vars => IInv'
  <2> SUFFICES ASSUME IInv, [Next]_vars PROVE IInv'
    OBVIOUS
  <2>1. CASE UNCHANGED vars
    BY <2>1 DEF vars, IInv, TypeOK, VarsAreKnown, KnownIsOrder, Vars,
                NothingShadowed, HasSchema
  <2>2. ASSUME NEW name \in Name, NEW expr \in Exprs, Let(name, expr)
        PROVE  IInv'
    BY <2>2, RegisterStep DEF Let
  <2>3. ASSUME NEW name \in Name, NEW expr \in Exprs, Formula(name, expr)
        PROVE  IInv'
    <3>1. HasSchema => ToSet(expr) \subseteq input \cup DOMAIN terms
      BY <2>3 DEF Formula, Resolves
    <3>2. declared' = IF HasSchema THEN declared \cup {name} ELSE declared
      BY <2>3 DEF Formula
    <3> QED BY <2>3, <3>1, <3>2, RegisterStep DEF Formula
  <2>4. ASSUME NEW view \in View, NEW targets \in ViewTerms, Returns(view, targets)
        PROVE  IInv'
    BY <2>4 DEF Returns, IInv, TypeOK, VarsAreKnown, KnownIsOrder, Vars,
                NothingShadowed, HasSchema
  <2> QED BY <2>1, <2>2, <2>3, <2>4 DEF Next
<1> QED BY <1>1, <1>2, PTL DEF Spec

-----------------------------------------------------------------------------
\* The theorems.

\* Type correctness of the registries.
THEOREM TypeCorrect == Spec => []TypeOK
<1>1. IInv => TypeOK
  BY DEF IInv
<1> QED BY <1>1, Invariance, PTL

\* A variable of a term declared over an input schema always means what it
\* meant when the term was declared.
THEOREM ResolutionAlwaysKept == Spec => []ResolutionKept
<1>1. IInv => ResolutionKept
  BY DEF IInv, VarsAreKnown, ResolutionKept, NothingShadowed
<1> QED BY <1>1, Invariance, PTL

\* Ancestors are closed backward and hold the direct predecessors.
LEMMA AncestorsClosed ==
  ASSUME NEW G, IsGraph(G), NEW n \in G.node
  PROVE  /\ Predecessors(G, n) \subseteq Ancestors(G, n)
         /\ ClosedBackward(G, Ancestors(G, n))
<1>1. Predecessors(G, n) \subseteq Ancestors(G, n)
  BY DEF Predecessors, Ancestors
<1>2. ASSUME NEW e \in G.edge, e[2] \in Ancestors(G, n)
      PROVE  e[1] \in Ancestors(G, n)
  <2>1. e[1] \in G.node
    BY DEF IsGraph
  <2>2. ASSUME NEW S \in SUBSET G.node, Predecessors(G, n) \subseteq S, ClosedBackward(G, S)
        PROVE  e[1] \in S
    <3>1. e[2] \in S
      BY <1>2, <2>2 DEF Ancestors
    <3> QED BY <2>2, <3>1 DEF ClosedBackward
  <2> QED BY <2>1, <2>2 DEF Ancestors
<1> QED BY <1>1, <1>2 DEF ClosedBackward

\* The documented acyclic graph: no term over declared terms is on a cycle.
THEOREM DeclaredIsAcyclic == Spec => []Acyclic
<1>1. IInv => Acyclic
  <2> SUFFICES ASSUME IInv, NEW n \in DOMAIN terms, Resolved({n}),
                      n \in Ancestors(TermGraph, n)
               PROVE  FALSE
    BY DEF Acyclic
  <2>1. TermGraph.node = DOMAIN terms /\ IsGraph(TermGraph)
    BY DEF TermGraph, IsGraph
  <2>2. Required(TermGraph, n) \subseteq declared
    BY DEF Resolved, Reachable
  <2>3. \A a, b \in DOMAIN terms :
          b \in declared /\ <<a, b>> \in TermGraph.edge => a \in known[b]
    BY DEF TermGraph, IInv, VarsAreKnown, NothingShadowed
  <2> DEFINE S == {m \in Ancestors(TermGraph, n) : m \in known[n]}
  <2>4. Predecessors(TermGraph, n) \subseteq S
    <3>1. Predecessors(TermGraph, n) \subseteq Ancestors(TermGraph, n)
      BY AncestorsClosed, <2>1
    <3>2. n \in declared
      BY <2>2 DEF Required
    <3> QED BY <2>1, <2>3, <3>1, <3>2 DEF Predecessors
  <2>5. ClosedBackward(TermGraph, S)
    <3> SUFFICES ASSUME NEW e \in TermGraph.edge, e[2] \in S PROVE e[1] \in S
      BY DEF ClosedBackward
    <3>1. e[1] \in DOMAIN terms /\ e[2] \in DOMAIN terms /\ e = <<e[1], e[2]>>
      BY DEF TermGraph
    <3>2. e[1] \in Ancestors(TermGraph, n)
      BY AncestorsClosed, <2>1 DEF ClosedBackward
    <3>3. e[2] \in declared
      BY <2>2 DEF Required
    <3>4. e[1] \in known[e[2]]
      BY <2>3, <3>1, <3>3
    <3>5. known[e[2]] \subseteq known[n]
      BY DEF IInv, KnownIsOrder
    <3> QED BY <3>2, <3>4, <3>5
  <2>6. S \in SUBSET TermGraph.node
    BY DEF Ancestors
  <2>7. n \in S
    BY <2>4, <2>5, <2>6 DEF Ancestors
  <2> QED BY <2>7 DEF IInv, KnownIsOrder
<1> QED BY <1>1, Invariance, PTL

-----------------------------------------------------------------------------
\* Induction over the natural numbers, for a set.
LEMMA Induction ==
  ASSUME NEW N, N \subseteq Nat, 0 \in N, \A n \in N : n + 1 \in N
  PROVE  N = Nat
<1> DEFINE T == Nat \ N
           R == {p \in Nat \X Nat : p[1] < p[2]}
<1>1. IsWellFoundedOn(R, Nat)
  BY NatLessThanWellFounded DEF OpToRel
<1> HIDE DEF R
<1>2. T # {} => \E n \in T : \A m \in T : <<m, n>> \notin R
  BY <1>1, WFMin
<1>3. \A m, n \in Nat : <<m, n>> \notin R => ~(m < n)
  BY DEF R
<1>4. ASSUME NEW n \in T, \A m \in T : <<m, n>> \notin R PROVE FALSE
  <2>1. n - 1 \in Nat /\ n - 1 + 1 = n /\ n - 1 < n
    OBVIOUS
  <2>2. n - 1 \notin T
    BY <1>3, <1>4, <2>1
  <2> QED
    BY <2>1, <2>2
<1> QED
  BY <1>2, <1>4

-----------------------------------------------------------------------------
(* Inlining.  A term uses the terms among its variables; InlineStep is one    *)
(* call of _inline on the terms T, where f is what the calls it makes return. *)
Uses(T) ==
  [node |-> DOMAIN T,
   edge |-> {e \in (DOMAIN T) \X (DOMAIN T) : e[1] \in ToSet(T[e[2]])}]

IsTerms(T) ==
  /\ IsFiniteSet(DOMAIN T) /\ DOMAIN T \subseteq Name
  /\ \A t \in DOMAIN T : T[t] \in Seq(Name)

InlineArgs(T, f, n, stack) == [i \in DOMAIN T[n] |-> f[stack \cup {n}][T[n][i]]]
InlinedTerm(n, args) ==
  [raises |-> \E i \in DOMAIN args : args[i].raises,
   tree |-> [term |-> n, args |-> [i \in DOMAIN args |-> args[i].tree]],
   columns |-> UNION {args[i].columns : i \in DOMAIN args}]

InlineStep(T, f, n, stack) ==
  IF n \notin DOMAIN T
  THEN [raises |-> FALSE, tree |-> [column |-> n], columns |-> {n}]
  ELSE IF n \in stack
  THEN [raises |-> TRUE, tree |-> [column |-> n], columns |-> {}]
  ELSE InlinedTerm(n, InlineArgs(T, f, n, stack))

IsInline(T, f) == f = [stack \in SUBSET Name |-> [n \in Name |-> InlineStep(T, f, n, stack)]]
Inline(T) == CHOOSE f : IsInline(T, f)

\* The equation holds where no more than k terms are off the stack.
InlineUpTo(T, f, k) ==
  \A n \in Name, stack \in SUBSET Name :
    Cardinality(DOMAIN T \ stack) <= k => f[stack][n] = InlineStep(T, f, n, stack)

LEMMA Shrinks ==
  ASSUME NEW D, IsFiniteSet(D), NEW S
  PROVE  /\ IsFiniteSet(D \ S)
         /\ Cardinality(D \ S) \in Nat /\ Cardinality(D \ S) <= Cardinality(D)
         /\ Cardinality(D) \in Nat
         /\ \A n \in D \ S : Cardinality(D \ S) = Cardinality(D \ (S \cup {n})) + 1
<1>1. IsFiniteSet(D \ S) /\ Cardinality(D \ S) <= Cardinality(D)
  BY FS_Subset
<1>2. Cardinality(D \ S) \in Nat /\ Cardinality(D) \in Nat
  BY <1>1, FS_CardinalityType
<1>3. ASSUME NEW n \in D \ S PROVE Cardinality(D \ S) = Cardinality(D \ (S \cup {n})) + 1
  <2>1. (D \ S) \ {n} = D \ (S \cup {n})
    OBVIOUS
  <2> DEFINE a == Cardinality(D \ S)
             b == Cardinality(D \ (S \cup {n}))
  <2>2. b = a - 1
    BY <1>1, <2>1, FS_RemoveElement
  <2>3. a \in Nat
    BY <1>2
  <2> QED
    <3> HIDE DEF a, b
    <3>1. a = b + 1
      BY <2>2, <2>3
    <3> QED
      BY <3>1 DEF a, b
<1> QED
  BY <1>1, <1>2, <1>3

\* A call looks only at what the calls with a longer stack return.
LEMMA InlineStepReads ==
  ASSUME NEW T, IsTerms(T), NEW f, NEW g, NEW n \in Name, NEW stack \in SUBSET Name,
         n \in DOMAIN T /\ n \notin stack =>
           \A m \in Name : f[stack \cup {n}][m] = g[stack \cup {n}][m]
  PROVE  InlineStep(T, f, n, stack) = InlineStep(T, g, n, stack)
<1>1. CASE n \in DOMAIN T /\ n \notin stack
  <2>1. T[n] \in Seq(Name)
    BY <1>1 DEF IsTerms
  <2>2. \A i \in DOMAIN T[n] : T[n][i] \in Name
    BY <2>1
  <2>3. InlineArgs(T, f, n, stack) = InlineArgs(T, g, n, stack)
    BY <1>1, <2>2 DEF InlineArgs
  <2> QED
    BY <2>3 DEF InlineStep
<1>2. CASE ~(n \in DOMAIN T /\ n \notin stack)
  BY <1>2 DEF InlineStep
<1> QED
  BY <1>1, <1>2

LEMMA InlineIs ==
  ASSUME NEW T, IsTerms(T)
  PROVE  IsInline(T, Inline(T))
<1> DEFINE N == {k \in Nat : \E f : InlineUpTo(T, f, k)}
           Next1(f) == [stack \in SUBSET Name |-> [n \in Name |-> InlineStep(T, f, n, stack)]]
<1>1. ASSUME NEW f, NEW n \in Name, NEW stack \in SUBSET Name
      PROVE  Next1(f)[stack][n] = InlineStep(T, f, n, stack)
  OBVIOUS
<1>2. IsFiniteSet(DOMAIN T) /\ DOMAIN T \subseteq Name
  BY DEF IsTerms
<1> HIDE DEF Next1
<1>3. 0 \in N
  <2> DEFINE f == Next1(0)
  <2>1. ASSUME NEW n \in Name, NEW stack \in SUBSET Name,
               Cardinality(DOMAIN T \ stack) <= 0
        PROVE  f[stack][n] = InlineStep(T, f, n, stack)
    <3>1. ~(n \in DOMAIN T /\ n \notin stack)
      <4> SUFFICES ASSUME n \in DOMAIN T \ stack PROVE FALSE
        OBVIOUS
      <4> DEFINE a == Cardinality(DOMAIN T \ stack)
                 b == Cardinality(DOMAIN T \ (stack \cup {n}))
      <4>1. a = b + 1
        BY <1>2, Shrinks
      <4>2. b \in Nat
        BY <1>2, Shrinks
      <4>3. a <= 0
        BY <2>1
      <4> QED
        <5> HIDE DEF a, b
        <5> QED
          BY <4>1, <4>2, <4>3
    <3>2. InlineStep(T, f, n, stack) = InlineStep(T, 0, n, stack)
      BY <3>1, InlineStepReads
    <3> QED
      BY <1>1, <3>2
  <2>2. InlineUpTo(T, f, 0)
    BY <2>1 DEF InlineUpTo
  <2> QED
    BY <2>2
<1>4. ASSUME NEW k \in N PROVE k + 1 \in N
  <2>1. PICK g : InlineUpTo(T, g, k)
    OBVIOUS
  <2> DEFINE f == Next1(g)
  <2>2. ASSUME NEW n \in Name, NEW stack \in SUBSET Name,
               Cardinality(DOMAIN T \ stack) <= k + 1
        PROVE  f[stack][n] = InlineStep(T, f, n, stack)
    <3>1. f[stack][n] = InlineStep(T, g, n, stack)
      BY <1>1
    <3>2. ASSUME n \in DOMAIN T /\ n \notin stack, NEW m \in Name
          PROVE  f[stack \cup {n}][m] = g[stack \cup {n}][m]
      <4>1. stack \cup {n} \in SUBSET Name
        OBVIOUS
      <4>2. Cardinality(DOMAIN T \ (stack \cup {n})) <= k
        <5>1. Cardinality(DOMAIN T \ stack) = Cardinality(DOMAIN T \ (stack \cup {n})) + 1
          BY <1>2, <3>2, Shrinks
        <5>2. Cardinality(DOMAIN T \ (stack \cup {n})) \in Nat
          BY <1>2, Shrinks
        <5> QED
          BY <2>2, <5>1, <5>2
      <4>3. g[stack \cup {n}][m] = InlineStep(T, g, m, stack \cup {n})
        BY <2>1, <4>1, <4>2 DEF InlineUpTo
      <4> QED
        BY <1>1, <4>1, <4>3
    <3> HIDE DEF f
    <3>3. InlineStep(T, f, n, stack) = InlineStep(T, g, n, stack)
      BY <3>2, InlineStepReads
    <3> QED
      BY <3>1, <3>3
  <2>3. InlineUpTo(T, f, k + 1)
    <3> HIDE DEF f
    <3> QED
      BY <2>2 DEF InlineUpTo
  <2> QED
    BY <2>3
<1>5. N = Nat
  <2> HIDE DEF N
  <2>1. N \subseteq Nat
    BY DEF N
  <2> QED
    BY <1>3, <1>4, <2>1, Induction
<1>6. PICK f : InlineUpTo(T, f, Cardinality(DOMAIN T))
  <2>1. Cardinality(DOMAIN T) \in N
    BY <1>2, <1>5, Shrinks
  <2> QED
    BY <2>1
<1> HIDE DEF N
<1>7. IsInline(T, Next1(f))
  <2>1. ASSUME NEW n \in Name, NEW stack \in SUBSET Name
        PROVE  f[stack][n] = Next1(f)[stack][n]
    BY <1>1, <1>2, <1>6, Shrinks DEF InlineUpTo
  <2>2. ASSUME NEW n \in Name, NEW stack \in SUBSET Name
        PROVE  InlineStep(T, f, n, stack) = InlineStep(T, Next1(f), n, stack)
    <3>1. n \in DOMAIN T /\ n \notin stack =>
            \A m \in Name : f[stack \cup {n}][m] = Next1(f)[stack \cup {n}][m]
      BY <2>1
    <3> QED
      BY <3>1, InlineStepReads
  <2>3. Next1(f) = [stack \in SUBSET Name |-> [n \in Name |-> InlineStep(T, f, n, stack)]]
    BY DEF Next1
  <2> DEFINE h == Next1(f)
  <2>4. \A stack \in SUBSET Name :
          [n \in Name |-> InlineStep(T, f, n, stack)] = [n \in Name |-> InlineStep(T, h, n, stack)]
    BY <2>2
  <2> HIDE DEF h
  <2>5. h = [stack \in SUBSET Name |-> [n \in Name |-> InlineStep(T, h, n, stack)]]
    BY <2>3, <2>4 DEF h
  <2> QED
    BY <2>5 DEF IsInline, h
<1> QED
  BY <1>7 DEF Inline

\* What _inline returns, call by call.
LEMMA InlineCalls ==
  ASSUME NEW T, IsTerms(T), NEW n \in Name, NEW stack \in SUBSET Name
  PROVE  Inline(T)[stack][n] = InlineStep(T, Inline(T), n, stack)
BY InlineIs DEF IsInline

LEMMA InlinedIsInline == Inlined = Inline(terms)[{}]
BY DEF Inlined, Inline, IsInline, InlineStep, InlinedTerm, InlineArgs

\* Induction over the stacks of _inline: what holds of a call once it holds of
\* the calls it makes, one more term on their stack, holds of every call.
LEMMA StackInduction ==
  ASSUME NEW D, IsFiniteSet(D), D \subseteq Name, NEW P,
         \A n \in D, stack \in SUBSET Name :
           (n \notin stack => \A m \in D : stack \cup {n} \in P[m]) => stack \in P[n]
  PROVE  \A n \in D, stack \in SUBSET Name : stack \in P[n]
<1> DEFINE Off(stack) == Cardinality(D \ stack)
           N == {k \in Nat : \A n \in D, stack \in SUBSET Name : Off(stack) <= k => stack \in P[n]}
<1>1. \A stack : Off(stack) \in Nat
  BY Shrinks
<1>2. ASSUME NEW n \in D, NEW stack, n \notin stack
      PROVE  Off(stack) = Off(stack \cup {n}) + 1
  <2>1. n \in D \ stack
    BY <1>2
  <2> HIDE DEF N
  <2>2. Cardinality(D \ stack) = Cardinality(D \ (stack \cup {n})) + 1
    BY ONLY IsFiniteSet(D), <2>1, Shrinks
  <2> QED
    BY <2>2
<1> HIDE DEF Off
<1>3. 0 \in N
  <2>1. ASSUME NEW n \in D, NEW stack \in SUBSET Name, Off(stack) <= 0
        PROVE  stack \in P[n]
    <3>1. n \in stack
      <4> SUFFICES ASSUME n \notin stack PROVE FALSE
        OBVIOUS
      <4>1. Off(stack) = Off(stack \cup {n}) + 1 /\ Off(stack \cup {n}) \in Nat
        BY <1>1, <1>2
      <4> QED
        BY <2>1, <4>1
    <3> QED
      BY <3>1
  <2> QED
    BY <2>1
<1>4. ASSUME NEW k \in N PROVE k + 1 \in N
  <2>1. ASSUME NEW n \in D, NEW stack \in SUBSET Name, Off(stack) <= k + 1
        PROVE  stack \in P[n]
    <3>1. ASSUME n \notin stack, NEW m \in D PROVE stack \cup {n} \in P[m]
      <4>1. Off(stack) = Off(stack \cup {n}) + 1 /\ Off(stack \cup {n}) \in Nat
        BY <1>1, <1>2, <3>1
      <4>2. Off(stack \cup {n}) <= k
        BY <2>1, <4>1
      <4>3. stack \cup {n} \in SUBSET Name
        OBVIOUS
      <4> QED
        BY <4>2, <4>3
    <3> QED
      BY <3>1
  <2> QED
    BY <2>1
<1>5. N = Nat
  <2> HIDE DEF N
  <2>1. N \subseteq Nat
    BY DEF N
  <2> QED
    BY <1>3, <1>4, <2>1, Induction
<1>6. ASSUME NEW n \in D, NEW stack \in SUBSET Name PROVE stack \in P[n]
  <2>1. Off(stack) \in N /\ Off(stack) <= Off(stack)
    BY <1>1, <1>5
  <2> QED
    BY <2>1
<1> QED
  BY <1>6

\* What a term requires is itself, and what the terms it reads require.
LEMMA RequiredOfTerm ==
  ASSUME NEW G, IsGraph(G), NEW n \in G.node
  PROVE  /\ n \in Required(G, n)
         /\ \A a \in Predecessors(G, n) : Required(G, a) \subseteq Ancestors(G, n)
         /\ \A m \in Ancestors(G, n) : \E a \in Predecessors(G, n) : m \in Required(G, a)
         /\ \A m \in Ancestors(G, n) : Required(G, m) \subseteq Ancestors(G, n)
<1>1. n \in Required(G, n)
  BY DEF Required
<1>2. Predecessors(G, n) \subseteq G.node /\ Ancestors(G, n) \subseteq G.node
  BY DEF Predecessors, Ancestors
<1>3. ASSUME NEW m \in Ancestors(G, n) PROVE Required(G, m) \subseteq Ancestors(G, n)
  <2>1. Predecessors(G, m) \subseteq Ancestors(G, n)
    BY <1>3, AncestorsClosed DEF ClosedBackward, Predecessors
  <2>2. ASSUME NEW x \in Ancestors(G, m) PROVE x \in Ancestors(G, n)
    BY <1>2, <2>1, AncestorsClosed DEF Ancestors
  <2> QED
    BY <1>3, <2>2 DEF Required
<1>4. \A a \in Predecessors(G, n) : Required(G, a) \subseteq Ancestors(G, n)
  BY <1>3, AncestorsClosed
<1>5. ASSUME NEW m \in Ancestors(G, n)
      PROVE  \E a \in Predecessors(G, n) : m \in Required(G, a)
  <2> DEFINE S == {x \in G.node : \E a \in Predecessors(G, n) : x \in Required(G, a)}
  <2>1. Predecessors(G, n) \subseteq S
    BY <1>2 DEF Required
  <2>2. ASSUME NEW e \in G.edge, e[2] \in S PROVE e[1] \in S
    <3>1. PICK a \in Predecessors(G, n) : e[2] \in Required(G, a)
      BY <2>2
    <3>2. a \in G.node /\ e[1] \in G.node /\ e[2] \in G.node /\ e = <<e[1], e[2]>>
      BY <1>2 DEF IsGraph
    <3>3. CASE e[2] = a
      <4>1. e[1] \in Predecessors(G, a)
        BY <3>2, <3>3 DEF Predecessors
      <4> QED
        BY <3>2, <4>1, AncestorsClosed DEF Required
    <3>4. CASE e[2] \in Ancestors(G, a)
      <4>1. e[1] \in Ancestors(G, a)
        BY <3>2, <3>4, AncestorsClosed DEF ClosedBackward
      <4> QED
        BY <3>2, <4>1 DEF Required
    <3> QED
      BY <3>1, <3>3, <3>4 DEF Required
  <2>3. ClosedBackward(G, S) /\ S \in SUBSET G.node
    BY <2>2 DEF ClosedBackward
  <2>4. m \in S
    <3> HIDE DEF S
    <3> QED
      BY <2>1, <2>3 DEF Ancestors
  <2> QED
    BY <2>4
<1> QED
  BY <1>1, <1>3, <1>4, <1>5

\* The terms a term reads are the terms among its variables.
LEMMA UsesFacts ==
  ASSUME NEW T
  PROVE  /\ IsGraph(Uses(T)) /\ Uses(T).node = DOMAIN T
         /\ \A n \in DOMAIN T : Predecessors(Uses(T), n) = ToSet(T[n]) \cap DOMAIN T
BY DEF Uses, IsGraph, Predecessors

LEMMA TermGraphIsUses == TermGraph = Uses(terms)
BY DEF TermGraph, Uses, Vars

\* A term that requires no term on a cycle.
Grounded(T, n) == \A m \in Required(Uses(T), n) : m \notin Ancestors(Uses(T), m)

\* _inline raises when it comes to a term on the stack or on a cycle.
LEMMA TermRaises ==
  ASSUME NEW T, NEW f, NEW n, NEW stack
  PROVE  InlinedTerm(n, InlineArgs(T, f, n, stack)).raises
           <=> \E i \in DOMAIN T[n] : f[stack \cup {n}][T[n][i]].raises
<1> DEFINE args == InlineArgs(T, f, n, stack)
<1>1. DOMAIN args = DOMAIN T[n] /\ \A i \in DOMAIN T[n] : args[i] = f[stack \cup {n}][T[n][i]]
  BY DEF InlineArgs
<1> HIDE DEF args
<1>2. InlinedTerm(n, args).raises = (\E i \in DOMAIN args : args[i].raises)
  BY DEF InlinedTerm
<1> QED
  BY <1>1, <1>2 DEF args

LEMMA LeafCalls ==
  ASSUME NEW T, IsTerms(T), NEW n \in Name, NEW stack \in SUBSET Name
  PROVE  /\ n \notin DOMAIN T =>
              Inline(T)[stack][n] = [raises |-> FALSE, tree |-> [column |-> n], columns |-> {n}]
         /\ n \notin DOMAIN T => ~Inline(T)[stack][n].raises
         /\ n \in DOMAIN T /\ n \in stack => Inline(T)[stack][n].raises
<1>1. n \notin DOMAIN T =>
        Inline(T)[stack][n] = [raises |-> FALSE, tree |-> [column |-> n], columns |-> {n}]
  BY InlineCalls DEF InlineStep
<1>2. n \in DOMAIN T /\ n \in stack =>
        Inline(T)[stack][n] = [raises |-> TRUE, tree |-> [column |-> n], columns |-> {}]
  BY InlineCalls DEF InlineStep
<1> QED
  BY <1>1, <1>2

RaisesOnCycle(T, n, stack) ==
  Inline(T)[stack][n].raises => ~Grounded(T, n) \/ Required(Uses(T), n) \cap stack # {}
RaisesOnEveryCycle(T, n, stack) ==
  ~Inline(T)[stack][n].raises => Grounded(T, n) /\ Required(Uses(T), n) \cap stack = {}

LEMMA RaisesMeansCycle ==
  ASSUME NEW T, IsTerms(T), NEW n \in DOMAIN T, NEW stack \in SUBSET Name
  PROVE  RaisesOnCycle(T, n, stack)
<1> DEFINE G == Uses(T)
           P == [m \in DOMAIN T |-> {st \in SUBSET Name : RaisesOnCycle(T, m, st)}]
<1>1. ASSUME NEW a \in DOMAIN T, NEW S \in SUBSET Name,
             a \notin S => \A m \in DOMAIN T : S \cup {a} \in P[m]
      PROVE  S \in P[a]
  <2> SUFFICES RaisesOnCycle(T, a, S)
    OBVIOUS
  <2> SUFFICES ASSUME Inline(T)[S][a].raises
               PROVE  ~Grounded(T, a) \/ Required(G, a) \cap S # {}
    BY DEF RaisesOnCycle
  <2>0. a \in Name /\ T[a] \in Seq(Name)
    BY DEF IsTerms
  <2>1. CASE a \in S
    BY <2>1 DEF Required
  <2>2. CASE a \notin S
    <3>1. Inline(T)[S][a] = InlinedTerm(a, InlineArgs(T, Inline(T), a, S))
      BY <2>0, <2>2, InlineCalls DEF InlineStep
    <3>2. PICK i \in DOMAIN T[a] : Inline(T)[S \cup {a}][T[a][i]].raises
      BY <3>1, TermRaises
    <3> DEFINE b == T[a][i]
    <3>3. b \in Name /\ b \in ToSet(T[a])
      BY <2>0 DEF ToSet
    <3> HIDE DEF b
    <3>4. b \in DOMAIN T
      <4> SUFFICES ASSUME b \notin DOMAIN T PROVE FALSE
        OBVIOUS
      <4>1. S \cup {a} \in SUBSET Name
        BY <2>0
      <4>2. ~Inline(T)[S \cup {a}][b].raises
        BY <3>3, <4>1, LeafCalls
      <4> QED
        BY <3>2, <4>2 DEF b
    <3>5. S \cup {a} \in P[b]
      BY <2>2, <3>4, <1>1
    <3>6. ~Grounded(T, b) \/ Required(G, b) \cap (S \cup {a}) # {}
      <4>1. Inline(T)[S \cup {a}][b].raises
        BY <3>2 DEF b
      <4> QED
        <5>1. RaisesOnCycle(T, b, S \cup {a})
          BY <3>5, <3>4
        <5> QED
          BY <4>1, <5>1 DEF RaisesOnCycle
    <3>7. b \in Predecessors(G, a) /\ a \in G.node /\ IsGraph(G)
      BY <3>3, <3>4, UsesFacts
    <3> HIDE DEF G, P
    <3>8. Required(G, b) \subseteq Ancestors(G, a)
      BY <3>7, RequiredOfTerm
    <3>9. CASE ~Grounded(T, b)
      BY <3>8, <3>9 DEF Grounded, G, Required
    <3>10. CASE Required(G, b) \cap (S \cup {a}) # {}
      <4>1. PICK m \in Required(G, b) : m \in S \cup {a}
        BY <3>10
      <4>2. CASE m \in S
        BY <3>8, <4>1, <4>2 DEF Required
      <4>3. CASE m = a
        BY <3>8, <4>1, <4>3 DEF Grounded, Required, G
      <4> QED
        BY <4>1, <4>2, <4>3
    <3> QED
      BY <3>6, <3>9, <3>10
  <2> QED
    BY <2>1, <2>2
<1> HIDE DEF P
<1>2. stack \in P[n]
  BY <1>1, StackInduction DEF IsTerms
<1> QED
  BY <1>2 DEF P

LEMMA CycleRaises ==
  ASSUME NEW T, IsTerms(T), NEW n \in DOMAIN T, NEW stack \in SUBSET Name
  PROVE  RaisesOnEveryCycle(T, n, stack)
<1> DEFINE G == Uses(T)
           P == [m \in DOMAIN T |-> {st \in SUBSET Name : RaisesOnEveryCycle(T, m, st)}]
<1>1. ASSUME NEW a \in DOMAIN T, NEW S \in SUBSET Name,
             a \notin S => \A m \in DOMAIN T : S \cup {a} \in P[m]
      PROVE  S \in P[a]
  <2> SUFFICES RaisesOnEveryCycle(T, a, S)
    OBVIOUS
  <2> SUFFICES ASSUME ~Inline(T)[S][a].raises
               PROVE  Grounded(T, a) /\ Required(G, a) \cap S = {}
    BY DEF RaisesOnEveryCycle
  <2>0. a \in Name /\ T[a] \in Seq(Name)
    BY DEF IsTerms
  <2>1. a \notin S
    BY <2>0, LeafCalls
  <2>2. Inline(T)[S][a] = InlinedTerm(a, InlineArgs(T, Inline(T), a, S))
    BY <2>0, <2>1, InlineCalls DEF InlineStep
  <2>3. \A i \in DOMAIN T[a] : ~Inline(T)[S \cup {a}][T[a][i]].raises
    BY <2>2, TermRaises
  <2>4. /\ Predecessors(G, a) = ToSet(T[a]) \cap DOMAIN T
        /\ IsGraph(G) /\ G.node = DOMAIN T
    BY UsesFacts
  <2>5. ASSUME NEW b \in Predecessors(G, a)
        PROVE  Grounded(T, b) /\ Required(G, b) \cap (S \cup {a}) = {}
    <3>1. b \in DOMAIN T /\ \E i \in DOMAIN T[a] : b = T[a][i]
      BY <2>4 DEF ToSet
    <3>2. ~Inline(T)[S \cup {a}][b].raises
      BY <2>3, <3>1
    <3>3. S \cup {a} \in P[b]
      BY <1>1, <2>1, <3>1
    <3> QED
      <4>1. RaisesOnEveryCycle(T, b, S \cup {a})
        BY <3>3, <3>1
      <4> QED
        BY <3>2, <4>1 DEF RaisesOnEveryCycle
  <2> HIDE DEF G, P
  <2>6. \A m \in Ancestors(G, a) : \E b \in Predecessors(G, a) : m \in Required(G, b)
    BY <2>4, RequiredOfTerm
  <2>7. a \notin Ancestors(G, a)
    BY <2>5, <2>6
  <2>8. Grounded(T, a)
    BY <2>5, <2>6, <2>7 DEF Grounded, Required, G
  <2>9. Required(G, a) \cap S = {}
    BY <2>1, <2>5, <2>6 DEF Required
  <2> QED
    BY <2>8, <2>9
<1> HIDE DEF P
<1>2. stack \in P[n]
  BY <1>1, StackInduction DEF IsTerms
<1> QED
  BY <1>2 DEF P

\* The stack check of _inline meets a cycle just when there is one below the
\* term it inlines.
LEMMA InlineRaises ==
  ASSUME NEW T, IsTerms(T), NEW n \in DOMAIN T
  PROVE  Inline(T)[{}][n].raises <=> ~Grounded(T, n)
BY RaisesMeansCycle, CycleRaises DEF RaisesOnCycle, RaisesOnEveryCycle

LEMMA TermsAreTerms == IInv => IsTerms(terms)
BY FormulaAssumption DEF IInv, TypeOK, IsTerms

\* The default plan refuses exactly the terms that use a cycle.
THEOREM CyclesAreRefused == Spec => []RaisesOnlyOnCycle
<1>1. IInv => RaisesOnlyOnCycle
  <2> SUFFICES ASSUME IInv, NEW n \in DOMAIN terms
               PROVE  Inlined[n].raises
                        <=> \E m \in Reachable({n}) : m \in Ancestors(TermGraph, m)
    BY DEF RaisesOnlyOnCycle
  <2>1. Reachable({n}) = Required(TermGraph, n)
    BY DEF Reachable
  <2>2. Inline(terms)[{}][n].raises <=> ~Grounded(terms, n)
    BY TermsAreTerms, InlineRaises
  <2> QED
    BY <2>1, <2>2, InlinedIsInline, TermGraphIsUses DEF Grounded
<1> QED
  BY <1>1, Invariance, PTL

\* More terms than T, none of which takes the name of a variable that is not a
\* term of T in what n uses.
Extends(T, more, n) ==
  \A m \in Required(Uses(T), n) :
    m \in DOMAIN more /\ more[m] = T[m] /\ ToSet(T[m]) \cap DOMAIN more \subseteq DOMAIN T

SameCall(T, more, n, stack) ==
  Extends(T, more, n) => Inline(more)[stack][n] = Inline(T)[stack][n]

LEMMA ExtensionKeepsMeaning ==
  ASSUME NEW T, IsTerms(T), NEW more, IsTerms(more), NEW n \in DOMAIN T,
         NEW stack \in SUBSET Name
  PROVE  SameCall(T, more, n, stack)
<1> DEFINE G == Uses(T)
           P == [m \in DOMAIN T |-> {st \in SUBSET Name : SameCall(T, more, m, st)}]
<1>1. ASSUME NEW a \in DOMAIN T, NEW S \in SUBSET Name,
             a \notin S => \A m \in DOMAIN T : S \cup {a} \in P[m]
      PROVE  S \in P[a]
  <2> SUFFICES SameCall(T, more, a, S)
    OBVIOUS
  <2> SUFFICES ASSUME Extends(T, more, a)
               PROVE  Inline(more)[S][a] = Inline(T)[S][a]
    BY DEF SameCall
  <2>0. a \in Name /\ T[a] \in Seq(Name)
    BY DEF IsTerms
  <2>1. /\ a \in DOMAIN more /\ more[a] = T[a]
        /\ ToSet(T[a]) \cap DOMAIN more \subseteq DOMAIN T
    BY DEF Extends, Required
  <2>2. CASE a \in S
    <3>1. \A U : IsTerms(U) /\ a \in DOMAIN U =>
             Inline(U)[S][a] = [raises |-> TRUE, tree |-> [column |-> a], columns |-> {}]
      BY <2>0, <2>2, InlineCalls DEF InlineStep
    <3> QED
      BY <2>1, <3>1
  <2>3. CASE a \notin S
    <3>1. \A U : IsTerms(U) /\ a \in DOMAIN U =>
             Inline(U)[S][a] = InlinedTerm(a, InlineArgs(U, Inline(U), a, S))
      BY <2>0, <2>3, InlineCalls DEF InlineStep
    <3>2. ASSUME NEW i \in DOMAIN T[a]
          PROVE  Inline(more)[S \cup {a}][T[a][i]] = Inline(T)[S \cup {a}][T[a][i]]
      <4> DEFINE b == T[a][i]
      <4>1. b \in Name /\ b \in ToSet(T[a])
        BY <2>0 DEF ToSet
      <4> HIDE DEF b
      <4>2. S \cup {a} \in SUBSET Name
        BY <2>0
      <4>3. CASE b \notin DOMAIN T
        <5>1. b \notin DOMAIN more
          BY <2>1, <4>1, <4>3
        <5> DEFINE leaf == [raises |-> FALSE, tree |-> [column |-> b], columns |-> {b}]
        <5>2. Inline(T)[S \cup {a}][b] = leaf
          BY <4>1, <4>2, <4>3, LeafCalls
        <5>3. Inline(more)[S \cup {a}][b] = leaf
          BY <4>1, <4>2, <5>1, LeafCalls
        <5> HIDE DEF leaf
        <5> QED
          BY <5>2, <5>3 DEF b
      <4>4. CASE b \in DOMAIN T
        <5>1. SameCall(T, more, b, S \cup {a})
          BY <1>1, <2>3, <4>4
        <5>2. b \in Predecessors(G, a) /\ IsGraph(G) /\ a \in G.node
          BY <4>1, <4>4, UsesFacts
        <5> HIDE DEF G, P
        <5>3. Required(G, b) \subseteq Required(G, a)
          BY <5>2, RequiredOfTerm DEF Required
        <5>4. Extends(T, more, b)
          BY <5>3 DEF Extends, G
        <5> QED
          BY <5>1, <5>4 DEF SameCall, b
      <4> QED
        BY <4>3, <4>4
    <3>3. InlineArgs(more, Inline(more), a, S) = InlineArgs(T, Inline(T), a, S)
      BY <2>1, <3>2 DEF InlineArgs
    <3> QED
      BY <2>1, <3>1, <3>3
  <2> QED
    BY <2>2, <2>3
<1> HIDE DEF P
<1>2. stack \in P[n]
  BY <1>1, StackInduction DEF IsTerms
<1> QED
  BY <1>2 DEF P

\* Whatever is registered later, what a declared term computes is settled.
THEOREM MeaningAlwaysKept == Spec => MeaningKept
<1> DEFINE Same == \A t \in declared : Resolved({t}) => Inlined'[t] = Inlined[t]
<1>1. IInv /\ IInv' /\ [Next]_vars => [Same]_vars
  <2> SUFFICES ASSUME IInv, IInv', Next, NEW t \in declared, Resolved({t})
               PROVE  Inlined'[t] = Inlined[t]
    OBVIOUS
  <2>0. t \in DOMAIN terms
    BY DEF IInv, TypeOK
  <2>1. IsTerms(terms) /\ IsTerms(terms')
    BY FormulaAssumption DEF IInv, TypeOK, IsTerms
  <2>2. Inlined' = Inline(terms')[{}]
    BY DEF Inlined, Inline, IsInline, InlineStep, InlinedTerm, InlineArgs
  <2>3. /\ DOMAIN terms \subseteq DOMAIN terms' /\ input' = input
        /\ \A m \in DOMAIN terms : terms'[m] = terms[m]
    <3>1. ASSUME NEW name, NEW expr, Register(name, expr)
          PROVE  /\ DOMAIN terms \subseteq DOMAIN terms' /\ input' = input
                 /\ \A m \in DOMAIN terms : terms'[m] = terms[m]
      BY <3>1 DEF Register
    <3>2. ASSUME NEW view, NEW targets, Returns(view, targets)
          PROVE  terms' = terms /\ input' = input
      BY <3>2 DEF Returns
    <3> QED
      BY <3>1, <3>2 DEF Next, Let, Formula
  <2>4. Required(Uses(terms), t) \subseteq declared
    BY <2>0, TermGraphIsUses DEF Resolved, Reachable
  <2>5. Extends(terms, terms', t)
    <3> SUFFICES ASSUME NEW m \in Required(Uses(terms), t)
                 PROVE  /\ m \in DOMAIN terms' /\ terms'[m] = terms[m]
                        /\ ToSet(terms[m]) \cap DOMAIN terms' \subseteq DOMAIN terms
      BY DEF Extends
    <3>1. m \in declared /\ m \in DOMAIN terms
      BY <2>4 DEF IInv, TypeOK
    <3>2. HasSchema /\ ToSet(terms[m]) \subseteq input \cup known[m]
      BY <3>1 DEF IInv, VarsAreKnown, Vars
    <3>3. known[m] \subseteq DOMAIN terms
      BY <3>1 DEF IInv, KnownIsOrder
    <3>4. \A x \in DOMAIN terms' : x \notin input
      BY <2>3, <3>2 DEF IInv, NothingShadowed, HasSchema
    <3> QED
      BY <2>3, <3>1, <3>2, <3>3, <3>4
  <2>6. Inline(terms')[{}][t] = Inline(terms)[{}][t]
    BY <2>0, <2>1, <2>5, ExtensionKeepsMeaning DEF SameCall
  <2> QED
    BY <2>2, <2>6, InlinedIsInline
<1> QED
  BY <1>1, Invariance, PTL DEF Spec, MeaningKept

LEMMA InitialIndices ==
  /\ 1..0 = {}
  /\ \A n \in Nat :
       /\ 1..(n + 1) \in SUBSET (1..(n + 1)) /\ 1..n \in SUBSET (1..(n + 1))
       /\ 1..(n + 1) # {} /\ Max(1..(n + 1)) = n + 1 /\ (1..(n + 1)) \ {n + 1} = 1..n
       /\ \A S \in SUBSET (1..(n + 1)) :
            /\ n + 1 \in S => Max(S) = n + 1
            /\ S \ {n + 1} \in SUBSET (1..n)
            /\ n + 1 \notin S => S \ {Max(S)} \in SUBSET (1..n) /\ S \in SUBSET (1..n)
<1>1. 1..0 = {}
  OBVIOUS
<1>2. ASSUME NEW n \in Nat, NEW S \in SUBSET (1..(n + 1)), n + 1 \in S
      PROVE  Max(S) = n + 1
  <2>1. \A y \in S : n + 1 >= y
    OBVIOUS
  <2>2. \A x \in S : (\A y \in S : x >= y) => x = n + 1
    <3> SUFFICES ASSUME NEW x \in S, \A y \in S : x >= y PROVE x = n + 1
      OBVIOUS
    <3>1. x >= n + 1 /\ n + 1 >= x /\ x \in Nat
      BY <1>2, <2>1
    <3> QED
      BY <3>1
  <2> QED
    BY <1>2, <2>1, <2>2 DEF Max
<1>3. \A n \in Nat : 1..(n + 1) # {} /\ (1..(n + 1)) \ {n + 1} = 1..n
                     /\ n + 1 \in 1..(n + 1) /\ 1..n \subseteq 1..(n + 1)
  OBVIOUS
<1>4. ASSUME NEW n \in Nat, NEW S \in SUBSET (1..(n + 1))
      PROVE  /\ S \ {n + 1} \in SUBSET (1..n)
             /\ n + 1 \notin S => S \ {Max(S)} \in SUBSET (1..n) /\ S \in SUBSET (1..n)
  <2>1. \A x \in S : x # n + 1 => x \in 1..n
    OBVIOUS
  <2> QED
    BY <2>1
<1>5. \A n \in Nat : Max(1..(n + 1)) = n + 1
  BY <1>2, <1>3
<1> QED
  BY <1>1, <1>2, <1>3, <1>4, <1>5

-----------------------------------------------------------------------------
(* Depth first.  A fold over a sequence is computed by a function on sets of  *)
(* indices; on the first k indices it has folded the first k elements.        *)
VisitOne(f, st, n) == f[st][n]
VisitAll(f, base, s) == FoldLeft(LAMBDA st, n : f[st][n], base, s)

LEMMA VisitsAreChain ==
  ASSUME NEW f, NEW base, NEW X, NEW s \in Seq(X)
  PROVE  \E J : /\ J[0] = base
                /\ \A k \in 0..(Len(s) - 1) : J[k + 1] = VisitOne(f, J[k], s[k + 1])
                /\ VisitAll(f, base, s) = J[Len(s)]
                /\ VisitAll(f, base, s) = J[Len(s)]
<1> DEFINE Iter(n, it) ==
             it = [S \in SUBSET (1..n) |->
                     IF S = {} THEN base
                     ELSE VisitOne(f, it[S \ {Max(S)}], s[Max(S)])]
           N == {n \in Nat : \E it : Iter(n, it)}
<1>1. 0 \in N
  <2>1. Iter(0, [S \in SUBSET (1..0) |-> base])
    BY InitialIndices
  <2> QED
    BY <2>1
<1>2. ASSUME NEW n \in N PROVE n + 1 \in N
  <2>1. PICK it : Iter(n, it)
    OBVIOUS
  <2> DEFINE more == [S \in SUBSET (1..(n + 1)) |->
                        IF n + 1 \in S
                        THEN VisitOne(f, it[S \ {n + 1}], s[n + 1])
                        ELSE it[S]]
  <2>2. ASSUME NEW S \in SUBSET (1..(n + 1))
        PROVE  more[S] = IF S = {} THEN base
                         ELSE VisitOne(f, more[S \ {Max(S)}], s[Max(S)])
    <3>1. CASE n + 1 \in S
      <4>1. Max(S) = n + 1 /\ S # {}
        BY <3>1, InitialIndices
      <4>2. S \ {n + 1} \in SUBSET (1..(n + 1)) /\ n + 1 \notin S \ {n + 1}
        OBVIOUS
      <4>3. more[S \ {n + 1}] = it[S \ {n + 1}]
        BY <4>2
      <4> QED
        BY <3>1, <4>1, <4>3
    <3>2. CASE n + 1 \notin S
      <4>1. S \ {Max(S)} \in SUBSET (1..n) /\ S \in SUBSET (1..n)
        BY <3>2, InitialIndices
      <4>2. S \ {Max(S)} \in SUBSET (1..(n + 1)) /\ n + 1 \notin S \ {Max(S)}
        BY <3>2
      <4>3. more[S \ {Max(S)}] = it[S \ {Max(S)}] /\ more[S] = it[S]
        BY <3>2, <4>2
      <4>4. it[S] = IF S = {} THEN base
                    ELSE VisitOne(f, it[S \ {Max(S)}], s[Max(S)])
        BY <2>1, <4>1
      <4> QED
        BY <4>3, <4>4
    <3> QED
      BY <3>1, <3>2
  <2>3. Iter(n + 1, more)
    <3> HIDE DEF more
    <3>1. more = [S \in SUBSET (1..(n + 1)) |-> more[S]]
      BY DEF more
    <3> QED
      BY <2>2, <3>1
  <2> HIDE DEF Iter, more
  <2> QED
    BY <2>3
<1>3. N = Nat
  <2> HIDE DEF N
  <2>1. N \subseteq Nat
    BY DEF N
  <2> QED
    BY <1>1, <1>2, <2>1, Induction
<1> DEFINE n == Len(s)
           it == CHOOSE g : Iter(n, g)
<1>4. n \in Nat /\ DOMAIN s = 1..n
  OBVIOUS
<1>5. Iter(n, it)
  <2> HIDE DEF Iter
  <2>1. \E g : Iter(n, g)
    BY <1>3, <1>4
  <2> QED
    BY <2>1
<1>6. VisitAll(f, base, s) = it[1..n]
  <2>1. VisitAll(f, base, s) =
          (CHOOSE g : g = [S \in SUBSET (DOMAIN s) |->
                     IF S = {} THEN base
                     ELSE VisitOne(f, g[S \ {Max(S)}], s[Max(S)])])[DOMAIN s]
    BY DEF VisitAll, VisitOne, FoldLeft, MapThenFoldSet
  <2> HIDE DEF n
  <2> QED
    BY <2>1, <1>4
<1> DEFINE J == [k \in 0..n |-> it[1..k]]
<1> HIDE DEF it
<1>7. it[{}] = base
  BY <1>4, <1>5
<1>8. ASSUME NEW k \in 0..(n - 1)
      PROVE  it[1..(k + 1)] = VisitOne(f, it[1..k], s[k + 1])
  <2>1. k \in Nat /\ 1..(k + 1) \in SUBSET (1..n)
    BY <1>4
  <2>2. 1..(k + 1) # {} /\ Max(1..(k + 1)) = k + 1 /\ (1..(k + 1)) \ {k + 1} = 1..k
    BY <2>1, InitialIndices
  <2>3. \A S \in SUBSET (1..n) : it[S] = IF S = {} THEN base
                     ELSE VisitOne(f, it[S \ {Max(S)}], s[Max(S)])
    BY <1>5
  <2> QED
    BY <2>1, <2>2, <2>3
<1>9. J[0] = base /\ J[n] = VisitAll(f, base, s)
  BY <1>4, <1>6, <1>7, InitialIndices
<1>10. \A k \in 0..(n - 1) : J[k + 1] = VisitOne(f, J[k], s[k + 1])
  BY <1>4, <1>8
<1> QED
  BY <1>9, <1>10

States == [seen : SUBSET Name, done : Seq(Name)]
Entered(st, n) == [st EXCEPT !.seen = @ \cup {n}]
Finished(st, n) == [st EXCEPT !.done = Append(@, n)]

\* One call of visit on the terms T, where f is what the calls it makes return.
VisitStep(T, f, st, n) ==
  IF n \in st.seen \/ n \notin DOMAIN T THEN st
  ELSE Finished(VisitAll(f, Entered(st, n), T[n]), n)

IsVisit(T, f) == f = [st \in States |-> [n \in Name |-> VisitStep(T, f, st, n)]]
Visit(T) == CHOOSE f : IsVisit(T, f)

LEMMA FinishedState ==
  ASSUME NEW st \in States, NEW n \in Name
  PROVE  /\ Finished(st, n) \in States /\ Finished(st, n).seen = st.seen
         /\ Finished(st, n).done = Append(st.done, n)
<1>1. st.done \in Seq(Name) /\ st.seen \in SUBSET Name /\ st = [seen |-> st.seen, done |-> st.done]
  BY DEF States
<1>2. Append(st.done, n) \in Seq(Name)
  BY <1>1
<1>3. Finished(st, n) = [seen |-> st.seen, done |-> Append(st.done, n)]
  BY <1>1 DEF Finished
<1> QED
  BY <1>1, <1>2, <1>3 DEF States

Unseen(T, st) == Cardinality(DOMAIN T \ st.seen)

\* What visit does to a state with no more than k unseen terms.
Grows(T, f, k) ==
  \A st \in States, n \in Name : Unseen(T, st) <= k =>
    f[st][n] \in States /\ st.seen \subseteq f[st][n].seen
Agree(T, f, g, k) ==
  \A st \in States, n \in Name : Unseen(T, st) <= k => f[st][n] = g[st][n]

LEMMA UnseenFacts ==
  ASSUME NEW T, IsTerms(T), NEW st \in States
  PROVE  /\ Unseen(T, st) \in Nat /\ Unseen(T, st) <= Cardinality(DOMAIN T)
         /\ Cardinality(DOMAIN T) \in Nat
         /\ \A n \in DOMAIN T : n \notin st.seen =>
              /\ Entered(st, n) \in States /\ Entered(st, n).seen = st.seen \cup {n}
              /\ Entered(st, n).done = st.done
              /\ Unseen(T, st) = Unseen(T, Entered(st, n)) + 1
         /\ \A other \in States : st.seen \subseteq other.seen => Unseen(T, other) <= Unseen(T, st)
<1>1. IsFiniteSet(DOMAIN T) /\ DOMAIN T \subseteq Name
  BY DEF IsTerms
<1>2. /\ Unseen(T, st) \in Nat /\ Unseen(T, st) <= Cardinality(DOMAIN T)
      /\ Cardinality(DOMAIN T) \in Nat
  BY <1>1, Shrinks DEF Unseen
<1>3. ASSUME NEW n \in DOMAIN T, n \notin st.seen
      PROVE  /\ Entered(st, n) \in States /\ Entered(st, n).seen = st.seen \cup {n}
             /\ Entered(st, n).done = st.done
             /\ Unseen(T, st) = Unseen(T, Entered(st, n)) + 1
  <2>1. /\ Entered(st, n) \in States /\ Entered(st, n).seen = st.seen \cup {n}
        /\ Entered(st, n).done = st.done
    BY <1>1 DEF Entered, States
  <2> DEFINE D == DOMAIN T
             S == st.seen
  <2>2. IsFiniteSet(D) /\ n \in D \ S
    BY <1>1, <1>3
  <2>3. Cardinality(D \ S) = Cardinality(D \ (S \cup {n})) + 1
    <3> HIDE DEF D, S
    <3> QED
      BY ONLY <2>2, Shrinks
  <2> QED
    BY <2>1, <2>3 DEF Unseen
<1>4. ASSUME NEW other \in States, st.seen \subseteq other.seen
      PROVE  Unseen(T, other) <= Unseen(T, st)
  <2>1. IsFiniteSet(DOMAIN T \ st.seen)
    BY <1>1, Shrinks
  <2>2. DOMAIN T \ other.seen \subseteq DOMAIN T \ st.seen
    BY <1>4
  <2> QED
    BY <2>1, <2>2, FS_Subset DEF Unseen
<1> QED
  BY <1>2, <1>3, <1>4

\* Visits one after another from a state with no more than k unseen terms.
LEMMA VisitAllGrows ==
  ASSUME NEW T, IsTerms(T), NEW k \in Nat, NEW f, Grows(T, f, k),
         NEW base \in States, Unseen(T, base) <= k, NEW s \in Seq(Name)
  PROVE  /\ VisitAll(f, base, s) \in States /\ base.seen \subseteq VisitAll(f, base, s).seen
         /\ \A g : Agree(T, g, f, k) => VisitAll(g, base, s) = VisitAll(f, base, s)
<1>1. PICK J : /\ J[0] = base
               /\ \A j \in 0..(Len(s) - 1) : J[j + 1] = VisitOne(f, J[j], s[j + 1])
               /\ VisitAll(f, base, s) = J[Len(s)]
  BY VisitsAreChain
<1> DEFINE Right(j) == J[j] \in States /\ base.seen \subseteq J[j].seen
           N == {j \in Nat : j <= Len(s) => Right(j)}
<1>2. Len(s) \in Nat /\ \A j \in 0..(Len(s) - 1) : s[j + 1] \in Name
  OBVIOUS
<1>3. ASSUME NEW j \in 0..(Len(s) - 1), Right(j)
      PROVE  Unseen(T, J[j]) <= k /\ Right(j + 1)
  <2>1. Unseen(T, J[j]) <= k
    <3>1. Unseen(T, J[j]) <= Unseen(T, base) /\ Unseen(T, J[j]) \in Nat /\ Unseen(T, base) \in Nat
      BY <1>3, UnseenFacts
    <3> QED
      BY <3>1
  <2>2. f[J[j]][s[j + 1]] \in States /\ J[j].seen \subseteq f[J[j]][s[j + 1]].seen
    BY <1>2, <1>3, <2>1 DEF Grows
  <2>3. J[j + 1] = f[J[j]][s[j + 1]]
    BY <1>1 DEF VisitOne
  <2> QED
    BY <1>3, <2>1, <2>2, <2>3
<1>4. 0 \in N
  BY <1>1
<1>5. ASSUME NEW j \in N PROVE j + 1 \in N
  <2> SUFFICES ASSUME j + 1 <= Len(s) PROVE Right(j + 1)
    OBVIOUS
  <2>1. j \in 0..(Len(s) - 1) /\ Right(j)
    BY <1>2
  <2> HIDE DEF Right
  <2> QED
    BY <1>3, <2>1
<1>6. \A j \in 0..Len(s) : Right(j)
  <2>1. N = Nat
    <3> HIDE DEF N
    <3>1. N \subseteq Nat
      BY DEF N
    <3> QED
      BY <1>4, <1>5, <3>1, Induction
  <2> QED
    BY <1>2, <2>1
<1>7. ASSUME NEW g, Agree(T, g, f, k) PROVE VisitAll(g, base, s) = VisitAll(f, base, s)
  <2>1. PICK I : /\ I[0] = base
                 /\ \A j \in 0..(Len(s) - 1) : I[j + 1] = VisitOne(g, I[j], s[j + 1])
                 /\ VisitAll(g, base, s) = I[Len(s)]
    BY VisitsAreChain
  <2> DEFINE M == {j \in Nat : j <= Len(s) => I[j] = J[j]}
  <2>2. 0 \in M
    BY <1>1, <2>1
  <2>3. ASSUME NEW j \in M PROVE j + 1 \in M
    <3> SUFFICES ASSUME j + 1 <= Len(s) PROVE I[j + 1] = J[j + 1]
      OBVIOUS
    <3>1. j \in 0..(Len(s) - 1) /\ j \in 0..Len(s) /\ I[j] = J[j]
      BY <1>2
    <3>2. Right(j)
      BY <1>6, <3>1
    <3>3. Unseen(T, J[j]) <= k /\ J[j] \in States
      BY <1>3, <3>1, <3>2
    <3>4. f[J[j]][s[j + 1]] = g[J[j]][s[j + 1]]
      BY <1>2, <1>7, <3>1, <3>3 DEF Agree
    <3> QED
      BY <1>1, <2>1, <3>1, <3>4 DEF VisitOne
  <2>4. M = Nat
    <3> HIDE DEF M
    <3>1. M \subseteq Nat
      BY DEF M
    <3> QED
      BY <2>2, <2>3, <3>1, Induction
  <2> QED
    BY <1>1, <1>2, <2>1, <2>4
<1>8. Right(Len(s))
  BY <1>2, <1>6
<1> QED
  BY <1>1, <1>7, <1>8

\* One more call, on a state with one more unseen term.
LEMMA VisitStepGrows ==
  ASSUME NEW T, IsTerms(T), NEW k \in Nat, NEW f, Grows(T, f, k),
         NEW st \in States, Unseen(T, st) <= k + 1, NEW n \in Name
  PROVE  /\ VisitStep(T, f, st, n) \in States /\ st.seen \subseteq VisitStep(T, f, st, n).seen
         /\ \A g : Agree(T, g, f, k) => VisitStep(T, g, st, n) = VisitStep(T, f, st, n)
<1>1. CASE n \in st.seen \/ n \notin DOMAIN T
  BY <1>1 DEF VisitStep
<1>2. CASE ~(n \in st.seen \/ n \notin DOMAIN T)
  <2> DEFINE base == Entered(st, n)
             left == VisitAll(f, base, T[n])
  <2>1. base \in States /\ st.seen \subseteq base.seen /\ Unseen(T, base) <= k
    <3>1. /\ base \in States /\ base.seen = st.seen \cup {n}
          /\ Unseen(T, st) = Unseen(T, base) + 1 /\ Unseen(T, base) \in Nat
      BY <1>2, UnseenFacts
    <3> HIDE DEF base
    <3> QED
      BY <3>1
  <2>2. T[n] \in Seq(Name)
    BY <1>2 DEF IsTerms
  <2> HIDE DEF base
  <2>3. left \in States /\ base.seen \subseteq left.seen
    BY <2>1, <2>2, VisitAllGrows
  <2>4. \A g : Agree(T, g, f, k) => VisitAll(g, base, T[n]) = left
    BY <2>1, <2>2, VisitAllGrows
  <2> HIDE DEF left
  <2>5. Finished(left, n) \in States /\ Finished(left, n).seen = left.seen
    BY <2>3, FinishedState
  <2>6. \A g : VisitStep(T, g, st, n) = Finished(VisitAll(g, base, T[n]), n)
    BY <1>2 DEF VisitStep, base
  <2>7. VisitStep(T, f, st, n) = Finished(left, n)
    BY <2>6 DEF left
  <2> QED
    BY <2>1, <2>3, <2>4, <2>5, <2>6, <2>7
<1> QED
  BY <1>1, <1>2

\* The equation of visit holds on states with no more than k unseen terms.
VisitUpTo(T, f, k) ==
  /\ Grows(T, f, k)
  /\ \A st \in States, n \in Name : Unseen(T, st) <= k => f[st][n] = VisitStep(T, f, st, n)

LEMMA VisitIs ==
  ASSUME NEW T, IsTerms(T)
  PROVE  IsVisit(T, Visit(T))
<1> DEFINE N == {k \in Nat : \E f : VisitUpTo(T, f, k)}
           Next1(f) == [st \in States |-> [n \in Name |-> VisitStep(T, f, st, n)]]
<1>1. ASSUME NEW f, NEW n \in Name, NEW st \in States
      PROVE  Next1(f)[st][n] = VisitStep(T, f, st, n)
  OBVIOUS
<1> HIDE DEF Next1
<1>2. 0 \in N
  <2>1. ASSUME NEW st \in States, NEW n \in Name, Unseen(T, st) <= 0, NEW g
        PROVE  VisitStep(T, g, st, n) = st
    <3>1. n \in st.seen \/ n \notin DOMAIN T
      <4> SUFFICES ASSUME n \in DOMAIN T, n \notin st.seen PROVE FALSE
        OBVIOUS
      <4>1. Unseen(T, st) = Unseen(T, Entered(st, n)) + 1 /\ Entered(st, n) \in States
        BY UnseenFacts
      <4>2. Unseen(T, Entered(st, n)) \in Nat
        BY <4>1, UnseenFacts
      <4> QED
        BY <2>1, <4>1, <4>2
    <3> QED
      BY <3>1 DEF VisitStep
  <2> DEFINE f == Next1(0)
  <2>2. \A st \in States, n \in Name : Unseen(T, st) <= 0 => f[st][n] = st
    BY <1>1, <2>1
  <2> HIDE DEF f
  <2>3. VisitUpTo(T, f, 0)
    BY <2>1, <2>2 DEF VisitUpTo, Grows
  <2> QED
    BY <2>3
<1>3. ASSUME NEW k \in N PROVE k + 1 \in N
  <2>1. PICK g : VisitUpTo(T, g, k)
    OBVIOUS
  <2> DEFINE f == Next1(g)
  <2>2. \A st \in States, n \in Name : f[st][n] = VisitStep(T, g, st, n)
    BY <1>1
  <2> HIDE DEF f
  <2>3. Agree(T, f, g, k)
    BY <2>1, <2>2 DEF Agree, VisitUpTo
  <2>4. ASSUME NEW st \in States, NEW n \in Name, Unseen(T, st) <= k + 1
        PROVE  /\ f[st][n] = VisitStep(T, f, st, n)
               /\ f[st][n] \in States /\ st.seen \subseteq f[st][n].seen
    BY <2>1, <2>2, <2>3, <2>4, VisitStepGrows DEF VisitUpTo
  <2>5. VisitUpTo(T, f, k + 1)
    BY <2>4 DEF VisitUpTo, Grows
  <2> QED
    BY <2>5
<1>4. N = Nat
  <2> HIDE DEF N
  <2>1. N \subseteq Nat
    BY DEF N
  <2> QED
    BY <1>2, <1>3, <2>1, Induction
<1> DEFINE most == Cardinality(DOMAIN T)
<1>5. PICK g : VisitUpTo(T, g, most)
  <2>1. most \in Nat
    BY Shrinks DEF IsTerms
  <2> QED
    BY <1>4, <2>1
<1>6. most \in Nat /\ \A st \in States : Unseen(T, st) <= most
  <2>1. most \in Nat
    BY Shrinks DEF IsTerms
  <2> QED
    BY <2>1, UnseenFacts
<1> HIDE DEF most
<1> DEFINE f == Next1(g)
<1>7. \A st \in States, n \in Name : f[st][n] = VisitStep(T, g, st, n)
  BY <1>1
<1>8. Agree(T, f, g, most)
  BY <1>5, <1>6, <1>7 DEF Agree, VisitUpTo
<1>9. ASSUME NEW st \in States, NEW n \in Name
      PROVE  VisitStep(T, g, st, n) = VisitStep(T, f, st, n)
  <2>1. Unseen(T, st) <= most + 1
    BY <1>6, UnseenFacts
  <2> HIDE DEF f
  <2> QED
    BY <1>5, <1>6, <1>8, <2>1, VisitStepGrows DEF VisitUpTo
<1>10. IsVisit(T, f)
  <2>1. f = [st \in States |-> [n \in Name |-> VisitStep(T, g, st, n)]]
    BY DEF Next1
  <2> HIDE DEF f
  <2> QED
    BY <1>9, <2>1 DEF IsVisit
<1> QED
  BY <1>10 DEF Visit

\* What visit returns, call by call: a state, with more terms seen.
LEMMA VisitCalls ==
  ASSUME NEW T, IsTerms(T)
  PROVE  /\ \A st \in States, n \in Name : Visit(T)[st][n] = VisitStep(T, Visit(T), st, n)
         /\ \A k \in Nat : Grows(T, Visit(T), k)
<1> DEFINE f == Visit(T)
           N == {k \in Nat : Grows(T, f, k)}
<1>1. \A st \in States, n \in Name : f[st][n] = VisitStep(T, f, st, n)
  BY VisitIs DEF IsVisit
<1> HIDE DEF f
<1>2. 0 \in N
  <2>1. ASSUME NEW st \in States, NEW n \in Name, Unseen(T, st) <= 0
        PROVE  VisitStep(T, f, st, n) = st
    <3>1. n \in st.seen \/ n \notin DOMAIN T
      <4> SUFFICES ASSUME n \in DOMAIN T, n \notin st.seen PROVE FALSE
        OBVIOUS
      <4>1. Unseen(T, st) = Unseen(T, Entered(st, n)) + 1 /\ Entered(st, n) \in States
        BY UnseenFacts
      <4>2. Unseen(T, Entered(st, n)) \in Nat
        BY <4>1, UnseenFacts
      <4> QED
        BY <2>1, <4>1, <4>2
    <3> QED
      BY <3>1 DEF VisitStep
  <2> QED
    BY <1>1, <2>1 DEF Grows
<1>3. ASSUME NEW k \in N PROVE k + 1 \in N
  <2>1. ASSUME NEW st \in States, NEW n \in Name, Unseen(T, st) <= k + 1
        PROVE  f[st][n] \in States /\ st.seen \subseteq f[st][n].seen
    BY <1>1, <2>1, VisitStepGrows
  <2> QED
    BY <2>1 DEF Grows
<1>4. N = Nat
  <2> HIDE DEF N
  <2>1. N \subseteq Nat
    BY DEF N
  <2> QED
    BY <1>2, <1>3, <2>1, Induction
<1> QED
  BY <1>1, <1>4 DEF f

Unvisited == [seen |-> {}, done |-> <<>>]

LEMMA TopologicalOrderIsVisit ==
  TopologicalOrder = VisitAll(Visit(terms), Unvisited, order).done
BY DEF TopologicalOrder, VisitAll, Visit, IsVisit, VisitStep, Entered, Finished, States, Unvisited

(* The stack of visit is the terms that are seen and not done.  The order     *)
(* is right as far as it goes: no term comes twice, and a term that requires  *)
(* none on a cycle comes after the terms it reads.                           *)
OnStack(st) == st.seen \ ToSet(st.done)

Before(s, a, i) == \E j \in DOMAIN s : j < i /\ s[j] = a

IsOrder(T, s) ==
  /\ ToSet(s) \subseteq DOMAIN T
  /\ \A i, j \in DOMAIN s : s[i] = s[j] => i = j
  /\ \A i \in DOMAIN s : Grounded(T, s[i]) =>
       \A a \in Predecessors(Uses(T), s[i]) : Before(s, a, i)

Sorted(T, st) ==
  /\ st \in States /\ IsOrder(T, st.done)
  /\ ToSet(st.done) \subseteq st.seen /\ st.seen \subseteq DOMAIN T

\* The terms on the stack use the term that is visited.
Reached(T, st, n) ==
  n \in DOMAIN T => \A g \in OnStack(st) : n \in Ancestors(Uses(T), g)

Visits(T, st, n, after) ==
  /\ Sorted(T, after) /\ OnStack(after) = OnStack(st)
  /\ st.seen \subseteq after.seen
  /\ n \in DOMAIN T => n \in after.seen

VisitsRight(T, f, k) ==
  \A st \in States, n \in Name :
    Unseen(T, st) <= k /\ Sorted(T, st) /\ Reached(T, st, n) => Visits(T, st, n, f[st][n])

LEMMA VisitAllRight ==
  ASSUME NEW T, IsTerms(T), NEW k \in Nat, VisitsRight(T, Visit(T), k),
         NEW base, Sorted(T, base), Unseen(T, base) <= k, NEW s \in Seq(Name),
         \A i \in DOMAIN s : Reached(T, base, s[i]),
         NEW left, left = VisitAll(Visit(T), base, s)
  PROVE  /\ Sorted(T, left) /\ OnStack(left) = OnStack(base) /\ base.seen \subseteq left.seen
         /\ \A i \in DOMAIN s : s[i] \in DOMAIN T => s[i] \in left.seen
<1> DEFINE f == Visit(T)
<1>1. PICK J : /\ J[0] = base
               /\ \A j \in 0..(Len(s) - 1) : J[j + 1] = VisitOne(f, J[j], s[j + 1])
               /\ left = J[Len(s)]
  BY VisitsAreChain
<1> HIDE DEF f
<1> DEFINE Right(j) ==
             /\ Sorted(T, J[j]) /\ OnStack(J[j]) = OnStack(base) /\ base.seen \subseteq J[j].seen
             /\ \A i \in 1..j : s[i] \in DOMAIN T => s[i] \in J[j].seen
           N == {j \in Nat : j <= Len(s) => Right(j)}
<1>2. Len(s) \in Nat /\ DOMAIN s = 1..Len(s) /\ \A j \in 0..(Len(s) - 1) : s[j + 1] \in Name
  OBVIOUS
<1>3. base \in States
  BY DEF Sorted
<1>4. 0 \in N
  <2>1. \A i \in 1..0 : FALSE
    OBVIOUS
  <2> QED
    BY <1>1, <2>1
<1>5. ASSUME NEW j \in N PROVE j + 1 \in N
  <2> SUFFICES ASSUME j + 1 <= Len(s) PROVE Right(j + 1)
    OBVIOUS
  <2>1. j \in 0..(Len(s) - 1) /\ j + 1 \in DOMAIN s /\ Right(j)
    BY <1>2
  <2> DEFINE st == J[j]
             n == s[j + 1]
             after == J[j + 1]
  <2>2. st \in States /\ Unseen(T, st) <= k /\ n \in Name
    <3>1. st \in States /\ n \in Name
      BY <1>2, <2>1 DEF Sorted
    <3>2. Unseen(T, st) <= Unseen(T, base) /\ Unseen(T, st) \in Nat /\ Unseen(T, base) \in Nat
      BY <1>3, <2>1, <3>1, UnseenFacts
    <3> HIDE DEF st
    <3> QED
      BY <3>1, <3>2
  <2>3. after = f[st][n]
    BY <1>1, <2>1 DEF VisitOne
  <2>4. Reached(T, st, n)
    BY <2>1 DEF Reached
  <2>5. Visits(T, st, n, after)
    <3>1. Sorted(T, st)
      BY <2>1
    <3> HIDE DEF st, n, after
    <3> QED
      BY <2>2, <2>3, <2>4, <3>1 DEF VisitsRight, f
  <2>6. \A i \in 1..(j + 1) : i \in 1..j \/ i = j + 1
    OBVIOUS
  <2>7. /\ Sorted(T, after) /\ OnStack(after) = OnStack(base) /\ base.seen \subseteq after.seen
    BY <2>1, <2>5 DEF Visits
  <2>8. \A i \in 1..(j + 1) : s[i] \in DOMAIN T => s[i] \in after.seen
    BY <2>1, <2>5, <2>6 DEF Visits
  <2> QED
    BY <2>7, <2>8
<1>6. N = Nat
  <2> HIDE DEF N
  <2>1. N \subseteq Nat
    BY DEF N
  <2> QED
    BY <1>4, <1>5, <2>1, Induction
<1>7. Right(Len(s))
  BY <1>2, <1>6
<1> QED
  BY <1>1, <1>2, <1>7

\* A term is done: it is last, and after all it reads.
LEMMA FinishSorted ==
  ASSUME NEW T, IsTerms(T), NEW st, Sorted(T, st), NEW n \in DOMAIN T, n \in OnStack(st),
         Grounded(T, n) => \A a \in Predecessors(Uses(T), n) : a \in ToSet(st.done)
  PROVE  /\ Sorted(T, Finished(st, n)) /\ OnStack(Finished(st, n)) = OnStack(st) \ {n}
         /\ Finished(st, n).seen = st.seen
<1> DEFINE s == st.done
           e == Append(s, n)
<1>1. /\ Finished(st, n) \in States /\ Finished(st, n).seen = st.seen
      /\ Finished(st, n).done = e
  BY FinishedState DEF IsTerms, Sorted
<1>2. /\ s \in Seq(Name) /\ n \in Name /\ n \notin ToSet(s) /\ n \in st.seen
  BY DEF Sorted, States, IsTerms, OnStack
<1> HIDE DEF s
<1>3. /\ e \in Seq(Name) /\ Len(e) = Len(s) + 1 /\ ToSet(e) = ToSet(s) \cup {n}
  BY <1>2, AppendToSet
<1>4. /\ Len(s) \in Nat /\ DOMAIN s = 1..Len(s) /\ DOMAIN e = 1..(Len(s) + 1)
      /\ \A i \in 1..Len(s) : e[i] = s[i]
      /\ e[Len(s) + 1] = n
  BY <1>2
<1> HIDE DEF e
<1>5. \A i \in DOMAIN e : i \in DOMAIN s \/ i = Len(s) + 1
  BY <1>4
<1>6. \A i \in DOMAIN s : i \in DOMAIN e /\ i < Len(s) + 1 /\ e[i] = s[i] /\ s[i] \in ToSet(s)
  BY <1>4 DEF ToSet
<1>7. \A a, i : Before(s, a, i) => Before(e, a, i)
  BY <1>6 DEF Before
<1>8. \A a \in ToSet(s) : Before(e, a, Len(s) + 1)
  BY <1>6 DEF Before, ToSet
<1>9. IsOrder(T, e)
  <2>1. IsOrder(T, s)
    BY DEF Sorted, s
  <2>2. \A i, j \in DOMAIN e : e[i] = e[j] => i = j
    <3> SUFFICES ASSUME NEW i \in DOMAIN e, NEW j \in DOMAIN e, e[i] = e[j] PROVE i = j
      OBVIOUS
    <3>1. CASE i \in DOMAIN s /\ j \in DOMAIN s
      BY <1>6, <2>1, <3>1 DEF IsOrder
    <3>2. CASE i = Len(s) + 1 /\ j = Len(s) + 1
      BY <3>2
    <3>3. CASE i \in DOMAIN s /\ j = Len(s) + 1
      BY <1>2, <1>4, <1>6, <3>3
    <3>4. CASE j \in DOMAIN s /\ i = Len(s) + 1
      BY <1>2, <1>4, <1>6, <3>4
    <3> QED
      BY <1>5, <3>1, <3>2, <3>3, <3>4
  <2>3. ASSUME NEW i \in DOMAIN e, Grounded(T, e[i]), NEW a \in Predecessors(Uses(T), e[i])
        PROVE  Before(e, a, i)
    <3>1. CASE i \in DOMAIN s
      <4>1. Before(s, a, i)
        BY <1>6, <2>1, <2>3, <3>1 DEF IsOrder
      <4> QED
        BY <1>7, <4>1
    <3>2. CASE i = Len(s) + 1
      <4>1. a \in ToSet(s)
        BY <1>4, <2>3, <3>2 DEF s
      <4> QED
        BY <1>8, <3>2, <4>1
    <3> QED
      BY <1>5, <3>1, <3>2
  <2>4. ToSet(e) \subseteq DOMAIN T
    BY <1>3, <2>1 DEF IsOrder
  <2> QED
    BY <2>2, <2>3, <2>4 DEF IsOrder
<1>10. Sorted(T, Finished(st, n))
  <2>1. ToSet(e) \subseteq st.seen /\ st.seen \subseteq DOMAIN T
    BY <1>2, <1>3 DEF Sorted, s
  <2> QED
    BY <1>1, <1>9, <2>1 DEF Sorted
<1>11. OnStack(Finished(st, n)) = OnStack(st) \ {n}
  BY <1>1, <1>3 DEF OnStack, s
<1> QED
  BY <1>1, <1>10, <1>11

\* Depth first, cycles or not, every call leaves the order right.
LEMMA VisitRight ==
  ASSUME NEW T, IsTerms(T)
  PROVE  \A k \in Nat : VisitsRight(T, Visit(T), k)
<1> DEFINE f == Visit(T)
           G == Uses(T)
           N == {k \in Nat : VisitsRight(T, f, k)}
<1>1. \A st \in States, n \in Name : f[st][n] = VisitStep(T, f, st, n)
  BY VisitCalls
<1>2. IsGraph(G) /\ G.node = DOMAIN T
  BY UsesFacts
<1>3. ASSUME NEW st \in States, NEW n \in Name, Sorted(T, st), n \in st.seen \/ n \notin DOMAIN T
      PROVE  Visits(T, st, n, f[st][n])
  <2>1. f[st][n] = st
    BY <1>1, <1>3 DEF VisitStep
  <2> HIDE DEF f
  <2> QED
    BY <1>3, <2>1 DEF Visits
<1>4. 0 \in N
  <2>1. ASSUME NEW st \in States, NEW n \in Name, Unseen(T, st) <= 0
        PROVE  n \in st.seen \/ n \notin DOMAIN T
    <3> SUFFICES ASSUME n \in DOMAIN T, n \notin st.seen PROVE FALSE
      OBVIOUS
    <3>1. Unseen(T, st) = Unseen(T, Entered(st, n)) + 1 /\ Entered(st, n) \in States
      BY UnseenFacts
    <3>2. Unseen(T, Entered(st, n)) \in Nat
      BY <3>1, UnseenFacts
    <3> QED
      BY <2>1, <3>1, <3>2
  <2> HIDE DEF f
  <2> QED
    BY <1>3, <2>1 DEF VisitsRight
<1>5. ASSUME NEW k \in N PROVE k + 1 \in N
  <2>1. ASSUME NEW st \in States, NEW n \in DOMAIN T, n \notin st.seen,
               Unseen(T, st) <= k + 1, Sorted(T, st), Reached(T, st, n)
        PROVE  Visits(T, st, n, f[st][n])
    <3> DEFINE base == Entered(st, n)
               left == VisitAll(f, base, T[n])
    <3>1. /\ base \in States /\ base.seen = st.seen \cup {n} /\ base.done = st.done
          /\ Unseen(T, base) <= k
      <4>1. /\ base \in States /\ base.seen = st.seen \cup {n} /\ base.done = st.done
            /\ Unseen(T, st) = Unseen(T, base) + 1 /\ Unseen(T, base) \in Nat
        BY <2>1, UnseenFacts
      <4> HIDE DEF base
      <4> QED
        BY <2>1, <4>1
    <3>2. n \in Name /\ T[n] \in Seq(Name)
      BY DEF IsTerms
    <3>3. f[st][n] = Finished(left, n)
      BY <1>1, <2>1, <3>2 DEF VisitStep
    <3> HIDE DEF base, f
    <3>4. Sorted(T, base) /\ OnStack(base) = OnStack(st) \cup {n} /\ n \notin OnStack(st)
      BY <2>1, <3>1 DEF Sorted, OnStack
    <3>5. ASSUME NEW i \in DOMAIN T[n], T[n][i] \in DOMAIN T
          PROVE  T[n][i] \in Predecessors(G, n)
      <4>1. T[n][i] \in ToSet(T[n])
        BY <3>2, <3>5 DEF ToSet
      <4> QED
        BY <3>5, <4>1, UsesFacts
    <3>6. \A i \in DOMAIN T[n] : Reached(T, base, T[n][i])
      <4> SUFFICES ASSUME NEW i \in DOMAIN T[n], T[n][i] \in DOMAIN T, NEW g \in OnStack(base)
                   PROVE  T[n][i] \in Ancestors(G, g)
        BY DEF Reached
      <4> DEFINE a == T[n][i]
      <4>1. a \in Predecessors(G, n)
        BY <3>5
      <4> HIDE DEF a
      <4>2. a \in Ancestors(G, n)
        BY <1>2, <4>1, AncestorsClosed
      <4>3. CASE g = n
        BY <4>2, <4>3 DEF a
      <4>4. CASE g \in OnStack(st)
        <5>1. n \in Ancestors(G, g) /\ g \in G.node
          BY <1>2, <2>1, <4>4 DEF Reached, Sorted, OnStack
        <5>2. Required(G, n) \subseteq Ancestors(G, g)
          BY <1>2, <5>1, RequiredOfTerm
        <5> QED
          BY <4>2, <5>2 DEF Required, a
      <4> QED
        BY <3>4, <4>3, <4>4
    <3>7. /\ Sorted(T, left) /\ OnStack(left) = OnStack(base) /\ base.seen \subseteq left.seen
          /\ \A i \in DOMAIN T[n] : T[n][i] \in DOMAIN T => T[n][i] \in left.seen
      <4>1. VisitsRight(T, Visit(T), k) /\ k \in Nat
        BY DEF f
      <4> QED
        BY <3>1, <3>2, <3>4, <3>6, <4>1, VisitAllRight DEF f
    <3> HIDE DEF left
    <3>8. n \in OnStack(left)
      BY <3>4, <3>7
    <3>9. ASSUME Grounded(T, n), NEW a \in Predecessors(G, n)
          PROVE  a \in ToSet(left.done)
      <4>1. a \in DOMAIN T /\ \E i \in DOMAIN T[n] : a = T[n][i]
        BY UsesFacts DEF ToSet
      <4>2. a \in left.seen
        BY <3>7, <4>1
      <4>3. a \in Ancestors(G, n) /\ n \notin Ancestors(G, n)
        BY <1>2, <3>9, AncestorsClosed DEF Grounded, Required
      <4>4. ASSUME a \in OnStack(left) PROVE FALSE
        <5>1. a # n /\ a \in OnStack(st)
          BY <3>4, <3>7, <4>3, <4>4
        <5>2. n \in Ancestors(G, a)
          BY <2>1, <5>1 DEF Reached
        <5>3. Required(G, a) \subseteq Ancestors(G, n)
          BY <1>2, <4>3, RequiredOfTerm
        <5> QED
          BY <4>3, <5>2, <5>3 DEF Required
      <4> QED
        BY <4>2, <4>4 DEF OnStack
    <3>10. /\ Sorted(T, Finished(left, n)) /\ OnStack(Finished(left, n)) = OnStack(left) \ {n}
           /\ Finished(left, n).seen = left.seen
      BY <3>7, <3>8, <3>9, FinishSorted
    <3>11. /\ OnStack(f[st][n]) = OnStack(st) /\ Sorted(T, f[st][n])
           /\ st.seen \subseteq f[st][n].seen /\ n \in f[st][n].seen
      BY <3>1, <3>3, <3>4, <3>7, <3>10
    <3> QED
      BY <3>11 DEF Visits
  <2> HIDE DEF f
  <2>2. VisitsRight(T, f, k + 1)
    BY <1>3, <2>1 DEF VisitsRight
  <2> QED
    BY <2>2
<1>6. N = Nat
  <2> HIDE DEF N
  <2>1. N \subseteq Nat
    BY DEF N
  <2> QED
    BY <1>4, <1>5, <2>1, Induction
<1> QED
  BY <1>6

\* All terms, each once, and each one that requires none on a cycle after the
\* terms it reads, whatever cycles there are elsewhere.
LEMMA OrderIsTopological ==
  ASSUME NEW T, IsTerms(T), NEW s \in Seq(Name), ToSet(s) = DOMAIN T,
         NEW done, done = VisitAll(Visit(T), Unvisited, s).done
  PROVE  done \in Seq(Name) /\ ToSet(done) = DOMAIN T /\ IsOrder(T, done)
<1> DEFINE most == Cardinality(DOMAIN T)
           left == VisitAll(Visit(T), Unvisited, s)
<1>1. /\ Unvisited \in States /\ Unvisited.seen = {} /\ Unvisited.done = <<>>
      /\ ToSet(<<>>) = {}
  BY DEF Unvisited, States, ToSet
<1>2. IsOrder(T, <<>>)
  BY DEF IsOrder, ToSet
<1>3. Sorted(T, Unvisited) /\ OnStack(Unvisited) = {}
  BY <1>1, <1>2 DEF Sorted, OnStack
<1>4. most \in Nat /\ Unseen(T, Unvisited) <= most
  BY <1>1, UnseenFacts
<1>5. VisitsRight(T, Visit(T), most)
  BY <1>4, VisitRight
<1>6. \A i \in DOMAIN s : Reached(T, Unvisited, s[i])
  BY <1>3 DEF Reached
<1> HIDE DEF most
<1>7. /\ Sorted(T, left) /\ OnStack(left) = {}
      /\ \A i \in DOMAIN s : s[i] \in DOMAIN T => s[i] \in left.seen
  BY <1>3, <1>4, <1>5, <1>6, VisitAllRight
<1> HIDE DEF left
<1>8. DOMAIN T \subseteq ToSet(left.done)
  BY <1>7 DEF ToSet, OnStack
<1> QED
  BY <1>7, <1>8 DEF Sorted, States, IsOrder, left

-----------------------------------------------------------------------------
(* The default plan: one with_columns after another.                         *)
StartFrame(columns) == [n \in Name |-> IF n \in columns THEN [column |-> n] ELSE Missing]
NewColumn(f, n) == [term |-> n, args |-> [i \in DOMAIN terms[n] |-> f[terms[n][i]]]]
WithColumns(targets, f, n) ==
  IF n \notin Reachable(targets) THEN f ELSE [f EXCEPT ![n] = NewColumn(f, n)]

LEMMA MaterializedIsChain ==
  ASSUME NEW columns, NEW targets, NEW s, s = TopologicalOrder, s \in Seq(Name)
  PROVE  \E J : /\ J[0] = StartFrame(columns)
                /\ \A k \in 0..(Len(s) - 1) : J[k + 1] = WithColumns(targets, J[k], s[k + 1])
                /\ Materialized(columns, targets) = J[Len(s)]
<1> DEFINE Iter(n, it) ==
             it = [S \in SUBSET (1..n) |->
                     IF S = {} THEN StartFrame(columns)
                     ELSE WithColumns(targets, it[S \ {Max(S)}], s[Max(S)])]
           N == {n \in Nat : \E it : Iter(n, it)}
<1>1. 0 \in N
  <2>1. Iter(0, [S \in SUBSET (1..0) |-> StartFrame(columns)])
    BY InitialIndices
  <2> QED
    BY <2>1
<1>2. ASSUME NEW n \in N PROVE n + 1 \in N
  <2>1. PICK it : Iter(n, it)
    OBVIOUS
  <2> DEFINE more == [S \in SUBSET (1..(n + 1)) |->
                        IF n + 1 \in S
                        THEN WithColumns(targets, it[S \ {n + 1}], s[n + 1])
                        ELSE it[S]]
  <2>2. ASSUME NEW S \in SUBSET (1..(n + 1))
        PROVE  more[S] = IF S = {} THEN StartFrame(columns)
                         ELSE WithColumns(targets, more[S \ {Max(S)}], s[Max(S)])
    <3>1. CASE n + 1 \in S
      <4>1. Max(S) = n + 1 /\ S # {}
        BY <3>1, InitialIndices
      <4>2. S \ {n + 1} \in SUBSET (1..(n + 1)) /\ n + 1 \notin S \ {n + 1}
        OBVIOUS
      <4>3. more[S \ {n + 1}] = it[S \ {n + 1}]
        BY <4>2
      <4> QED
        BY <3>1, <4>1, <4>3
    <3>2. CASE n + 1 \notin S
      <4>1. S \ {Max(S)} \in SUBSET (1..n) /\ S \in SUBSET (1..n)
        BY <3>2, InitialIndices
      <4>2. S \ {Max(S)} \in SUBSET (1..(n + 1)) /\ n + 1 \notin S \ {Max(S)}
        BY <3>2
      <4>3. more[S \ {Max(S)}] = it[S \ {Max(S)}] /\ more[S] = it[S]
        BY <3>2, <4>2
      <4>4. it[S] = IF S = {} THEN StartFrame(columns)
                    ELSE WithColumns(targets, it[S \ {Max(S)}], s[Max(S)])
        BY <2>1, <4>1
      <4> QED
        BY <4>3, <4>4
    <3> QED
      BY <3>1, <3>2
  <2>3. Iter(n + 1, more)
    <3> HIDE DEF more
    <3>1. more = [S \in SUBSET (1..(n + 1)) |-> more[S]]
      BY DEF more
    <3> QED
      BY <2>2, <3>1
  <2> HIDE DEF Iter, more
  <2> QED
    BY <2>3
<1>3. N = Nat
  <2> HIDE DEF N
  <2>1. N \subseteq Nat
    BY DEF N
  <2> QED
    BY <1>1, <1>2, <2>1, Induction
<1> DEFINE n == Len(s)
           it == CHOOSE f : Iter(n, f)
<1>4. n \in Nat /\ DOMAIN s = 1..n
  OBVIOUS
<1>5. Iter(n, it)
  <2> HIDE DEF Iter
  <2>1. \E f : Iter(n, f)
    BY <1>3, <1>4
  <2> QED
    BY <2>1
<1>6. Materialized(columns, targets) = it[1..n]
  <2>1. Materialized(columns, targets) =
          (CHOOSE f : f = [S \in SUBSET (DOMAIN s) |->
                     IF S = {} THEN StartFrame(columns)
                     ELSE WithColumns(targets, f[S \ {Max(S)}], s[Max(S)])])[DOMAIN s]
    BY DEF Materialized, StartFrame, NewColumn, WithColumns, FoldLeft, MapThenFoldSet
  <2> HIDE DEF n
  <2> QED
    BY <2>1, <1>4
<1> DEFINE J == [k \in 0..n |-> it[1..k]]
<1> HIDE DEF it
<1>7. it[{}] = StartFrame(columns)
  BY <1>4, <1>5
<1>8. ASSUME NEW k \in 0..(n - 1)
      PROVE  it[1..(k + 1)] = WithColumns(targets, it[1..k], s[k + 1])
  <2>1. k \in Nat /\ 1..(k + 1) \in SUBSET (1..n)
    BY <1>4
  <2>2. 1..(k + 1) # {} /\ Max(1..(k + 1)) = k + 1 /\ (1..(k + 1)) \ {k + 1} = 1..k
    BY <2>1, InitialIndices
  <2>3. \A S \in SUBSET (1..n) : it[S] = IF S = {} THEN StartFrame(columns)
                     ELSE WithColumns(targets, it[S \ {Max(S)}], s[Max(S)])
    BY <1>5
  <2> QED
    BY <2>1, <2>2, <2>3
<1>9. J[0] = StartFrame(columns) /\ J[n] = Materialized(columns, targets)
  BY <1>4, <1>6, <1>7, InitialIndices
<1>10. \A k \in 0..(n - 1) : J[k + 1] = WithColumns(targets, J[k], s[k + 1])
  BY <1>4, <1>8
<1> QED
  BY <1>9, <1>10

\* Where no cycle is met, a stack of terms that are not required changes nothing.
StackFree(T, n, stack) ==
  Grounded(T, n) /\ Required(Uses(T), n) \cap stack = {} =>
    \A other \in SUBSET Name :
      Required(Uses(T), n) \cap other = {} => Inline(T)[other][n] = Inline(T)[stack][n]

LEMMA InlineStackFree ==
  ASSUME NEW T, IsTerms(T), NEW n \in DOMAIN T, NEW stack \in SUBSET Name
  PROVE  StackFree(T, n, stack)
<1> DEFINE G == Uses(T)
           P == [m \in DOMAIN T |-> {st \in SUBSET Name : StackFree(T, m, st)}]
<1>1. ASSUME NEW a \in DOMAIN T, NEW S \in SUBSET Name,
             a \notin S => \A m \in DOMAIN T : S \cup {a} \in P[m]
      PROVE  S \in P[a]
  <2> SUFFICES StackFree(T, a, S)
    OBVIOUS
  <2> SUFFICES ASSUME Grounded(T, a), Required(G, a) \cap S = {},
                      NEW other \in SUBSET Name, Required(G, a) \cap other = {}
               PROVE  Inline(T)[other][a] = Inline(T)[S][a]
    BY DEF StackFree
  <2>1. a \in Name /\ T[a] \in Seq(Name) /\ a \notin S /\ a \notin other
    BY DEF IsTerms, Required
  <2>2. /\ Inline(T)[S][a] = InlinedTerm(a, InlineArgs(T, Inline(T), a, S))
        /\ Inline(T)[other][a] = InlinedTerm(a, InlineArgs(T, Inline(T), a, other))
    BY <2>1, InlineCalls DEF InlineStep
  <2>3. ASSUME NEW i \in DOMAIN T[a]
        PROVE  Inline(T)[other \cup {a}][T[a][i]] = Inline(T)[S \cup {a}][T[a][i]]
    <3> DEFINE b == T[a][i]
    <3>1. b \in Name /\ b \in ToSet(T[a])
      BY <2>1 DEF ToSet
    <3> HIDE DEF b
    <3>2. S \cup {a} \in SUBSET Name /\ other \cup {a} \in SUBSET Name
      BY <2>1
    <3>3. CASE b \notin DOMAIN T
      <4> DEFINE leaf == [raises |-> FALSE, tree |-> [column |-> b], columns |-> {b}]
      <4>1. Inline(T)[S \cup {a}][b] = leaf
        BY <3>1, <3>2, <3>3, LeafCalls
      <4>2. Inline(T)[other \cup {a}][b] = leaf
        BY <3>1, <3>2, <3>3, LeafCalls
      <4> HIDE DEF leaf
      <4> QED
        BY <4>1, <4>2 DEF b
    <3>4. CASE b \in DOMAIN T
      <4>1. StackFree(T, b, S \cup {a})
        BY <1>1, <2>1, <3>4
      <4>2. b \in Predecessors(G, a) /\ IsGraph(G) /\ a \in G.node
        BY <3>1, <3>4, UsesFacts
      <4> HIDE DEF G, P
      <4>3. Required(G, b) \subseteq Ancestors(G, a)
        BY <4>2, RequiredOfTerm
      <4>4. Grounded(T, b) /\ a \notin Required(G, b)
        BY <4>3 DEF Grounded, Required, G
      <4>5. Required(G, b) \cap (S \cup {a}) = {} /\ Required(G, b) \cap (other \cup {a}) = {}
        BY <4>3, <4>4 DEF Required
      <4> QED
        BY <3>2, <4>1, <4>4, <4>5 DEF StackFree, G, b
    <3> QED
      BY <3>3, <3>4
  <2>4. InlineArgs(T, Inline(T), a, other) = InlineArgs(T, Inline(T), a, S)
    BY <2>3 DEF InlineArgs
  <2> QED
    BY <2>2, <2>4
<1> HIDE DEF P
<1>2. stack \in P[n]
  BY <1>1, StackInduction DEF IsTerms
<1> QED
  BY <1>2 DEF P

\* The columns of an inlined term are those that what it requires reads.
Leaves(T, n) == UNION {ToSet(T[m]) \ DOMAIN T : m \in Required(Uses(T), n)}
ColumnsKept(T, n, stack) ==
  ~Inline(T)[stack][n].raises => Leaves(T, n) \subseteq Inline(T)[stack][n].columns

LEMMA TermColumns ==
  ASSUME NEW T, NEW f, NEW n, NEW stack
  PROVE  \A x : x \in InlinedTerm(n, InlineArgs(T, f, n, stack)).columns
                  <=> \E i \in DOMAIN T[n] : x \in f[stack \cup {n}][T[n][i]].columns
<1> DEFINE args == InlineArgs(T, f, n, stack)
<1>1. DOMAIN args = DOMAIN T[n] /\ \A i \in DOMAIN T[n] : args[i] = f[stack \cup {n}][T[n][i]]
  BY DEF InlineArgs
<1> HIDE DEF args
<1>2. InlinedTerm(n, args).columns = UNION {args[i].columns : i \in DOMAIN args}
  BY DEF InlinedTerm
<1>3. \A x : x \in InlinedTerm(n, args).columns <=> \E i \in DOMAIN args : x \in args[i].columns
  BY <1>2
<1> QED
  BY <1>1, <1>3 DEF args

LEMMA InlineColumns ==
  ASSUME NEW T, IsTerms(T), NEW n \in DOMAIN T, NEW stack \in SUBSET Name
  PROVE  ColumnsKept(T, n, stack)
<1> DEFINE G == Uses(T)
           P == [m \in DOMAIN T |-> {st \in SUBSET Name : ColumnsKept(T, m, st)}]
<1>1. ASSUME NEW a \in DOMAIN T, NEW S \in SUBSET Name,
             a \notin S => \A m \in DOMAIN T : S \cup {a} \in P[m]
      PROVE  S \in P[a]
  <2> SUFFICES ColumnsKept(T, a, S)
    OBVIOUS
  <2> SUFFICES ASSUME ~Inline(T)[S][a].raises, NEW m \in Required(G, a),
                      NEW x \in ToSet(T[m]) \ DOMAIN T
               PROVE  x \in Inline(T)[S][a].columns
    BY DEF ColumnsKept, Leaves
  <2>0. a \in Name /\ T[a] \in Seq(Name)
    BY DEF IsTerms
  <2>1. a \notin S /\ S \cup {a} \in SUBSET Name
    BY <2>0, LeafCalls
  <2>2. Inline(T)[S][a] = InlinedTerm(a, InlineArgs(T, Inline(T), a, S))
    BY <2>0, <2>1, InlineCalls DEF InlineStep
  <2>3. \A i \in DOMAIN T[a] : ~Inline(T)[S \cup {a}][T[a][i]].raises
    BY <2>2, TermRaises
  <2>4. \A i \in DOMAIN T[a] :
          Inline(T)[S \cup {a}][T[a][i]].columns \subseteq Inline(T)[S][a].columns
    BY <2>2, TermColumns
  <2>5. /\ Predecessors(G, a) = ToSet(T[a]) \cap DOMAIN T
        /\ IsGraph(G) /\ G.node = DOMAIN T
    BY UsesFacts
  <2>6. CASE m = a
    <3>1. PICK i \in DOMAIN T[a] : x = T[a][i]
      BY <2>6 DEF ToSet
    <3>2. x \in Name
      BY <2>0, <3>1
    <3>3. Inline(T)[S \cup {a}][x] = [raises |-> FALSE, tree |-> [column |-> x], columns |-> {x}]
      BY <2>1, <3>2, LeafCalls
    <3>4. x \in Inline(T)[S \cup {a}][x].columns
      BY <3>3
    <3> QED
      BY <2>4, <3>1, <3>4
  <2>7. CASE m \in Ancestors(G, a)
    <3>1. PICK b \in Predecessors(G, a) : m \in Required(G, b)
      BY <2>5, <2>7, RequiredOfTerm
    <3>2. b \in DOMAIN T /\ \E i \in DOMAIN T[a] : b = T[a][i]
      BY <2>5 DEF ToSet
    <3>3. ColumnsKept(T, b, S \cup {a})
      BY <1>1, <2>1, <3>2
    <3>4. ~Inline(T)[S \cup {a}][b].raises
      BY <2>3, <3>2
    <3>5. x \in Leaves(T, b)
      BY <3>1 DEF Leaves
    <3>6. x \in Inline(T)[S \cup {a}][b].columns
      BY <3>3, <3>4, <3>5 DEF ColumnsKept
    <3> QED
      BY <2>4, <3>2, <3>6
  <2> QED
    BY <2>6, <2>7 DEF Required
<1> HIDE DEF P
<1>2. stack \in P[n]
  BY <1>1, StackInduction DEF IsTerms
<1> QED
  BY <1>2 DEF P

LEMMA InlineColumnsAreNames ==
  ASSUME NEW T, IsTerms(T), NEW n \in Name
  PROVE  Inline(T)[{}][n].columns \subseteq Name
<1> DEFINE P == [m \in DOMAIN T |-> {st \in SUBSET Name : Inline(T)[st][m].columns \subseteq Name}]
<1>0. ASSUME NEW b \in Name, b \notin DOMAIN T, NEW S \in SUBSET Name
      PROVE  Inline(T)[S][b].columns \subseteq Name
  <2>1. Inline(T)[S][b] = [raises |-> FALSE, tree |-> [column |-> b], columns |-> {b}]
    BY <1>0, LeafCalls
  <2>2. Inline(T)[S][b].columns = {b}
    BY <2>1
  <2> QED
    BY <2>2
<1>1. ASSUME NEW a \in DOMAIN T, NEW S \in SUBSET Name,
             a \notin S => \A m \in DOMAIN T : S \cup {a} \in P[m]
      PROVE  S \in P[a]
  <2> SUFFICES Inline(T)[S][a].columns \subseteq Name
    OBVIOUS
  <2>0. a \in Name /\ T[a] \in Seq(Name)
    BY DEF IsTerms
  <2>1. CASE a \in S
    <3>1. Inline(T)[S][a] = [raises |-> TRUE, tree |-> [column |-> a], columns |-> {}]
      BY <2>0, <2>1, InlineCalls DEF InlineStep
    <3>2. Inline(T)[S][a].columns = {}
      BY <3>1
    <3> QED
      BY <3>2
  <2>2. CASE a \notin S
    <3>1. Inline(T)[S][a] = InlinedTerm(a, InlineArgs(T, Inline(T), a, S))
      BY <2>0, <2>2, InlineCalls DEF InlineStep
    <3>2. ASSUME NEW i \in DOMAIN T[a]
          PROVE  Inline(T)[S \cup {a}][T[a][i]].columns \subseteq Name
      <4>1. T[a][i] \in Name /\ S \cup {a} \in SUBSET Name
        BY <2>0
      <4>2. CASE T[a][i] \in DOMAIN T
        BY <1>1, <2>2, <4>2
      <4>3. CASE T[a][i] \notin DOMAIN T
        BY <1>0, <4>1, <4>3
      <4> QED
        BY <4>2, <4>3
    <3> QED
      BY <3>1, <3>2, TermColumns
  <2> QED
    BY <2>1, <2>2
<1> HIDE DEF P
<1>2. n \in DOMAIN T => {} \in P[n]
  BY <1>1, StackInduction DEF IsTerms
<1> QED
  BY <1>0, <1>2 DEF P

LEMMA RequiredAreNames ==
  ASSUME IInv, NEW targets, targets \subseteq Name
  PROVE  RequiredInputs(targets) \subseteq Name
BY TermsAreTerms, InlineColumnsAreNames, InlinedIsInline DEF RequiredInputs

\* The frame after the first k terms of the order: the columns of those the
\* targets reach hold their inlined trees, the others what was there.
Filled(f, columns, targets, k) ==
  f = [m \in Name |->
         IF m \in Reachable(targets) /\ \E i \in 1..k : TopologicalOrder[i] = m
         THEN Inlined[m].tree ELSE StartFrame(columns)[m]]

LEMMA WithColumnsFills ==
  ASSUME IInv, NEW targets, \A t \in targets : ~Inlined[t].raises, targets \subseteq Name,
         NEW columns, RequiredInputs(targets) \subseteq columns,
         NEW f, NEW k \in Nat, k + 1 \in DOMAIN TopologicalOrder,
         Filled(f, columns, targets, k)
  PROVE  Filled(WithColumns(targets, f, TopologicalOrder[k + 1]), columns, targets, k + 1)
<1> DEFINE s == TopologicalOrder
           n == s[k + 1]
           G == Uses(terms)
<1>1. IsTerms(terms)
  BY TermsAreTerms
<1>2. s \in Seq(Name) /\ ToSet(s) = DOMAIN terms /\ IsOrder(terms, s)
  BY <1>1, TopologicalOrderIsVisit, OrderIsTopological DEF IInv, TypeOK
<1> HIDE DEF s
<1>3. n \in Name /\ n \in DOMAIN terms /\ k + 1 \in DOMAIN s /\ DOMAIN s = 1..Len(s)
  BY <1>2 DEF ToSet, s
<1> HIDE DEF n
<1>4. \A i \in 1..(k + 1) : i \in 1..k \/ i = k + 1
  OBVIOUS
<1>5. k + 1 \in 1..(k + 1) /\ \A i \in 1..k : i \in 1..(k + 1)
  OBVIOUS
<1>6. \A m : (\E i \in 1..(k + 1) : s[i] = m) <=> (\E i \in 1..k : s[i] = m) \/ m = n
  BY <1>4, <1>5 DEF n
<1> DEFINE Done(m, j) == m \in Reachable(targets) /\ \E i \in 1..j : s[i] = m
           start == StartFrame(columns)
<1>7. f = [m \in Name |-> IF Done(m, k) THEN Inlined[m].tree ELSE start[m]]
  BY DEF Filled, s
<1> SUFFICES WithColumns(targets, f, n)
               = [m \in Name |-> IF Done(m, k + 1) THEN Inlined[m].tree ELSE start[m]]
  BY DEF Filled, s, n
<1>8. CASE n \notin Reachable(targets)
  <2>1. \A m \in Name : Done(m, k + 1) <=> Done(m, k)
    BY <1>6, <1>8
  <2>2. WithColumns(targets, f, n) = f
    BY <1>8 DEF WithColumns
  <2> HIDE DEF Done, start
  <2> QED
    BY <1>7, <2>1, <2>2
<1>9. CASE n \in Reachable(targets)
  <2>1. PICK t \in targets : t \in DOMAIN terms /\ n \in Required(G, t)
    BY <1>9, TermGraphIsUses DEF Reachable
  <2>2. IsGraph(G) /\ G.node = DOMAIN terms
    BY UsesFacts
  <2>3. Grounded(terms, t) /\ ~Inline(terms)[{}][t].raises
    <3>1. ~Inline(terms)[{}][t].raises
      BY InlinedIsInline
    <3> QED
      BY <1>1, <2>1, <3>1, InlineRaises
  <2>4. Required(G, n) \subseteq Required(G, t)
    BY <2>1, <2>2, RequiredOfTerm DEF Required
  <2>5. Grounded(terms, n)
    BY <2>3, <2>4 DEF Grounded
  <2>6. n \notin Ancestors(G, n)
    BY <2>5 DEF Grounded, Required
  <2>7. Leaves(terms, t) \subseteq columns
    <3>1. Leaves(terms, t) \subseteq Inline(terms)[{}][t].columns
      BY <1>1, <2>1, <2>3, InlineColumns DEF ColumnsKept
    <3>2. Inline(terms)[{}][t].columns \subseteq RequiredInputs(targets)
      BY <2>1, InlinedIsInline DEF RequiredInputs
    <3> QED
      BY <3>1, <3>2
  <2>8. terms[n] \in Seq(Name)
    BY <1>1, <1>3 DEF IsTerms
  <2>9. ASSUME NEW i \in DOMAIN terms[n]
        PROVE  f[terms[n][i]] = Inline(terms)[{n}][terms[n][i]].tree
    <3> DEFINE b == terms[n][i]
    <3>1. b \in Name /\ b \in ToSet(terms[n])
      BY <2>8 DEF ToSet
    <3> HIDE DEF b
    <3>2. {n} \in SUBSET Name /\ {} \in SUBSET Name
      BY <1>3
    <3>3. CASE b \notin DOMAIN terms
      <4>1. b \in columns
        BY <2>1, <2>7, <3>1, <3>3 DEF Leaves
      <4>2. b \notin Reachable(targets)
        BY <2>2, <3>3, TermGraphIsUses DEF Reachable, Required, Ancestors
      <4>3. f[b] = [column |-> b]
        BY <1>7, <3>1, <4>1, <4>2 DEF StartFrame
      <4>4. Inline(terms)[{n}][b] = [raises |-> FALSE, tree |-> [column |-> b], columns |-> {b}]
        BY <1>1, <3>1, <3>2, <3>3, LeafCalls
      <4> QED
        BY <4>3, <4>4 DEF b
    <3>4. CASE b \in DOMAIN terms
      <4>1. b \in Predecessors(G, n)
        BY <1>3, <3>1, <3>4, UsesFacts
      <4>2. Required(G, b) \subseteq Ancestors(G, n)
        BY <1>3, <2>2, <4>1, RequiredOfTerm
      <4>3. b \in Required(G, b)
        BY DEF Required
      <4>4. b \in Reachable(targets)
        BY <2>1, <2>4, <4>2, <4>3, TermGraphIsUses DEF Reachable, Required
      <4>5. PICK j \in DOMAIN s : j < k + 1 /\ s[j] = b
        BY <1>2, <1>3, <2>5, <4>1 DEF IsOrder, Before, n
      <4>6. j \in 1..k
        BY <1>3, <4>5
      <4>7. f[b] = Inlined[b].tree
        BY <1>7, <3>1, <4>4, <4>5, <4>6
      <4>8. Grounded(terms, b)
        BY <2>5, <4>2 DEF Grounded, Required
      <4>9. Required(G, b) \cap {n} = {} /\ Required(G, b) \cap {} = {}
        BY <2>6, <4>2
      <4>10. Inline(terms)[{n}][b] = Inline(terms)[{}][b]
        <5>1. StackFree(terms, b, {})
          BY <1>1, <3>2, <3>4, InlineStackFree
        <5> QED
          BY <3>2, <4>8, <4>9, <5>1 DEF StackFree
      <4> QED
        BY <4>7, <4>10, InlinedIsInline DEF b
    <3> QED
      BY <3>3, <3>4
  <2>10. Inlined[n].tree = NewColumn(f, n)
    <3> DEFINE args == InlineArgs(terms, Inline(terms), n, {})
    <3>1. {} \in SUBSET Name /\ {} \cup {n} = {n}
      OBVIOUS
    <3>2. Inline(terms)[{}][n] = InlinedTerm(n, args)
      BY <1>1, <1>3, <3>1, InlineCalls DEF InlineStep
    <3>3. /\ DOMAIN args = DOMAIN terms[n]
          /\ \A i \in DOMAIN terms[n] : args[i] = Inline(terms)[{n}][terms[n][i]]
      BY <3>1 DEF InlineArgs
    <3> HIDE DEF args
    <3>4. InlinedTerm(n, args).tree = [term |-> n, args |-> [i \in DOMAIN args |-> args[i].tree]]
      BY DEF InlinedTerm
    <3>5. [i \in DOMAIN args |-> args[i].tree] = [i \in DOMAIN terms[n] |-> f[terms[n][i]]]
      BY <2>9, <3>3
    <3> QED
      BY <3>2, <3>4, <3>5, InlinedIsInline DEF NewColumn
  <2> DEFINE g == WithColumns(targets, f, n)
  <2>11. g = [f EXCEPT ![n] = Inlined[n].tree]
    BY <1>9, <2>10 DEF WithColumns
  <2>12. DOMAIN f = Name
    BY <1>7
  <2>13. g = [m \in Name |-> IF m = n THEN Inlined[n].tree ELSE f[m]]
    BY <1>3, <2>11, <2>12
  <2>14. \A m \in Name : Done(m, k + 1) <=> m = n \/ Done(m, k)
    BY <1>6, <1>9
  <2> HIDE DEF g, Done, start
  <2>15. ASSUME NEW m \in Name
         PROVE  (IF m = n THEN Inlined[n].tree ELSE f[m])
                  = IF Done(m, k + 1) THEN Inlined[m].tree ELSE start[m]
    BY <1>7, <2>14
  <2> QED
    BY <2>13, <2>15 DEF g
<1> QED
  BY <1>8, <1>9

\* The default plan and the legacy inlining mean the same.
THEOREM MaterializedMeansInlined == Spec => []MaterializedIsInlined
<1>1. IInv => MaterializedIsInlined
  <2> SUFFICES ASSUME IInv, NEW v \in DOMAIN views, ~PlanRaises(views[v]),
                      NEW columns \in {RequiredInputs(views[v]), Name},
                      NEW t \in views[v]
               PROVE  Materialized(columns, views[v])[t] = Inlined[t].tree
    BY DEF MaterializedIsInlined
  <2> DEFINE targets == views[v]
             s == TopologicalOrder
  <2>1. IsTerms(terms) /\ targets \subseteq Name
    BY TermsAreTerms, FormulaAssumption DEF IInv, TypeOK
  <2>2. s \in Seq(Name) /\ ToSet(s) = DOMAIN terms /\ IsOrder(terms, s)
    BY <2>1, TopologicalOrderIsVisit, OrderIsTopological DEF IInv, TypeOK
  <2>3. \A u \in targets : ~Inlined[u].raises
    BY DEF PlanRaises
  <2>4. \A u \in targets : u \notin DOMAIN terms => Inlined[u].columns = {u}
                                /\ Inlined[u].tree = [column |-> u]
    <3> SUFFICES ASSUME NEW u \in targets, u \notin DOMAIN terms
                 PROVE  Inlined[u].columns = {u} /\ Inlined[u].tree = [column |-> u]
      OBVIOUS
    <3>1. u \in Name /\ {} \in SUBSET Name
      BY <2>1
    <3>2. Inlined[u] = [raises |-> FALSE, tree |-> [column |-> u], columns |-> {u}]
      BY <2>1, <3>1, LeafCalls, InlinedIsInline
    <3> QED
      BY <3>2
  <2>5. RequiredInputs(targets) \subseteq columns
    <3>1. RequiredInputs(targets) \subseteq Name
      BY <2>1, RequiredAreNames
    <3> QED
      BY <3>1
  <2> HIDE DEF s, targets
  <2>6. PICK J : /\ J[0] = StartFrame(columns)
                 /\ \A k \in 0..(Len(s) - 1) : J[k + 1] = WithColumns(targets, J[k], s[k + 1])
                 /\ Materialized(columns, targets) = J[Len(s)]
    BY <2>2, MaterializedIsChain DEF s
  <2> DEFINE N == {k \in Nat : k <= Len(s) => Filled(J[k], columns, targets, k)}
  <2>7. 0 \in N
    <3>1. \A i \in 1..0 : FALSE
      OBVIOUS
    <3>2. StartFrame(columns) = [m \in Name |-> StartFrame(columns)[m]]
      BY DEF StartFrame
    <3>3. Filled(StartFrame(columns), columns, targets, 0)
      BY <3>1, <3>2 DEF Filled
    <3> QED
      BY <2>6, <3>3
  <2>8. ASSUME NEW k \in N PROVE k + 1 \in N
    <3> SUFFICES ASSUME k + 1 <= Len(s) PROVE Filled(J[k + 1], columns, targets, k + 1)
      OBVIOUS
    <3>1. k \in 0..(Len(s) - 1) /\ k + 1 \in DOMAIN s /\ k \in Nat /\ Filled(J[k], columns, targets, k)
      BY <2>2
    <3>2. J[k + 1] = WithColumns(targets, J[k], s[k + 1])
      BY <2>6, <3>1
    <3> HIDE DEF N
    <3> QED
      BY <2>1, <2>3, <2>5, <3>1, <3>2, WithColumnsFills DEF s, targets
  <2>9. N = Nat
    <3> HIDE DEF N
    <3>1. N \subseteq Nat
      BY DEF N
    <3> QED
      BY <2>7, <2>8, <3>1, Induction
  <2>10. Len(s) \in Nat /\ Filled(J[Len(s)], columns, targets, Len(s))
    BY <2>2, <2>9
  <2>11. t \in targets /\ t \in Name
    BY <2>1 DEF targets
  <2>12. CASE t \in DOMAIN terms
    <3>1. t \in Reachable(targets)
      BY <2>11, <2>12 DEF Reachable, Required
    <3>2. \E i \in 1..Len(s) : s[i] = t
      BY <2>2, <2>12 DEF ToSet
    <3> QED
      BY <2>6, <2>10, <2>11, <3>1, <3>2 DEF Filled, s, targets
  <2>13. CASE t \notin DOMAIN terms
    <3>1. t \notin Reachable(targets)
      BY <2>13 DEF Reachable, Required, Ancestors, TermGraph
    <3>2. t \in columns
      BY <2>4, <2>5, <2>11, <2>13 DEF RequiredInputs
    <3> QED
      BY <2>4, <2>6, <2>10, <2>11, <2>13, <3>1, <3>2 DEF Filled, StartFrame, targets
  <2> QED
    BY <2>12, <2>13
<1> QED
  BY <1>1, Invariance, PTL
=============================================================================
