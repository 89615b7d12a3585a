------------------------- MODULE PricingFormulaProofs -------------------------
(***************************************************************************)
(* Proofs about PricingFormula, and so about the trees of Expression, for   *)
(* every set of trees no higher than Height allows.                         *)
(*                                                                          *)
(* An operator on trees is a recursive function over the subtrees of its    *)
(* argument.  That such functions exist, and that two of them related node  *)
(* by node are related everywhere, goes by height: a node's children are    *)
(* lower than it.  The backends agree on a tree because they agree node by  *)
(* node, and Replaced keeps what a tree means when each name it replaces    *)
(* is worth its replacement.                                                *)
(*                                                                          *)
(* Facade, the facade's own invariant, ties its registries to those of the  *)
(* graph, so that each of its steps is one of the graph's and everything    *)
(* FormulaGraphProofs proves holds of a Formula.  That a plan computes what *)
(* inlining gives then has two halves: along the topological order every    *)
(* reachable column is what its body says of the final columns, and, by     *)
(* induction on the stack of _inline, a tree inlined over columns with that *)
(* property has the value of its name.                                      *)
(*                                                                          *)
(* That a text is read as its tree computes goes by induction on the tree:  *)
(* below a parent of each precedence, mathematics reads the text of a node  *)
(* as what the parent expects there, a base, a factor, a product, a sum or  *)
(* a whole relation with the node's value.  Reading goes from the left and  *)
(* the tree may nest to the right, so the laws of sums and products in the  *)
(* residues are what makes the two agree.                                   *)
(***************************************************************************)
EXTENDS FormulaText, FormulaGraphProofs, NaturalsInduction, SequenceTheorems

-----------------------------------------------------------------------------
\* Trees, level by level.

Depths == 0..(Height + 1)
LevelStep(e, f, n) == IF n = 0 THEN {e} ELSE UNION {Children(t) : t \in f[n - 1]}
IsLevels(e, f) == f = [n \in Depths |-> LevelStep(e, f, n)]
LevelsUpTo(e, f, k) == \A n \in Depths : n <= k => f[n] = LevelStep(e, f, n)

LEMMA LevelsAre ==
  ASSUME NEW e
  PROVE  IsLevels(e, AtDepth(e))
<1> DEFINE N == {k \in Nat : \E f : LevelsUpTo(e, f, k)}
<1>0. Height \in Nat /\ Depths \subseteq Nat
  BY ExpressionAssumption DEF Depths
<1>1. 0 \in N
  <2> DEFINE f == [n \in Depths |-> {e}]
  <2>1. \A n \in Depths : n <= 0 => n = 0
    BY <1>0
  <2>2. LevelsUpTo(e, f, 0)
    BY <2>1 DEF LevelStep, LevelsUpTo
  <2> QED
    BY <2>2
<1>2. ASSUME NEW k \in N PROVE k + 1 \in N
  <2>1. PICK f : LevelsUpTo(e, f, k)
    OBVIOUS
  <2> DEFINE more == [n \in Depths |-> IF n <= k THEN f[n] ELSE LevelStep(e, f, n)]
  <2>2. ASSUME NEW n \in Depths, n <= k + 1 PROVE more[n] = LevelStep(e, more, n)
    <3>1. n = 0 \/ (n - 1 \in Depths /\ n - 1 <= k)
      BY <1>0, <2>2 DEF Depths
    <3>2. n = 0 \/ more[n - 1] = f[n - 1]
      BY <3>1
    <3>3. LevelStep(e, more, n) = LevelStep(e, f, n)
      BY <3>2 DEF LevelStep
    <3>4. more[n] = LevelStep(e, f, n)
      BY <2>1 DEF LevelsUpTo
    <3> QED
      BY <3>3, <3>4
  <2> HIDE DEF more
  <2>3. LevelsUpTo(e, more, k + 1)
    BY <2>2 DEF LevelsUpTo
  <2>4. k + 1 \in Nat
    OBVIOUS
  <2> QED
    BY <2>3, <2>4
<1>3. N = Nat
  <2> HIDE DEF N
  <2>1. N \subseteq Nat
    BY DEF N
  <2> QED
    BY <1>1, <1>2, <2>1, Induction
<1>4. PICK f : LevelsUpTo(e, f, Height + 1)
  <2>1. Height + 1 \in N
    <3> HIDE DEF N
    <3> QED
      BY <1>0, <1>3
  <2> QED
    BY <2>1
<1> HIDE DEF N
<1> DEFINE g == [n \in Depths |-> f[n]]
<1>5. ASSUME NEW n \in Depths PROVE g[n] = LevelStep(e, g, n)
  <2>1. n <= Height + 1 /\ (n = 0 \/ n - 1 \in Depths)
    BY <1>0 DEF Depths
  <2>2. LevelStep(e, g, n) = LevelStep(e, f, n)
    BY <2>1 DEF LevelStep
  <2> QED
    BY <1>4, <2>1, <2>2 DEF LevelsUpTo
<1>6. g = [n \in Depths |-> g[n]]
  OBVIOUS
<1> HIDE DEF g
<1>7. IsLevels(e, g)
  BY <1>5, <1>6 DEF IsLevels
<1>8. AtDepth(e) = CHOOSE h : IsLevels(e, h)
  BY DEF AtDepth, IsLevels, LevelStep, Depths
<1> QED
  BY <1>7, <1>8

\* What is n levels down.
LEMMA Levels ==
  ASSUME NEW e
  PROVE  /\ AtDepth(e)[0] = {e}
         /\ \A n \in 0..Height : AtDepth(e)[n + 1] = UNION {Children(t) : t \in AtDepth(e)[n]}
<1>1. \A n \in Depths : AtDepth(e)[n] = LevelStep(e, AtDepth(e), n)
  BY LevelsAre DEF IsLevels
<1>2. 0 \in Depths /\ \A n \in 0..Height : n + 1 \in Depths /\ n + 1 # 0 /\ (n + 1) - 1 = n
  BY ExpressionAssumption DEF Depths
<1>3. \A n \in 0..Height : AtDepth(e)[n + 1] = LevelStep(e, AtDepth(e), n + 1)
  BY <1>1, <1>2
<1>4. ASSUME NEW n \in 0..Height
      PROVE  AtDepth(e)[n + 1] = UNION {Children(t) : t \in AtDepth(e)[n]}
  <2> DEFINE m == n + 1
  <2>1. m # 0 /\ m - 1 = n /\ AtDepth(e)[m] = LevelStep(e, AtDepth(e), m)
    BY <1>2, <1>3
  <2> HIDE DEF m
  <2>2. AtDepth(e)[m] = UNION {Children(t) : t \in AtDepth(e)[n]}
    BY <2>1 DEF LevelStep
  <2> QED
    BY <2>2 DEF m
<1> QED
  BY <1>1, <1>2, <1>4 DEF LevelStep

LEMMA LevelsOfChildren ==
  ASSUME NEW e, NEW n \in 0..Height
  PROVE  AtDepth(e)[n + 1] = UNION {AtDepth(c)[n] : c \in Children(e)}
<1> DEFINE Below(m) == UNION {AtDepth(c)[m] : c \in Children(e)}
           N == {m \in Nat : m <= Height => AtDepth(e)[m + 1] = Below(m)}
<1>0. Height \in Nat
  BY ExpressionAssumption
<1>1. 0 \in N
  <2>1. AtDepth(e)[0] = {e} /\ 0 \in 0..Height
    BY <1>0, Levels
  <2>2. AtDepth(e)[0 + 1] = UNION {Children(t) : t \in AtDepth(e)[0]}
    BY <2>1, Levels
  <2>3. Below(0) = UNION {{c} : c \in Children(e)}
    BY Levels
  <2>4. AtDepth(e)[0 + 1] = Below(0)
    BY <2>1, <2>2, <2>3
  <2> QED
    BY <2>4
<1>2. ASSUME NEW m \in N PROVE m + 1 \in N
  <2> SUFFICES ASSUME m + 1 <= Height PROVE AtDepth(e)[(m + 1) + 1] = Below(m + 1)
    OBVIOUS
  <2>1. m \in 0..Height /\ m + 1 \in 0..Height /\ AtDepth(e)[m + 1] = Below(m)
    BY <1>0
  <2>2. AtDepth(e)[(m + 1) + 1] = UNION {Children(t) : t \in Below(m)}
    BY <2>1, Levels
  <2>3. \A c : AtDepth(c)[m + 1] = UNION {Children(t) : t \in AtDepth(c)[m]}
    BY <2>1, Levels
  <2> QED
    BY <2>2, <2>3
<1>3. N = Nat
  <2> HIDE DEF N
  <2>1. N \subseteq Nat
    BY DEF N
  <2> QED
    BY <1>1, <1>2, <2>1, Induction
<1> QED
  BY <1>0, <1>3

\* A tree is low when it has at most h levels below its root.
Low(e, h) == AtDepth(e)[h + 1] = {}

LEMMA LowChildren ==
  ASSUME NEW e, NEW h \in 0..Height, Low(e, h), NEW c \in Children(e)
  PROVE  h - 1 \in 0..Height /\ Low(c, h - 1)
<1>0. Height \in Nat
  BY ExpressionAssumption
<1>1. AtDepth(e)[h + 1] = UNION {AtDepth(t)[h] : t \in Children(e)}
  BY LevelsOfChildren
<1>2. AtDepth(c)[h] = {}
  BY <1>1 DEF Low
<1>3. h # 0
  BY <1>2, Levels
<1>4. h - 1 \in 0..Height /\ (h - 1) + 1 = h
  BY <1>0, <1>3
<1> QED
  BY <1>2, <1>4 DEF Low

LEMMA LowParent ==
  ASSUME NEW e, NEW h \in 0..Height, h + 1 <= Height, \A c \in Children(e) : Low(c, h)
  PROVE  Low(e, h + 1)
<1>1. h + 1 \in 0..Height
  BY ExpressionAssumption
<1>2. AtDepth(e)[(h + 1) + 1] = UNION {AtDepth(c)[h + 1] : c \in Children(e)}
  BY <1>1, LevelsOfChildren
<1> QED
  BY <1>2 DEF Low

LEMMA LowerIsLow ==
  ASSUME NEW e, NEW h \in 0..Height, Low(e, h), NEW k \in 0..Height, h <= k
  PROVE  Low(e, k)
<1> DEFINE N == {m \in Nat : h + m <= Height => Low(e, h + m)}
<1>0. Height \in Nat
  BY ExpressionAssumption
<1>1. 0 \in N
  BY <1>0
<1>2. ASSUME NEW m \in N PROVE m + 1 \in N
  <2> SUFFICES ASSUME h + (m + 1) <= Height PROVE Low(e, h + (m + 1))
    OBVIOUS
  <2> DEFINE j == h + m
  <2>1. j + 1 \in 0..Height /\ Low(e, j) /\ h + (m + 1) = j + 1
    BY <1>0
  <2> HIDE DEF j
  <2>2. AtDepth(e)[(j + 1) + 1] = UNION {Children(t) : t \in AtDepth(e)[j + 1]}
    BY <2>1, Levels
  <2>3. Low(e, j + 1)
    BY <2>1, <2>2 DEF Low
  <2> QED
    BY <2>1, <2>3
<1>3. N = Nat
  <2> HIDE DEF N
  <2>1. N \subseteq Nat
    BY DEF N
  <2> QED
    BY <1>1, <1>2, <2>1, Induction
<1>4. k - h \in Nat /\ h + (k - h) = k /\ k <= Height
  BY <1>0
<1>5. k - h \in N
  <2> HIDE DEF N
  <2> QED
    BY <1>3, <1>4
<1> QED
  BY <1>4, <1>5

\* The subtrees are the least set with the root and the children of its members.
LEMMA SubtreesLeast ==
  ASSUME NEW e, NEW S, e \in S, \A t \in S : Children(t) \subseteq S
  PROVE  Subtrees(e) \subseteq S
<1> DEFINE N == {n \in Nat : n <= Height => AtDepth(e)[n] \subseteq S}
<1>1. 0 \in N
  BY Levels
<1>2. ASSUME NEW n \in N PROVE n + 1 \in N
  <2> SUFFICES ASSUME n + 1 <= Height PROVE AtDepth(e)[n + 1] \subseteq S
    OBVIOUS
  <2>1. n \in 0..Height /\ AtDepth(e)[n] \subseteq S
    BY ExpressionAssumption
  <2>2. AtDepth(e)[n + 1] = UNION {Children(t) : t \in AtDepth(e)[n]}
    BY <2>1, Levels
  <2> QED
    BY <2>1, <2>2
<1>3. N = Nat
  <2> HIDE DEF N
  <2>1. N \subseteq Nat
    BY DEF N
  <2> QED
    BY <1>1, <1>2, <2>1, Induction
<1>4. \A n \in 0..Height : AtDepth(e)[n] \subseteq S
  BY <1>3, ExpressionAssumption
<1> QED
  BY <1>4 DEF Subtrees

LEMMA SubtreesClosed ==
  ASSUME NEW e, Low(e, Height)
  PROVE  /\ e \in Subtrees(e)
         /\ \A t \in Subtrees(e) : Low(t, Height) /\ Children(t) \subseteq Subtrees(e)
<1> DEFINE N == {n \in Nat : n <= Height => \A t \in AtDepth(e)[n] : Low(t, Height - n)}
<1>0. Height \in Nat /\ Height - 0 = Height
  BY ExpressionAssumption
<1>1. 0 \in N
  BY <1>0, Levels
<1>2. ASSUME NEW n \in N PROVE n + 1 \in N
  <2> SUFFICES ASSUME n + 1 <= Height, NEW c \in AtDepth(e)[n + 1]
               PROVE  Low(c, Height - (n + 1))
    OBVIOUS
  <2> DEFINE h == Height - n
  <2>1. n \in 0..Height /\ h \in 0..Height /\ Height - (n + 1) = h - 1
    BY <1>0
  <2>2. PICK t \in AtDepth(e)[n] : c \in Children(t)
    BY <2>1, Levels
  <2>3. Low(t, h)
    BY <2>1, <2>2
  <2> HIDE DEF h
  <2>4. Low(c, h - 1)
    BY <2>1, <2>2, <2>3, LowChildren
  <2> QED
    BY <2>1, <2>4
<1>3. N = Nat
  <2> HIDE DEF N
  <2>1. N \subseteq Nat
    BY DEF N
  <2> QED
    BY <1>1, <1>2, <2>1, Induction
<1>4. ASSUME NEW t \in Subtrees(e)
      PROVE  Low(t, Height) /\ Children(t) \subseteq Subtrees(e)
  <2>1. PICK n \in 0..Height : t \in AtDepth(e)[n]
    BY DEF Subtrees
  <2>2. n \in N
    BY <1>0, <1>3
  <2>3. Height - n \in 0..Height /\ Height \in 0..Height /\ Height - n <= Height
    BY <1>0
  <2>4. Low(t, Height - n)
    BY <1>0, <2>1, <2>2
  <2>5. Low(t, Height)
    BY <2>3, <2>4, LowerIsLow
  <2>6. Children(t) \subseteq AtDepth(e)[n + 1]
    BY <2>1, Levels
  <2>7. n + 1 \in 0..Height \/ AtDepth(e)[n + 1] = {}
    BY <1>0 DEF Low
  <2> QED
    BY <2>5, <2>6, <2>7 DEF Subtrees
<1>5. e \in Subtrees(e)
  <2>1. 0 \in 0..Height /\ e \in AtDepth(e)[0]
    BY <1>0, Levels
  <2> QED
    BY <2>1 DEF Subtrees
<1> QED
  BY <1>4, <1>5

LEMMA SubtreesNested ==
  ASSUME NEW e, Low(e, Height), NEW t \in Subtrees(e)
  PROVE  Low(t, Height) /\ Subtrees(t) \subseteq Subtrees(e)
BY SubtreesClosed, SubtreesLeast

\* Induction over the subtrees.
LEMMA TreeInduction ==
  ASSUME NEW e, Low(e, Height), NEW Q,
         \A t \in Subtrees(e) : Children(t) \subseteq Q => t \in Q
  PROVE  Subtrees(e) \subseteq Q
<1> DEFINE N == {k \in Nat : k <= Height => \A t \in Subtrees(e) : Low(t, k) => t \in Q}
<1>0. Height \in Nat
  BY ExpressionAssumption
<1>1. 0 \in N
  <2> SUFFICES ASSUME NEW t \in Subtrees(e), Low(t, 0) PROVE t \in Q
    OBVIOUS
  <2>1. 0 \in 0..Height /\ ~(0 - 1 \in 0..Height)
    BY <1>0
  <2>2. Children(t) = {}
    BY <2>1, LowChildren
  <2> QED
    BY <2>2
<1>2. ASSUME NEW k \in N PROVE k + 1 \in N
  <2> SUFFICES ASSUME k + 1 <= Height, NEW t \in Subtrees(e), Low(t, k + 1) PROVE t \in Q
    OBVIOUS
  <2>1. k + 1 \in 0..Height /\ (k + 1) - 1 = k
    BY <1>0
  <2>2. ASSUME NEW c \in Children(t) PROVE c \in Q
    <3>1. Low(c, k)
      BY <2>1, LowChildren
    <3>2. c \in Subtrees(e)
      BY SubtreesClosed
    <3> QED
      BY <1>0, <2>1, <3>1, <3>2
  <2> QED
    BY <2>2
<1>3. N = Nat
  <2> HIDE DEF N
  <2>1. N \subseteq Nat
    BY DEF N
  <2> QED
    BY <1>1, <1>2, <2>1, Induction
<1>4. Height \in N
  BY <1>0, <1>3
<1> QED
  BY <1>0, <1>4, SubtreesClosed
\* The parts of a tree are trees.
LEMMA TreeParts ==
  ASSUME NEW e, IsTree(e, Height), NEW t \in Subtrees(e)
  PROVE  IsTree(t, Height) /\ IsNode(t) /\ Subtrees(t) \subseteq Subtrees(e)
<1>1. Low(e, Height)
  BY DEF IsTree, Low
<1>2. Low(t, Height) /\ Subtrees(t) \subseteq Subtrees(e)
  BY <1>1, SubtreesNested
<1> QED
  BY <1>2 DEF IsTree, Low

LEMMA ArgsAreChildren ==
  ASSUME NEW e, IsNode(e), e[1] \notin {"var", "lit"}
  PROVE  /\ Arity(e[1]) \in 1..3 /\ DOMAIN e = 1..(Arity(e[1]) + 1)
         /\ \A i \in 1..Arity(e[1]) : i + 1 \in DOMAIN e /\ e[i + 1] \in Children(e)
<1>1. Arity(e[1]) \in 1..3
  BY DEF Arity
<1>2. DOMAIN e = 1..(Arity(e[1]) + 1)
  BY DEF IsNode
<1>3. \A i \in 1..Arity(e[1]) : i + 1 \in DOMAIN e \ {1}
  BY <1>1, <1>2
<1> QED
  BY <1>1, <1>2, <1>3 DEF Children

\* The operators by their number of args.
LEMMA Arities ==
  ASSUME NEW e, IsNode(e), e[1] \notin {"var", "lit"}
  PROVE  /\ 1 \in 1..Arity(e[1])
         /\ e[1] \in Comparison \cup Arithmetic \cup {"where"} => 2 \in 1..Arity(e[1])
         /\ e[1] = "where" => 3 \in 1..Arity(e[1])
         /\ e[1] \in Unary \cup Comparison \cup Arithmetic \cup {"where"}
BY DEF IsNode, Arity, Unary, Comparison, Arithmetic

IsPolars(e, row, f) == f = [t \in Subtrees(e) |-> PolarsNode(t, f, row)]
PolarsUpTo(e, row, f, k) == \A t \in Subtrees(e) : Low(t, k) => f[t] = PolarsNode(t, f, row)

LEMMA PolarsReads ==
  ASSUME NEW e, IsNode(e), NEW row, NEW f, NEW g, \A c \in Children(e) : f[c] = g[c]
  PROVE  PolarsNode(e, f, row) = PolarsNode(e, g, row)
<1>1. CASE e[1] \in {"var", "lit"}
  BY <1>1 DEF PolarsNode
<1>2. CASE e[1] \notin {"var", "lit"}
  <2>1. /\ f[e[1 + 1]] = g[e[1 + 1]]
        /\ e[1] \in Comparison \cup Arithmetic \cup {"where"} => f[e[2 + 1]] = g[e[2 + 1]]
        /\ e[1] = "where" => f[e[3 + 1]] = g[e[3 + 1]]
    BY <1>2, ArgsAreChildren, Arities
  <2>2. CASE e[1] \in Unary
    <3>1. e[1] \notin {"var", "lit", "where"} /\ e[1] \notin Comparison /\ e[1] \notin Arithmetic
      BY <2>2 DEF Unary, Comparison, Arithmetic
    <3> QED
      BY <2>1, <2>2, <3>1 DEF PolarsNode
  <2>3. CASE e[1] \in Comparison \cup Arithmetic
    <3>1. e[1] \notin {"var", "lit", "where", "normal_cdf"} /\ e[1] \notin Unary
      BY <2>3 DEF Unary, Comparison, Arithmetic
    <3> QED
      BY <2>1, <2>3, <3>1 DEF PolarsNode
  <2>4. CASE e[1] = "where"
    BY <2>1, <2>4 DEF PolarsNode
  <2> QED
    BY <1>2, <2>2, <2>3, <2>4, Arities
<1> QED
  BY <1>1, <1>2

LEMMA PolarsExists ==
  ASSUME NEW e, IsTree(e, Height), NEW row
  PROVE  \E f : IsPolars(e, row, f)
<1> DEFINE N == {k \in Nat : k <= Height => \E f : PolarsUpTo(e, row, f, k)}
           Once(f) == [t \in Subtrees(e) |-> PolarsNode(t, f, row)]
<1>0. Height \in Nat /\ Low(e, Height)
  BY ExpressionAssumption DEF IsTree, Low
<1>1. ASSUME NEW f, NEW k \in 0..Height,
             \A t \in Subtrees(e) : Low(t, k) => \A c \in Children(t) : f[c] = PolarsNode(c, f, row)
      PROVE  PolarsUpTo(e, row, Once(f), k)
  <2> SUFFICES ASSUME NEW t \in Subtrees(e), Low(t, k)
               PROVE  Once(f)[t] = PolarsNode(t, Once(f), row)
    BY DEF PolarsUpTo
  <2>1. \A c \in Children(t) : Once(f)[c] = f[c]
    BY <1>0, <1>1, SubtreesClosed
  <2>2. IsNode(t)
    BY DEF IsTree
  <2>3. Once(f)[t] = PolarsNode(t, f, row)
    OBVIOUS
  <2> HIDE DEF Once
  <2>4. PolarsNode(t, Once(f), row) = PolarsNode(t, f, row)
    BY <2>1, <2>2, PolarsReads
  <2> QED
    BY <2>3, <2>4
<1>2. 0 \in N
  <2>1. \A t : Low(t, 0) => Children(t) = {}
    <3>1. 0 \in 0..Height /\ ~(0 - 1 \in 0..Height)
      BY <1>0
    <3> QED
      BY <3>1, LowChildren
  <2> HIDE DEF Once
  <2>2. PolarsUpTo(e, row, Once(0), 0)
    BY <1>0, <1>1, <2>1
  <2> QED
    BY <2>2
<1>3. ASSUME NEW k \in N PROVE k + 1 \in N
  <2> SUFFICES ASSUME k + 1 <= Height PROVE \E f : PolarsUpTo(e, row, f, k + 1)
    OBVIOUS
  <2>0. k <= Height
    BY <1>0
  <2>1. PICK f : PolarsUpTo(e, row, f, k)
    BY <2>0
  <2>2. k + 1 \in 0..Height /\ (k + 1) - 1 = k
    BY <1>0
  <2>3. ASSUME NEW t \in Subtrees(e), Low(t, k + 1), NEW c \in Children(t)
        PROVE  f[c] = PolarsNode(c, f, row)
    <3>1. Low(c, k)
      BY <2>2, <2>3, LowChildren
    <3>2. c \in Subtrees(e)
      BY <1>0, SubtreesClosed
    <3> QED
      BY <2>1, <3>1, <3>2 DEF PolarsUpTo
  <2> HIDE DEF Once
  <2>4. PolarsUpTo(e, row, Once(f), k + 1)
    BY <1>1, <2>2, <2>3
  <2> QED
    BY <2>4
<1>4. Height \in N
  <2> HIDE DEF N
  <2>1. N \subseteq Nat
    BY DEF N
  <2> QED
    BY <1>0, <1>2, <1>3, <2>1, Induction
<1>5. PICK f : PolarsUpTo(e, row, f, Height)
  BY <1>0, <1>4
<1>6. Height \in 0..Height
  BY <1>0
<1>7. \A t \in Subtrees(e) : Low(t, Height) /\ Children(t) \subseteq Subtrees(e)
  BY <1>0, SubtreesClosed
<1>8. PolarsUpTo(e, row, Once(f), Height)
  <2> HIDE DEF Once, N
  <2> QED
    BY <1>1, <1>5, <1>6, <1>7 DEF PolarsUpTo
<1> DEFINE g == Once(f)
<1>9. g = [t \in Subtrees(e) |-> g[t]]
  OBVIOUS
<1> HIDE DEF g, Once
<1>10. IsPolars(e, row, g)
  BY <1>7, <1>8, <1>9 DEF IsPolars, PolarsUpTo, g
<1> QED
  BY <1>10

LEMMA PolarsIs ==
  ASSUME NEW e, IsTree(e, Height), NEW row
  PROVE  \E f : IsPolars(e, row, f) /\ Polars(e, row) = f[e]
<1>1. Polars(e, row) = (CHOOSE f : IsPolars(e, row, f))[e]
  BY DEF Polars, IsPolars
<1> QED
  BY <1>1, PolarsExists

\* A node computes from what its args compute.
LEMMA PolarsUnfolds ==
  ASSUME NEW e, IsTree(e, Height), NEW row
  PROVE  Polars(e, row) = PolarsNode(e, [c \in Children(e) |-> Polars(c, row)], row)
<1>0. Low(e, Height) /\ IsNode(e)
  BY SubtreesClosed DEF IsTree, Low
<1>1. PICK f : IsPolars(e, row, f) /\ Polars(e, row) = f[e]
  BY PolarsIs
<1>2. \A t \in Subtrees(e) : f[t] = PolarsNode(t, f, row)
  BY <1>1 DEF IsPolars
<1>3. ASSUME NEW c \in Children(e) PROVE f[c] = Polars(c, row)
  <2>1. c \in Subtrees(e) /\ IsTree(c, Height) /\ Low(c, Height)
    BY <1>0, SubtreesClosed, TreeParts
  <2>2. PICK g : IsPolars(c, row, g) /\ Polars(c, row) = g[c]
    BY <2>1, PolarsIs
  <2>3. \A t \in Subtrees(c) : g[t] = PolarsNode(t, g, row)
    BY <2>2 DEF IsPolars
  <2> DEFINE Q == {t \in Subtrees(c) : f[t] = g[t]}
  <2>4. ASSUME NEW t \in Subtrees(c), Children(t) \subseteq Q PROVE t \in Q
    <3>1. t \in Subtrees(e) /\ IsNode(t)
      BY <1>0, <2>1, SubtreesNested, TreeParts
    <3>2. PolarsNode(t, f, row) = PolarsNode(t, g, row)
      BY <2>4, <3>1, PolarsReads
    <3> QED
      BY <1>2, <2>3, <3>1, <3>2
  <2>5. c \in Q
    <3> HIDE DEF Q
    <3> QED
      BY <2>1, <2>4, TreeInduction, SubtreesClosed
  <2> QED
    BY <2>2, <2>5
<1> DEFINE h == [c \in Children(e) |-> Polars(c, row)]
<1>4. \A c \in Children(e) : f[c] = h[c]
  BY <1>3
<1> HIDE DEF h
<1>5. PolarsNode(e, f, row) = PolarsNode(e, h, row)
  BY <1>0, <1>4, PolarsReads
<1>6. e \in Subtrees(e)
  BY <1>0, SubtreesClosed
<1> QED
  BY <1>1, <1>2, <1>5, <1>6 DEF h

IsNumeric(e, env, f) == f = [t \in Subtrees(e) |-> NumericNode(t, f, env)]
NumericUpTo(e, env, f, k) == \A t \in Subtrees(e) : Low(t, k) => f[t] = NumericNode(t, f, env)

LEMMA NumericReads ==
  ASSUME NEW e, IsNode(e), NEW env, NEW f, NEW g, \A c \in Children(e) : f[c] = g[c]
  PROVE  NumericNode(e, f, env) = NumericNode(e, g, env)
<1>1. CASE e[1] \in {"var", "lit"}
  BY <1>1 DEF NumericNode
<1>2. CASE e[1] \notin {"var", "lit"}
  <2>1. /\ f[e[1 + 1]] = g[e[1 + 1]]
        /\ e[1] \in Comparison \cup Arithmetic \cup {"where"} => f[e[2 + 1]] = g[e[2 + 1]]
        /\ e[1] = "where" => f[e[3 + 1]] = g[e[3 + 1]]
    BY <1>2, ArgsAreChildren, Arities
  <2>2. CASE e[1] \in Unary
    <3>1. e[1] \notin {"var", "lit", "where"} /\ e[1] \notin Comparison /\ e[1] \notin Arithmetic
      BY <2>2 DEF Unary, Comparison, Arithmetic
    <3> QED
      BY <2>1, <2>2, <3>1 DEF NumericNode
  <2>3. CASE e[1] \in Comparison \cup Arithmetic
    <3>1. e[1] \notin {"var", "lit", "where", "normal_cdf"} /\ e[1] \notin Unary
      BY <2>3 DEF Unary, Comparison, Arithmetic
    <3> QED
      BY <2>1, <2>3, <3>1 DEF NumericNode
  <2>4. CASE e[1] = "where"
    BY <2>1, <2>4 DEF NumericNode
  <2> QED
    BY <1>2, <2>2, <2>3, <2>4, Arities
<1> QED
  BY <1>1, <1>2

LEMMA NumericExists ==
  ASSUME NEW e, IsTree(e, Height), NEW env
  PROVE  \E f : IsNumeric(e, env, f)
<1> DEFINE N == {k \in Nat : k <= Height => \E f : NumericUpTo(e, env, f, k)}
           Once(f) == [t \in Subtrees(e) |-> NumericNode(t, f, env)]
<1>0. Height \in Nat /\ Low(e, Height)
  BY ExpressionAssumption DEF IsTree, Low
<1>1. ASSUME NEW f, NEW k \in 0..Height,
             \A t \in Subtrees(e) : Low(t, k) => \A c \in Children(t) : f[c] = NumericNode(c, f, env)
      PROVE  NumericUpTo(e, env, Once(f), k)
  <2> SUFFICES ASSUME NEW t \in Subtrees(e), Low(t, k)
               PROVE  Once(f)[t] = NumericNode(t, Once(f), env)
    BY DEF NumericUpTo
  <2>1. \A c \in Children(t) : Once(f)[c] = f[c]
    BY <1>0, <1>1, SubtreesClosed
  <2>2. IsNode(t)
    BY DEF IsTree
  <2>3. Once(f)[t] = NumericNode(t, f, env)
    OBVIOUS
  <2> HIDE DEF Once
  <2>4. NumericNode(t, Once(f), env) = NumericNode(t, f, env)
    BY <2>1, <2>2, NumericReads
  <2> QED
    BY <2>3, <2>4
<1>2. 0 \in N
  <2>1. \A t : Low(t, 0) => Children(t) = {}
    <3>1. 0 \in 0..Height /\ ~(0 - 1 \in 0..Height)
      BY <1>0
    <3> QED
      BY <3>1, LowChildren
  <2> HIDE DEF Once
  <2>2. NumericUpTo(e, env, Once(0), 0)
    BY <1>0, <1>1, <2>1
  <2> QED
    BY <2>2
<1>3. ASSUME NEW k \in N PROVE k + 1 \in N
  <2> SUFFICES ASSUME k + 1 <= Height PROVE \E f : NumericUpTo(e, env, f, k + 1)
    OBVIOUS
  <2>0. k <= Height
    BY <1>0
  <2>1. PICK f : NumericUpTo(e, env, f, k)
    BY <2>0
  <2>2. k + 1 \in 0..Height /\ (k + 1) - 1 = k
    BY <1>0
  <2>3. ASSUME NEW t \in Subtrees(e), Low(t, k + 1), NEW c \in Children(t)
        PROVE  f[c] = NumericNode(c, f, env)
    <3>1. Low(c, k)
      BY <2>2, <2>3, LowChildren
    <3>2. c \in Subtrees(e)
      BY <1>0, SubtreesClosed
    <3> QED
      BY <2>1, <3>1, <3>2 DEF NumericUpTo
  <2> HIDE DEF Once
  <2>4. NumericUpTo(e, env, Once(f), k + 1)
    BY <1>1, <2>2, <2>3
  <2> QED
    BY <2>4
<1>4. Height \in N
  <2> HIDE DEF N
  <2>1. N \subseteq Nat
    BY DEF N
  <2> QED
    BY <1>0, <1>2, <1>3, <2>1, Induction
<1>5. PICK f : NumericUpTo(e, env, f, Height)
  BY <1>0, <1>4
<1>6. Height \in 0..Height
  BY <1>0
<1>7. \A t \in Subtrees(e) : Low(t, Height) /\ Children(t) \subseteq Subtrees(e)
  BY <1>0, SubtreesClosed
<1>8. NumericUpTo(e, env, Once(f), Height)
  <2> HIDE DEF Once, N
  <2> QED
    BY <1>1, <1>5, <1>6, <1>7 DEF NumericUpTo
<1> DEFINE g == Once(f)
<1>9. g = [t \in Subtrees(e) |-> g[t]]
  OBVIOUS
<1> HIDE DEF g, Once
<1>10. IsNumeric(e, env, g)
  BY <1>7, <1>8, <1>9 DEF IsNumeric, NumericUpTo, g
<1> QED
  BY <1>10

LEMMA NumericIs ==
  ASSUME NEW e, IsTree(e, Height), NEW env
  PROVE  \E f : IsNumeric(e, env, f) /\ Numeric(e, env) = f[e]
<1>1. Numeric(e, env) = (CHOOSE f : IsNumeric(e, env, f))[e]
  BY DEF Numeric, IsNumeric
<1> QED
  BY <1>1, NumericExists

\* The same of the numeric backend.
LEMMA NumericUnfolds ==
  ASSUME NEW e, IsTree(e, Height), NEW env
  PROVE  Numeric(e, env) = NumericNode(e, [c \in Children(e) |-> Numeric(c, env)], env)
<1>0. Low(e, Height) /\ IsNode(e)
  BY SubtreesClosed DEF IsTree, Low
<1>1. PICK f : IsNumeric(e, env, f) /\ Numeric(e, env) = f[e]
  BY NumericIs
<1>2. \A t \in Subtrees(e) : f[t] = NumericNode(t, f, env)
  BY <1>1 DEF IsNumeric
<1>3. ASSUME NEW c \in Children(e) PROVE f[c] = Numeric(c, env)
  <2>1. c \in Subtrees(e) /\ IsTree(c, Height) /\ Low(c, Height)
    BY <1>0, SubtreesClosed, TreeParts
  <2>2. PICK g : IsNumeric(c, env, g) /\ Numeric(c, env) = g[c]
    BY <2>1, NumericIs
  <2>3. \A t \in Subtrees(c) : g[t] = NumericNode(t, g, env)
    BY <2>2 DEF IsNumeric
  <2> DEFINE Q == {t \in Subtrees(c) : f[t] = g[t]}
  <2>4. ASSUME NEW t \in Subtrees(c), Children(t) \subseteq Q PROVE t \in Q
    <3>1. t \in Subtrees(e) /\ IsNode(t)
      BY <1>0, <2>1, SubtreesNested, TreeParts
    <3>2. NumericNode(t, f, env) = NumericNode(t, g, env)
      BY <2>4, <3>1, NumericReads
    <3> QED
      BY <1>2, <2>3, <3>1, <3>2
  <2>5. c \in Q
    <3> HIDE DEF Q
    <3> QED
      BY <2>1, <2>4, TreeInduction, SubtreesClosed
  <2> QED
    BY <2>2, <2>5
<1> DEFINE h == [c \in Children(e) |-> Numeric(c, env)]
<1>4. \A c \in Children(e) : f[c] = h[c]
  BY <1>3
<1> HIDE DEF h
<1>5. NumericNode(e, f, env) = NumericNode(e, h, env)
  BY <1>0, <1>4, NumericReads
<1>6. e \in Subtrees(e)
  BY <1>0, SubtreesClosed
<1> QED
  BY <1>1, <1>2, <1>5, <1>6 DEF h

IsIterVars(e, f) == f = [t \in Subtrees(e) |-> VarsNode(t, f)]
IterVarsUpTo(e, f, k) == \A t \in Subtrees(e) : Low(t, k) => f[t] = VarsNode(t, f)

LEMMA IterVarsReads ==
  ASSUME NEW e, IsNode(e), NEW f, NEW g, \A c \in Children(e) : f[c] = g[c]
  PROVE  VarsNode(e, f) = VarsNode(e, g)
<1>1. CASE e[1] \in {"var", "lit"}
  BY <1>1 DEF VarsNode
<1>2. CASE e[1] \notin {"var", "lit"}
  <2>1. \A i \in {1, 2, 3} : i + 1 \in DOMAIN e => e[i + 1] \in Children(e)
    BY <1>2 DEF Children
  <2>2. \A i \in {1, 2, 3} : i + 1 \in DOMAIN e => f[e[i + 1]] = g[e[i + 1]]
    BY <2>1
  <2> QED
    BY <1>2, <2>2 DEF VarsNode
<1> QED
  BY <1>1, <1>2

LEMMA IterVarsExists ==
  ASSUME NEW e, IsTree(e, Height)
  PROVE  \E f : IsIterVars(e, f)
<1> DEFINE N == {k \in Nat : k <= Height => \E f : IterVarsUpTo(e, f, k)}
           Once(f) == [t \in Subtrees(e) |-> VarsNode(t, f)]
<1>0. Height \in Nat /\ Low(e, Height)
  BY ExpressionAssumption DEF IsTree, Low
<1>1. ASSUME NEW f, NEW k \in 0..Height,
             \A t \in Subtrees(e) : Low(t, k) => \A c \in Children(t) : f[c] = VarsNode(c, f)
      PROVE  IterVarsUpTo(e, Once(f), k)
  <2> SUFFICES ASSUME NEW t \in Subtrees(e), Low(t, k)
               PROVE  Once(f)[t] = VarsNode(t, Once(f))
    BY DEF IterVarsUpTo
  <2>1. \A c \in Children(t) : Once(f)[c] = f[c]
    BY <1>0, <1>1, SubtreesClosed
  <2>2. IsNode(t)
    BY DEF IsTree
  <2>3. Once(f)[t] = VarsNode(t, f)
    OBVIOUS
  <2> HIDE DEF Once
  <2>4. VarsNode(t, Once(f)) = VarsNode(t, f)
    BY <2>1, <2>2, IterVarsReads
  <2> QED
    BY <2>3, <2>4
<1>2. 0 \in N
  <2>1. \A t : Low(t, 0) => Children(t) = {}
    <3>1. 0 \in 0..Height /\ ~(0 - 1 \in 0..Height)
      BY <1>0
    <3> QED
      BY <3>1, LowChildren
  <2> HIDE DEF Once
  <2>2. IterVarsUpTo(e, Once(0), 0)
    BY <1>0, <1>1, <2>1
  <2> QED
    BY <2>2
<1>3. ASSUME NEW k \in N PROVE k + 1 \in N
  <2> SUFFICES ASSUME k + 1 <= Height PROVE \E f : IterVarsUpTo(e, f, k + 1)
    OBVIOUS
  <2>0. k <= Height
    BY <1>0
  <2>1. PICK f : IterVarsUpTo(e, f, k)
    BY <2>0
  <2>2. k + 1 \in 0..Height /\ (k + 1) - 1 = k
    BY <1>0
  <2>3. ASSUME NEW t \in Subtrees(e), Low(t, k + 1), NEW c \in Children(t)
        PROVE  f[c] = VarsNode(c, f)
    <3>1. Low(c, k)
      BY <2>2, <2>3, LowChildren
    <3>2. c \in Subtrees(e)
      BY <1>0, SubtreesClosed
    <3> QED
      BY <2>1, <3>1, <3>2 DEF IterVarsUpTo
  <2> HIDE DEF Once
  <2>4. IterVarsUpTo(e, Once(f), k + 1)
    BY <1>1, <2>2, <2>3
  <2> QED
    BY <2>4
<1>4. Height \in N
  <2> HIDE DEF N
  <2>1. N \subseteq Nat
    BY DEF N
  <2> QED
    BY <1>0, <1>2, <1>3, <2>1, Induction
<1>5. PICK f : IterVarsUpTo(e, f, Height)
  BY <1>0, <1>4
<1>6. Height \in 0..Height
  BY <1>0
<1>7. \A t \in Subtrees(e) : Low(t, Height) /\ Children(t) \subseteq Subtrees(e)
  BY <1>0, SubtreesClosed
<1>8. IterVarsUpTo(e, Once(f), Height)
  <2> HIDE DEF Once, N
  <2> QED
    BY <1>1, <1>5, <1>6, <1>7 DEF IterVarsUpTo
<1> DEFINE g == Once(f)
<1>9. g = [t \in Subtrees(e) |-> g[t]]
  OBVIOUS
<1> HIDE DEF g, Once
<1>10. IsIterVars(e, g)
  BY <1>7, <1>8, <1>9 DEF IsIterVars, IterVarsUpTo, g
<1> QED
  BY <1>10

LEMMA IterVarsIs ==
  ASSUME NEW e, IsTree(e, Height)
  PROVE  \E f : IsIterVars(e, f) /\ IterVars(e) = f[e]
<1>1. IterVars(e) = (CHOOSE f : IsIterVars(e, f))[e]
  BY DEF IterVars, IsIterVars
<1> QED
  BY <1>1, IterVarsExists

\* The variables of a node are those of its args.
LEMMA IterVarsUnfolds ==
  ASSUME NEW e, IsTree(e, Height)
  PROVE  IterVars(e) = VarsNode(e, [c \in Children(e) |-> IterVars(c)])
<1>0. Low(e, Height) /\ IsNode(e)
  BY SubtreesClosed DEF IsTree, Low
<1>1. PICK f : IsIterVars(e, f) /\ IterVars(e) = f[e]
  BY IterVarsIs
<1>2. \A t \in Subtrees(e) : f[t] = VarsNode(t, f)
  BY <1>1 DEF IsIterVars
<1>3. ASSUME NEW c \in Children(e) PROVE f[c] = IterVars(c)
  <2>1. c \in Subtrees(e) /\ IsTree(c, Height) /\ Low(c, Height)
    BY <1>0, SubtreesClosed, TreeParts
  <2>2. PICK g : IsIterVars(c, g) /\ IterVars(c) = g[c]
    BY <2>1, IterVarsIs
  <2>3. \A t \in Subtrees(c) : g[t] = VarsNode(t, g)
    BY <2>2 DEF IsIterVars
  <2> DEFINE Q == {t \in Subtrees(c) : f[t] = g[t]}
  <2>4. ASSUME NEW t \in Subtrees(c), Children(t) \subseteq Q PROVE t \in Q
    <3>1. t \in Subtrees(e) /\ IsNode(t)
      BY <1>0, <2>1, SubtreesNested, TreeParts
    <3>2. VarsNode(t, f) = VarsNode(t, g)
      BY <2>4, <3>1, IterVarsReads
    <3> QED
      BY <1>2, <2>3, <3>1, <3>2
  <2>5. c \in Q
    <3> HIDE DEF Q
    <3> QED
      BY <2>1, <2>4, TreeInduction, SubtreesClosed
  <2> QED
    BY <2>2, <2>5
<1> DEFINE h == [c \in Children(e) |-> IterVars(c)]
<1>4. \A c \in Children(e) : f[c] = h[c]
  BY <1>3
<1> HIDE DEF h
<1>5. VarsNode(e, f) = VarsNode(e, h)
  BY <1>0, <1>4, IterVarsReads
<1>6. e \in Subtrees(e)
  BY <1>0, SubtreesClosed
<1> QED
  BY <1>1, <1>2, <1>5, <1>6 DEF h

IsReplaced(e, env, f) == f = [t \in Subtrees(e) |-> ReplacedNode(t, f, env)]
ReplacedUpTo(e, env, f, k) == \A t \in Subtrees(e) : Low(t, k) => f[t] = ReplacedNode(t, f, env)

LEMMA ReplacedReads ==
  ASSUME NEW e, IsNode(e), NEW env, NEW f, NEW g, \A c \in Children(e) : f[c] = g[c]
  PROVE  ReplacedNode(e, f, env) = ReplacedNode(e, g, env)
<1>1. CASE e[1] \in {"var", "lit"}
  BY <1>1 DEF ReplacedNode
<1>2. CASE e[1] \notin {"var", "lit"}
  <2>1. \A i \in DOMAIN e : i # 1 => e[i] \in Children(e)
    BY <1>2 DEF Children
  <2>2. \A i \in DOMAIN e : i # 1 => f[e[i]] = g[e[i]]
    BY <2>1
  <2> QED
    BY <1>2, <2>2 DEF ReplacedNode
<1> QED
  BY <1>1, <1>2

LEMMA ReplacedExists ==
  ASSUME NEW e, IsTree(e, Height), NEW env
  PROVE  \E f : IsReplaced(e, env, f)
<1> DEFINE N == {k \in Nat : k <= Height => \E f : ReplacedUpTo(e, env, f, k)}
           Once(f) == [t \in Subtrees(e) |-> ReplacedNode(t, f, env)]
<1>0. Height \in Nat /\ Low(e, Height)
  BY ExpressionAssumption DEF IsTree, Low
<1>1. ASSUME NEW f, NEW k \in 0..Height,
             \A t \in Subtrees(e) : Low(t, k) => \A c \in Children(t) : f[c] = ReplacedNode(c, f, env)
      PROVE  ReplacedUpTo(e, env, Once(f), k)
  <2> SUFFICES ASSUME NEW t \in Subtrees(e), Low(t, k)
               PROVE  Once(f)[t] = ReplacedNode(t, Once(f), env)
    BY DEF ReplacedUpTo
  <2>1. \A c \in Children(t) : Once(f)[c] = f[c]
    BY <1>0, <1>1, SubtreesClosed
  <2>2. IsNode(t)
    BY DEF IsTree
  <2>3. Once(f)[t] = ReplacedNode(t, f, env)
    OBVIOUS
  <2> HIDE DEF Once
  <2>4. ReplacedNode(t, Once(f), env) = ReplacedNode(t, f, env)
    BY <2>1, <2>2, ReplacedReads
  <2> QED
    BY <2>3, <2>4
<1>2. 0 \in N
  <2>1. \A t : Low(t, 0) => Children(t) = {}
    <3>1. 0 \in 0..Height /\ ~(0 - 1 \in 0..Height)
      BY <1>0
    <3> QED
      BY <3>1, LowChildren
  <2> HIDE DEF Once
  <2>2. ReplacedUpTo(e, env, Once(0), 0)
    BY <1>0, <1>1, <2>1
  <2> QED
    BY <2>2
<1>3. ASSUME NEW k \in N PROVE k + 1 \in N
  <2> SUFFICES ASSUME k + 1 <= Height PROVE \E f : ReplacedUpTo(e, env, f, k + 1)
    OBVIOUS
  <2>0. k <= Height
    BY <1>0
  <2>1. PICK f : ReplacedUpTo(e, env, f, k)
    BY <2>0
  <2>2. k + 1 \in 0..Height /\ (k + 1) - 1 = k
    BY <1>0
  <2>3. ASSUME NEW t \in Subtrees(e), Low(t, k + 1), NEW c \in Children(t)
        PROVE  f[c] = ReplacedNode(c, f, env)
    <3>1. Low(c, k)
      BY <2>2, <2>3, LowChildren
    <3>2. c \in Subtrees(e)
      BY <1>0, SubtreesClosed
    <3> QED
      BY <2>1, <3>1, <3>2 DEF ReplacedUpTo
  <2> HIDE DEF Once
  <2>4. ReplacedUpTo(e, env, Once(f), k + 1)
    BY <1>1, <2>2, <2>3
  <2> QED
    BY <2>4
<1>4. Height \in N
  <2> HIDE DEF N
  <2>1. N \subseteq Nat
    BY DEF N
  <2> QED
    BY <1>0, <1>2, <1>3, <2>1, Induction
<1>5. PICK f : ReplacedUpTo(e, env, f, Height)
  BY <1>0, <1>4
<1>6. Height \in 0..Height
  BY <1>0
<1>7. \A t \in Subtrees(e) : Low(t, Height) /\ Children(t) \subseteq Subtrees(e)
  BY <1>0, SubtreesClosed
<1>8. ReplacedUpTo(e, env, Once(f), Height)
  <2> HIDE DEF Once, N
  <2> QED
    BY <1>1, <1>5, <1>6, <1>7 DEF ReplacedUpTo
<1> DEFINE g == Once(f)
<1>9. g = [t \in Subtrees(e) |-> g[t]]
  OBVIOUS
<1> HIDE DEF g, Once
<1>10. IsReplaced(e, env, g)
  BY <1>7, <1>8, <1>9 DEF IsReplaced, ReplacedUpTo, g
<1> QED
  BY <1>10

LEMMA ReplacedIs ==
  ASSUME NEW e, IsTree(e, Height), NEW env
  PROVE  \E f : IsReplaced(e, env, f) /\ Replaced(e, env) = f[e]
<1>1. Replaced(e, env) = (CHOOSE f : IsReplaced(e, env, f))[e]
  BY DEF Replaced, IsReplaced
<1> QED
  BY <1>1, ReplacedExists

\* Replacing in a node is replacing in its args.
LEMMA ReplacedUnfolds ==
  ASSUME NEW e, IsTree(e, Height), NEW env
  PROVE  Replaced(e, env) = ReplacedNode(e, [c \in Children(e) |-> Replaced(c, env)], env)
<1>0. Low(e, Height) /\ IsNode(e)
  BY SubtreesClosed DEF IsTree, Low
<1>1. PICK f : IsReplaced(e, env, f) /\ Replaced(e, env) = f[e]
  BY ReplacedIs
<1>2. \A t \in Subtrees(e) : f[t] = ReplacedNode(t, f, env)
  BY <1>1 DEF IsReplaced
<1>3. ASSUME NEW c \in Children(e) PROVE f[c] = Replaced(c, env)
  <2>1. c \in Subtrees(e) /\ IsTree(c, Height) /\ Low(c, Height)
    BY <1>0, SubtreesClosed, TreeParts
  <2>2. PICK g : IsReplaced(c, env, g) /\ Replaced(c, env) = g[c]
    BY <2>1, ReplacedIs
  <2>3. \A t \in Subtrees(c) : g[t] = ReplacedNode(t, g, env)
    BY <2>2 DEF IsReplaced
  <2> DEFINE Q == {t \in Subtrees(c) : f[t] = g[t]}
  <2>4. ASSUME NEW t \in Subtrees(c), Children(t) \subseteq Q PROVE t \in Q
    <3>1. t \in Subtrees(e) /\ IsNode(t)
      BY <1>0, <2>1, SubtreesNested, TreeParts
    <3>2. ReplacedNode(t, f, env) = ReplacedNode(t, g, env)
      BY <2>4, <3>1, ReplacedReads
    <3> QED
      BY <1>2, <2>3, <3>1, <3>2
  <2>5. c \in Q
    <3> HIDE DEF Q
    <3> QED
      BY <2>1, <2>4, TreeInduction, SubtreesClosed
  <2> QED
    BY <2>2, <2>5
<1> DEFINE h == [c \in Children(e) |-> Replaced(c, env)]
<1>4. \A c \in Children(e) : f[c] = h[c]
  BY <1>3
<1> HIDE DEF h
<1>5. ReplacedNode(e, f, env) = ReplacedNode(e, h, env)
  BY <1>0, <1>4, ReplacedReads
<1>6. e \in Subtrees(e)
  BY <1>0, SubtreesClosed
<1> QED
  BY <1>1, <1>2, <1>5, <1>6 DEF h

-----------------------------------------------------------------------------
LEMMA OrderedIsBoolean ==
  ASSUME NEW op \in Comparison, NEW x, NEW y
  PROVE  Ordered(op, x, y) \in BOOLEAN
<1>1. CASE op = "gt"
  BY <1>1 DEF Ordered
<1>2. CASE op = "ge"
  BY <1>2 DEF Ordered
<1>3. CASE op = "lt"
  BY <1>3 DEF Ordered
<1>4. CASE op = "le"
  BY <1>4 DEF Ordered
<1>5. CASE op = "eq"
  BY <1>5 DEF Ordered
<1> QED
  BY <1>1, <1>2, <1>3, <1>4, <1>5 DEF Comparison

\* The two backends' tables say the same of every operator but a comparison.
LEMMA TablesAgree ==
  ASSUME NEW a, NEW b
  PROVE  /\ \A op \in Arithmetic : PolarsArith(op, a, b) = Arith(op, a, b)
         /\ \A op \in Unary \ {"normal_cdf"} : PolarsApplied(op, a) = Applied(op, a)
<1>1. ASSUME NEW op \in Arithmetic PROVE PolarsArith(op, a, b) = Arith(op, a, b)
  <2>1. CASE ~IsNumber(a) \/ ~IsNumber(b)
    BY <2>1 DEF PolarsArith, Arith
  <2>2. CASE IsNumber(a) /\ IsNumber(b)
    <3>1. CASE op = "add"
      BY <2>2, <3>1 DEF PolarsArith, Arith
    <3>2. CASE op = "sub"
      BY <2>2, <3>2 DEF PolarsArith, Arith
    <3>3. CASE op = "mul"
      BY <2>2, <3>3 DEF PolarsArith, Arith
    <3>4. CASE op = "div"
      BY <2>2, <3>4 DEF PolarsArith, Arith
    <3>5. CASE op = "pow"
      BY <2>2, <3>5 DEF PolarsArith, Arith
    <3> QED
      BY <3>1, <3>2, <3>3, <3>4, <3>5 DEF Arithmetic
  <2> QED
    BY <2>1, <2>2
<1>2. ASSUME NEW op \in Unary \ {"normal_cdf"} PROVE PolarsApplied(op, a) = Applied(op, a)
  <2>1. CASE ~IsNumber(a)
    BY <2>1 DEF PolarsApplied, Applied
  <2>2. CASE IsNumber(a)
    <3>1. CASE op = "neg"
      BY <2>2, <3>1 DEF PolarsApplied, Applied
    <3>2. CASE op = "exp"
      BY <2>2, <3>2 DEF PolarsApplied, Applied
    <3>3. CASE op = "log"
      BY <2>2, <3>3 DEF PolarsApplied, Applied
    <3>4. CASE op = "abs"
      BY <2>2, <3>4 DEF PolarsApplied, Applied
    <3>5. CASE op = "sqrt"
      BY <2>2, <3>5 DEF PolarsApplied, Applied
    <3>6. CASE op = "normal_pdf"
      BY <2>2, <3>6 DEF PolarsApplied, Applied
    <3> QED
      BY <3>1, <3>2, <3>3, <3>4, <3>5, <3>6 DEF Unary
  <2> QED
    BY <2>1, <2>2
<1> QED
  BY <1>1, <1>2

\* And the two copies of the polynomial are one, NaN or not.
LEMMA CdfsAgree ==
  ASSUME NEW z
  PROVE  PolarsCdf(z) = Symmetric(NumericCompares("ge", z, Number(0)),
                                  Approximation(Applied("abs", z)))
<1> DEFINE a == Applied("abs", z)
           tail == Approximation(a)
<1>1. IsNumber(Number(0)) /\ ~IsNumber(NaN)
  BY DEF IsNumber, Number, NaN
<1>2. PolarsApplied("abs", z) = a
  BY TablesAgree DEF Unary
<1>3. PolarsArith("add", PolarsArith("mul", a, a), Number(2)) = tail
  <2>1. PolarsArith("mul", a, a) = Arith("mul", a, a)
    BY TablesAgree DEF Arithmetic
  <2>2. \A v : PolarsArith("add", v, Number(2)) = Arith("add", v, Number(2))
    BY TablesAgree DEF Arithmetic
  <2> QED
    BY <2>1, <2>2 DEF Approximation
<1>4. PolarsArith("sub", Number(1), tail) = Arith("sub", Number(1), tail)
  BY TablesAgree DEF Arithmetic
<1>5. PolarsCdf(z) = IF PolarsCompares("ge", z, Number(0)) THEN tail
                     ELSE Arith("sub", Number(1), tail)
  <2> HIDE DEF a, tail
  <2> QED
    BY <1>2, <1>3, <1>4 DEF PolarsCdf
<1>6. CASE IsNumber(z)
  <2>1. PolarsCompares("ge", z, Number(0)) = NumericCompares("ge", z, Number(0))
    BY <1>1, <1>6 DEF PolarsCompares, NumericCompares, Ordered
  <2> QED
    BY <1>5, <2>1 DEF Symmetric
<1>7. CASE ~IsNumber(z)
  <2>1. a = NaN
    BY <1>7 DEF Applied
  <2>2. Arith("mul", NaN, NaN) = NaN /\ Arith("add", NaN, Number(2)) = NaN
    BY <1>1 DEF Arith
  <2>3. tail = NaN
    BY <2>1, <2>2 DEF Approximation
  <2>4. Arith("sub", Number(1), NaN) = NaN
    BY <1>1 DEF Arith
  <2> HIDE DEF a, tail
  <2>5. \A c : Symmetric(c, tail) = NaN
    BY <2>3, <2>4 DEF Symmetric
  <2>6. PolarsCdf(z) = NaN
    BY <1>5, <2>3, <2>4
  <2> QED
    BY <2>5, <2>6 DEF tail, a
<1> QED
  BY <1>6, <1>7

\* Both backends compute the same of a node, unless it compares NaN.
LEMMA NodesAgree ==
  ASSUME NEW e, IsNode(e), NEW value, NEW row,
         e[1] \in Comparison => IsNumber(value[e[2]]) /\ IsNumber(value[e[3]])
  PROVE  PolarsNode(e, value, row) = NumericNode(e, value, row)
<1>1. 1 + 1 = 2 /\ 2 + 1 = 3
  OBVIOUS
<1>2. CASE e[1] = "normal_cdf"
  <2>1. PolarsNode(e, value, row) = PolarsCdf(value[e[2]])
    BY <1>1, <1>2 DEF PolarsNode, Comparison, Arithmetic
  <2>2. NumericNode(e, value, row)
          = Symmetric(NumericCompares("ge", value[e[2]], Number(0)),
                      Approximation(Applied("abs", value[e[2]])))
    BY <1>1, <1>2 DEF NumericNode, Comparison, Arithmetic
  <2> QED
    BY <2>1, <2>2, CdfsAgree
<1>3. CASE e[1] \in Comparison
  <2>1. PolarsCompares(e[1], value[e[2]], value[e[3]])
          = NumericCompares(e[1], value[e[2]], value[e[3]])
    <3> DEFINE a == value[e[2]]
               b == value[e[3]]
    <3>1. Ordered(e[1], a[1], b[1]) \in BOOLEAN
      BY <1>3, OrderedIsBoolean
    <3>2. IsNumber(a) /\ IsNumber(b)
      BY <1>3
    <3> HIDE DEF a, b
    <3>3. PolarsCompares(e[1], a, b) = Ordered(e[1], a[1], b[1])
      BY <3>2 DEF PolarsCompares
    <3>4. NumericCompares(e[1], a, b) = Ordered(e[1], a[1], b[1])
      BY <3>1, <3>2 DEF NumericCompares
    <3> QED
      BY <3>3, <3>4 DEF a, b
  <2>2. e[1] \notin {"var", "lit", "where", "normal_cdf"} /\ e[1] \notin Unary
    BY <1>3 DEF Unary, Comparison
  <2> QED
    BY <1>3, <2>1, <2>2 DEF PolarsNode, NumericNode
<1>4. CASE e[1] \in Arithmetic
  <2>1. PolarsNode(e, value, row) = PolarsArith(e[1], value[e[2]], value[e[3]])
    BY <1>1, <1>4 DEF PolarsNode, Unary, Comparison, Arithmetic
  <2>2. NumericNode(e, value, row) = Arith(e[1], value[e[2]], value[e[3]])
    BY <1>1, <1>4 DEF NumericNode, Unary, Comparison, Arithmetic
  <2> QED
    BY <1>4, <2>1, <2>2, TablesAgree
<1>5. CASE e[1] \in Unary \ {"normal_cdf"}
  <2>1. PolarsNode(e, value, row) = PolarsApplied(e[1], value[e[2]])
    BY <1>1, <1>5 DEF PolarsNode, Unary, Comparison, Arithmetic
  <2>2. NumericNode(e, value, row) = Applied(e[1], value[e[2]])
    BY <1>1, <1>5 DEF NumericNode, Unary, Comparison, Arithmetic
  <2> QED
    BY <1>5, <2>1, <2>2, TablesAgree
<1>6. CASE e[1] \in {"var", "lit", "where"}
  BY <1>6 DEF PolarsNode, NumericNode, Unary, Comparison, Arithmetic
<1> QED
  BY <1>2, <1>3, <1>4, <1>5, <1>6 DEF IsNode

LEMMA TreesAgree ==
  ASSUME NEW e, IsTree(e, Height), NEW row, ~ComparesNaN(e, row)
  PROVE  Polars(e, row) = Numeric(e, row)
<1> DEFINE Q == {t \in Subtrees(e) : Polars(t, row) = Numeric(t, row)}
<1>1. Low(e, Height)
  BY DEF IsTree, Low
<1>2. ASSUME NEW t \in Subtrees(e), Children(t) \subseteq Q
      PROVE  Polars(t, row) = Numeric(t, row)
  <2>1. IsTree(t, Height) /\ IsNode(t)
    BY TreeParts
  <2> DEFINE value == [c \in Children(t) |-> Numeric(c, row)]
  <2>2. [c \in Children(t) |-> Polars(c, row)] = value
    BY <1>2
  <2>3. ASSUME t[1] \in Comparison
        PROVE  IsNumber(value[t[2]]) /\ IsNumber(value[t[3]])
    <3>1. IsNumber(Numeric(t[2], row)) /\ IsNumber(Numeric(t[3], row))
      BY <2>3 DEF ComparesNaN
    <3>2. t[1] \notin {"var", "lit"}
      BY <2>3 DEF Comparison
    <3>3. t[1 + 1] \in Children(t) /\ t[2 + 1] \in Children(t)
      BY <2>1, <2>3, <3>2, Arities, ArgsAreChildren
    <3> QED
      BY <3>1, <3>3
  <2>4. Polars(t, row) = PolarsNode(t, value, row)
    BY <2>1, <2>2, PolarsUnfolds
  <2>5. Numeric(t, row) = NumericNode(t, value, row)
    BY <2>1, NumericUnfolds
  <2> HIDE DEF value
  <2> QED
    BY <2>1, <2>3, <2>4, <2>5, NodesAgree
<1>3. e \in Q
  <2>1. \A t \in Subtrees(e) : Children(t) \subseteq Q => t \in Q
    BY <1>2
  <2> HIDE DEF Q
  <2> QED
    BY <1>1, <2>1, TreeInduction, SubtreesClosed
<1> QED
  BY <1>3

-----------------------------------------------------------------------------
(* Trees from their parts, and the variables of a tree.                      *)
LEMMA SubtreesUnfold ==
  ASSUME NEW e, Low(e, Height)
  PROVE  Subtrees(e) = {e} \cup UNION {Subtrees(c) : c \in Children(e)}
<1> DEFINE S == {e} \cup UNION {Subtrees(c) : c \in Children(e)}
<1>1. \A c \in Children(e) : c \in Subtrees(e) /\ Low(c, Height)
  BY SubtreesClosed
<1>2. \A c \in Children(e) : c \in Subtrees(c) /\ \A t \in Subtrees(c) : Children(t) \subseteq Subtrees(c)
  BY <1>1, SubtreesClosed
<1>3. e \in S /\ \A t \in S : Children(t) \subseteq S
  BY <1>2
<1>4. Subtrees(e) \subseteq S
  <2> HIDE DEF S
  <2> QED
    BY <1>3, SubtreesLeast
<1>5. \A c \in Children(e) : Subtrees(c) \subseteq Subtrees(e)
  BY <1>1, SubtreesNested
<1> QED
  BY <1>4, <1>5, SubtreesClosed

LEMMA TreeFromParts ==
  ASSUME NEW e, IsNode(e), NEW h \in 0..Height, h + 1 <= Height,
         \A c \in Children(e) : IsTree(c, h)
  PROVE  IsTree(e, h + 1)
<1>1. Height \in 0..Height /\ h + 1 \in 0..Height
  BY ExpressionAssumption
<1>2. Low(e, h + 1) /\ Low(e, Height)
  BY <1>1, LowParent, LowerIsLow DEF IsTree, Low
<1>3. Subtrees(e) = {e} \cup UNION {Subtrees(c) : c \in Children(e)}
  BY <1>2, SubtreesUnfold
<1> QED
  BY <1>2, <1>3 DEF IsTree, Low

LEMMA LowerTree ==
  ASSUME NEW e, NEW h \in 0..Height, NEW k \in 0..Height, h <= k, IsTree(e, h)
  PROVE  IsTree(e, k)
BY LowerIsLow DEF IsTree, Low

LEMMA LeafTree ==
  ASSUME NEW e, IsNode(e), e[1] \in {"var", "lit"}, NEW h \in 0..Height
  PROVE  IsTree(e, h) /\ Children(e) = {} /\ Subtrees(e) = {e}
<1>1. Children(e) = {}
  BY DEF Children
<1>2. 0 \in 0..Height /\ Height \in 0..Height /\ 0 <= h /\ h \in Nat /\ 0 <= Height
  BY ExpressionAssumption
<1>3. AtDepth(e)[0 + 1] = {}
  BY <1>1, <1>2, Levels
<1>4. Low(e, h) /\ Low(e, Height)
  BY <1>2, <1>3, LowerIsLow DEF Low
<1>5. Subtrees(e) = {e}
  BY <1>1, <1>4, SubtreesUnfold
<1> QED
  BY <1>1, <1>4, <1>5 DEF IsTree, Low

VarNames(e) == {t[2] : t \in {s \in Subtrees(e) : s[1] = "var"}}

LEMMA VarNamesNested ==
  ASSUME NEW e, IsTree(e, Height), NEW t \in Subtrees(e)
  PROVE  VarNames(t) \subseteq VarNames(e)
BY TreeParts DEF VarNames

LEMMA ConcatToSet ==
  ASSUME NEW S, NEW s \in Seq(S), NEW t \in Seq(S)
  PROVE  s \o t \in Seq(S) /\ ToSet(s \o t) = ToSet(s) \cup ToSet(t)
<1>1. s \o t \in Seq(S)
  OBVIOUS
<1>2. Len(s) \in Nat /\ Len(t) \in Nat /\ DOMAIN s = 1..Len(s) /\ DOMAIN t = 1..Len(t)
      /\ DOMAIN (s \o t) = 1..(Len(s) + Len(t))
  OBVIOUS
<1>3. \A i \in DOMAIN (s \o t) : (s \o t)[i] \in ToSet(s) \cup ToSet(t)
  <2> SUFFICES ASSUME NEW i \in DOMAIN (s \o t) PROVE (s \o t)[i] \in ToSet(s) \cup ToSet(t)
    OBVIOUS
  <2>1. CASE i <= Len(s)
    BY <1>2, <2>1 DEF ToSet
  <2>2. CASE i > Len(s)
    <3>1. i - Len(s) \in DOMAIN t /\ (s \o t)[i] = t[i - Len(s)]
      BY <1>2, <2>2
    <3> QED
      BY <3>1 DEF ToSet
  <2> QED
    BY <1>2, <2>1, <2>2
<1>4. \A i \in DOMAIN s : i \in DOMAIN (s \o t) /\ (s \o t)[i] = s[i]
  BY <1>2
<1>5. \A i \in DOMAIN t : i + Len(s) \in DOMAIN (s \o t) /\ (s \o t)[i + Len(s)] = t[i]
  BY <1>2
<1>6. ToSet(s \o t) \subseteq ToSet(s) \cup ToSet(t)
  BY <1>3 DEF ToSet
<1>7. ToSet(s) \subseteq ToSet(s \o t)
  BY <1>4 DEF ToSet
<1>8. ToSet(t) \subseteq ToSet(s \o t)
  BY <1>5 DEF ToSet
<1> QED
  BY <1>1, <1>6, <1>7, <1>8

\* _iter_vars yields every variable of the tree.
LEMMA IterVarsYieldsAll ==
  ASSUME NEW e, IsTree(e, Height)
  PROVE  VarNames(e) \subseteq ToSet(IterVars(e))
<1> DEFINE X == VarNames(e)
           Q == {t \in Subtrees(e) : IterVars(t) \in Seq(X) /\ VarNames(t) \subseteq ToSet(IterVars(t))}
<1>1. Low(e, Height)
  BY DEF IsTree, Low
<1>2. ASSUME NEW t \in Subtrees(e), Children(t) \subseteq Q
      PROVE  t \in Q
  <2>1. IsTree(t, Height) /\ IsNode(t) /\ Low(t, Height)
    BY TreeParts DEF IsTree, Low
  <2> DEFINE found == [c \in Children(t) |-> IterVars(c)]
             arg(i) == IF i + 1 \in DOMAIN t THEN found[t[i + 1]] ELSE <<>>
  <2>2. IterVars(t) = VarsNode(t, found)
    BY <2>1, IterVarsUnfolds
  <2>3. CASE t[1] \in {"var", "lit"}
    <3>1. Subtrees(t) = {t}
      BY <2>1, <2>3, LeafTree, ExpressionAssumption
    <3>2. CASE t[1] = "var"
      <4>1. IterVars(t) = <<t[2]>> /\ VarNames(t) = {t[2]} /\ t[2] \in X
        BY <2>2, <3>1, <3>2 DEF VarsNode, VarNames
      <4> HIDE DEF X
      <4>2. <<t[2]>> \in Seq(X)
        BY <4>1
      <4>3. ToSet(<<t[2]>>) = {t[2]}
        BY DEF ToSet
      <4> QED
        BY <4>1, <4>2, <4>3
    <3>3. CASE t[1] = "lit"
      <4>1. IterVars(t) = <<>> /\ VarNames(t) = {}
        BY <2>2, <3>1, <3>3 DEF VarsNode, VarNames
      <4> QED
        BY <4>1
    <3> QED
      BY <2>3, <3>2, <3>3
  <2>4. CASE t[1] \notin {"var", "lit"}
    <3>1. IterVars(t) = arg(1) \o arg(2) \o arg(3)
      BY <2>2, <2>4 DEF VarsNode
    <3>2. \A i \in {1, 2, 3} : i + 1 \in DOMAIN t => t[i + 1] \in Children(t)
      BY <2>4 DEF Children
    <3>3. \A i \in {1, 2, 3} : i + 1 \in DOMAIN t => arg(i) = IterVars(t[i + 1])
      BY <3>2
    <3>4. \A i \in {1, 2, 3} : arg(i) \in Seq(X)
      <4>1. \A i \in {1, 2, 3} : i + 1 \in DOMAIN t => IterVars(t[i + 1]) \in Seq(X)
        BY <1>2, <3>2
      <4>2. \A i \in {1, 2, 3} : i + 1 \notin DOMAIN t => arg(i) \in Seq(X)
        OBVIOUS
      <4> HIDE DEF arg
      <4> QED
        BY <3>3, <4>1, <4>2
    <3>5. \A c \in Children(t) : \E i \in {1, 2, 3} : i + 1 \in DOMAIN t /\ c = t[i + 1]
      <4>1. DOMAIN t = 1..(Arity(t[1]) + 1) /\ Arity(t[1]) \in 1..3
        BY <2>1, <2>4, ArgsAreChildren
      <4>2. \A j \in DOMAIN t \ {1} : \E i \in {1, 2, 3} : j = i + 1
        BY <4>1
      <4> QED
        BY <2>4, <4>2 DEF Children
    <3>6. VarNames(t) \subseteq UNION {VarNames(c) : c \in Children(t)}
      <4>1. Subtrees(t) = {t} \cup UNION {Subtrees(c) : c \in Children(t)}
        BY <2>1, SubtreesUnfold
      <4> QED
        BY <2>4, <4>1 DEF VarNames
    <3> HIDE DEF arg, found
    <3>7. arg(1) \in Seq(X) /\ arg(2) \in Seq(X) /\ arg(3) \in Seq(X)
      BY <3>4
    <3> HIDE DEF X
    <3> DEFINE two == arg(1) \o arg(2)
    <3>8. two \in Seq(X) /\ ToSet(two) = ToSet(arg(1)) \cup ToSet(arg(2))
      BY <3>7, ConcatToSet
    <3> DEFINE three == two \o arg(3)
    <3>a. IterVars(t) = three
      BY <3>1
    <3> HIDE DEF two
    <3>b. three \in Seq(X) /\ ToSet(three) = ToSet(two) \cup ToSet(arg(3))
      BY <3>7, <3>8, ConcatToSet
    <3> HIDE DEF three
    <3>9. /\ IterVars(t) \in Seq(X)
          /\ ToSet(IterVars(t)) = ToSet(arg(1)) \cup ToSet(arg(2)) \cup ToSet(arg(3))
      BY <3>8, <3>a, <3>b
    <3>10. ASSUME NEW c \in Children(t) PROVE VarNames(c) \subseteq ToSet(IterVars(t))
      <4>1. PICK i \in {1, 2, 3} : i + 1 \in DOMAIN t /\ c = t[i + 1]
        BY <3>5
      <4>2. arg(i) = IterVars(c)
        BY <3>3, <4>1
      <4>3. VarNames(c) \subseteq ToSet(IterVars(c))
        BY <1>2
      <4> QED
        BY <3>9, <4>1, <4>2, <4>3
    <3> QED
      BY <3>6, <3>9, <3>10
  <2> QED
    BY <2>3, <2>4
<1>3. e \in Q
  <2> HIDE DEF Q
  <2> QED
    BY <1>1, <1>2, TreeInduction, SubtreesClosed
<1> QED
  BY <1>3

-----------------------------------------------------------------------------
(* What inlining does to a tree.                                             *)
LEMMA ReplacedLeaf ==
  ASSUME NEW e, IsTree(e, Height), NEW env
  PROVE  /\ e[1] = "var" => Replaced(e, env) = env[e[2]]
         /\ e[1] = "lit" => Replaced(e, env) = e
BY ReplacedUnfolds DEF ReplacedNode

LEMMA ReplacedInner ==
  ASSUME NEW e, IsTree(e, Height), e[1] \notin {"var", "lit"}, NEW env, NEW r, r = Replaced(e, env)
  PROVE  /\ IsNode(r) /\ r[1] = e[1]
         /\ \A i \in 1..Arity(e[1]) : r[i + 1] = Replaced(e[i + 1], env)
         /\ Children(r) = {Replaced(c, env) : c \in Children(e)}
<1> DEFINE new == [c \in Children(e) |-> Replaced(c, env)]
<1>1. r = [i \in DOMAIN e |-> IF i = 1 THEN e[1] ELSE new[e[i]]]
  BY ReplacedUnfolds DEF ReplacedNode
<1>2. IsNode(e) /\ Low(e, Height)
  BY SubtreesClosed DEF IsTree, Low
<1>3. /\ Arity(e[1]) \in 1..3 /\ DOMAIN e = 1..(Arity(e[1]) + 1)
      /\ \A i \in 1..Arity(e[1]) : i + 1 \in DOMAIN e /\ e[i + 1] \in Children(e)
  BY <1>2, ArgsAreChildren
<1>4. DOMAIN r = DOMAIN e /\ r[1] = e[1]
  BY <1>1, <1>3
<1>5. \A i \in DOMAIN e \ {1} : e[i] \in Children(e)
  BY DEF Children
<1>6. \A i \in DOMAIN e \ {1} : r[i] = Replaced(e[i], env)
  BY <1>1, <1>5
<1> HIDE DEF new
<1>7. IsNode(r)
  BY <1>2, <1>4 DEF IsNode
<1>8. \A i \in 1..Arity(e[1]) : i + 1 # 1
  BY <1>3
<1>9. Children(r) = {r[i] : i \in DOMAIN e \ {1}}
  BY <1>4 DEF Children
<1>10. Children(e) = {e[i] : i \in DOMAIN e \ {1}}
  BY DEF Children
<1>11. Children(r) = {Replaced(c, env) : c \in Children(e)}
  BY <1>6, <1>9, <1>10
<1> QED
  BY <1>3, <1>4, <1>6, <1>7, <1>8, <1>11

LEMMA ReplacedIsTree ==
  ASSUME NEW h \in Nat, NEW k \in Nat, h + k <= Height,
         NEW e, IsTree(e, h), NEW env, \A m \in VarNames(e) : IsTree(env[m], k)
  PROVE  IsTree(Replaced(e, env), h + k)
<1> DEFINE N == {j \in Nat : j + k <= Height => \A t \in Subtrees(e) : Low(t, j) => IsTree(Replaced(t, env), j + k)}
<1>0. Height \in Nat /\ h \in 0..Height /\ k \in 0..Height /\ Height \in 0..Height /\ h <= Height
  BY ExpressionAssumption
<1>1. IsTree(e, Height) /\ Low(e, h) /\ Low(e, Height)
  BY <1>0, LowerTree DEF IsTree, Low
<1>2. ASSUME NEW t \in Subtrees(e), t[1] \in {"var", "lit"}, NEW j \in Nat, j + k <= Height
      PROVE  IsTree(Replaced(t, env), j + k)
  <2>1. IsTree(t, Height) /\ IsNode(t)
    BY <1>1, TreeParts
  <2>2. j + k \in 0..Height /\ k <= j + k
    BY <1>0, <1>2
  <2>3. CASE t[1] = "var"
    <3>1. t[2] \in VarNames(e)
      BY <2>3 DEF VarNames
    <3>2. IsTree(Replaced(t, env), k)
      BY <2>1, <2>3, <3>1, ReplacedLeaf
    <3> QED
      BY <1>0, <2>2, <3>2, LowerTree
  <2>4. CASE t[1] = "lit"
    BY <2>1, <2>2, <2>4, ReplacedLeaf, LeafTree
  <2> QED
    BY <1>2, <2>3, <2>4
<1>3. 0 \in N
  <2> SUFFICES ASSUME 0 + k <= Height, NEW t \in Subtrees(e), Low(t, 0)
               PROVE  IsTree(Replaced(t, env), 0 + k)
    OBVIOUS
  <2>1. 0 \in 0..Height /\ ~(0 - 1 \in 0..Height) /\ 0 \in Nat
    BY <1>0
  <2>2. Children(t) = {}
    BY <2>1, LowChildren
  <2>3. t[1] \in {"var", "lit"}
    BY <1>1, <2>2, TreeParts, ArgsAreChildren, Arities
  <2> QED
    BY <1>2, <2>1, <2>3
<1>4. ASSUME NEW j \in N PROVE j + 1 \in N
  <2> SUFFICES ASSUME (j + 1) + k <= Height, NEW t \in Subtrees(e), Low(t, j + 1)
               PROVE  IsTree(Replaced(t, env), (j + 1) + k)
    OBVIOUS
  <2>1. j + 1 \in 0..Height /\ (j + 1) - 1 = j /\ j + k <= Height /\ j + k \in 0..Height
        /\ (j + 1) + k = (j + k) + 1 /\ (j + k) + 1 <= Height /\ j + 1 \in Nat
    BY <1>0
  <2>2. CASE t[1] \in {"var", "lit"}
    BY <1>2, <2>1, <2>2
  <2>3. CASE t[1] \notin {"var", "lit"}
    <3> DEFINE r == Replaced(t, env)
    <3>1. IsTree(t, Height)
      BY <1>1, TreeParts
    <3>2. IsNode(r) /\ Children(r) = {Replaced(c, env) : c \in Children(t)}
      BY <2>3, <3>1, ReplacedInner
    <3>3. ASSUME NEW c \in Children(t) PROVE IsTree(Replaced(c, env), j + k)
      <4>1. Low(c, j)
        BY <2>1, LowChildren
      <4>2. c \in Subtrees(e)
        BY <1>1, SubtreesClosed
      <4> QED
        BY <2>1, <4>1, <4>2
    <3> HIDE DEF r
    <3>4. \A c \in Children(r) : IsTree(c, j + k)
      BY <3>2, <3>3
    <3> DEFINE n == j + k
    <3>5. n \in 0..Height /\ n + 1 <= Height /\ \A c \in Children(r) : IsTree(c, n)
      BY <2>1, <3>4
    <3> HIDE DEF n
    <3>6. IsTree(r, n + 1)
      BY <3>2, <3>5, TreeFromParts
    <3> QED
      BY <2>1, <3>6 DEF r, n
  <2> QED
    BY <2>2, <2>3
<1>5. h \in N
  <2> HIDE DEF N
  <2>1. N \subseteq Nat
    BY DEF N
  <2> QED
    BY <1>3, <1>4, <2>1, Induction
<1> QED
  BY <1>1, <1>5, SubtreesClosed

\* Every subtree of e can be replaced in within the height of trees.
Fits(e, env) == IsTree(e, Height) /\ \A t \in Subtrees(e) : IsTree(Replaced(t, env), Height)

LEMMA LowReplacesFit ==
  ASSUME NEW h \in Nat, NEW k \in Nat, h + k <= Height,
         NEW e, IsTree(e, h), NEW env, \A m \in VarNames(e) : IsTree(env[m], k)
  PROVE  Fits(e, env)
<1>0. Height \in Nat /\ h \in 0..Height /\ k \in 0..Height /\ Height \in 0..Height /\ h <= Height
      /\ h + k \in 0..Height
  BY ExpressionAssumption
<1>1. IsTree(e, Height) /\ Low(e, h) /\ Low(e, Height)
  BY <1>0, LowerTree DEF IsTree, Low
<1> DEFINE S == {t \in Subtrees(e) : Low(t, h)}
<1>2. ASSUME NEW t \in S PROVE Children(t) \subseteq S
  <2> SUFFICES ASSUME NEW c \in Children(t) PROVE c \in S
    OBVIOUS
  <2>1. h - 1 \in 0..Height /\ Low(c, h - 1) /\ h - 1 <= h
    BY <1>0, LowChildren
  <2> QED
    BY <1>0, <1>1, <2>1, LowerIsLow, SubtreesClosed
<1>3. Subtrees(e) \subseteq S
  <2>1. e \in S
    BY <1>1, SubtreesClosed
  <2> HIDE DEF S
  <2> QED
    BY <1>2, <2>1, SubtreesLeast
<1>4. ASSUME NEW t \in Subtrees(e) PROVE IsTree(Replaced(t, env), Height)
  <2>1. IsTree(t, h) /\ VarNames(t) \subseteq VarNames(e)
    BY <1>1, <1>3, TreeParts, VarNamesNested DEF IsTree, Low
  <2>2. IsTree(Replaced(t, env), h + k)
    BY <2>1, ReplacedIsTree
  <2> QED
    BY <1>0, <2>2, LowerTree
<1> QED
  BY <1>1, <1>4 DEF Fits

\* A node of the numeric backend with the values of its args.
LEMMA NumericNodeReads ==
  ASSUME NEW e, IsNode(e), e[1] \notin {"var", "lit"}, NEW r, r[1] = e[1],
         NEW f, NEW g, \A i \in 1..Arity(e[1]) : f[e[i + 1]] = g[r[i + 1]], NEW env, NEW env2
  PROVE  NumericNode(e, f, env) = NumericNode(r, g, env2)
<1>1. /\ f[e[1 + 1]] = g[r[1 + 1]]
      /\ e[1] \in Comparison \cup Arithmetic \cup {"where"} => f[e[2 + 1]] = g[r[2 + 1]]
      /\ e[1] = "where" => f[e[3 + 1]] = g[r[3 + 1]]
  BY Arities
<1>2. CASE e[1] \in Unary
  <2>1. e[1] \notin {"var", "lit", "where"} /\ e[1] \notin Comparison /\ e[1] \notin Arithmetic
    BY <1>2 DEF Unary, Comparison, Arithmetic
  <2> QED
    BY <1>1, <1>2, <2>1 DEF NumericNode
<1>3. CASE e[1] \in Comparison \cup Arithmetic
  <2>1. e[1] \notin {"var", "lit", "where", "normal_cdf"} /\ e[1] \notin Unary
    BY <1>3 DEF Unary, Comparison, Arithmetic
  <2> QED
    BY <1>1, <1>3, <2>1 DEF NumericNode
<1>4. CASE e[1] = "where"
  BY <1>1, <1>4 DEF NumericNode, Unary, Comparison, Arithmetic
<1> QED
  BY <1>2, <1>3, <1>4, Arities

\* The value of a replaced tree is the value over the replaced variables.
LEMMA ReplacedValue ==
  ASSUME NEW e, NEW env, Fits(e, env), NEW row, NEW val,
         \A m \in VarNames(e) : Numeric(env[m], row) = val[m]
  PROVE  \A t \in Subtrees(e) : Numeric(Replaced(t, env), row) = Numeric(t, val)
<1> DEFINE Q == {t \in Subtrees(e) : Numeric(Replaced(t, env), row) = Numeric(t, val)}
<1>1. IsTree(e, Height) /\ Low(e, Height)
  BY DEF IsTree, Low, Fits
<1>2. ASSUME NEW t \in Subtrees(e), Children(t) \subseteq Q
      PROVE  Numeric(Replaced(t, env), row) = Numeric(t, val)
  <2> DEFINE r == Replaced(t, env)
             f == [c \in Children(t) |-> Numeric(c, val)]
             g == [c \in Children(r) |-> Numeric(c, row)]
  <2>1. IsTree(t, Height) /\ IsNode(t) /\ IsTree(r, Height)
    BY <1>1, TreeParts DEF Fits
  <2>2. Numeric(t, val) = NumericNode(t, f, val) /\ Numeric(r, row) = NumericNode(r, g, row)
    BY <2>1, NumericUnfolds
  <2>3. CASE t[1] = "var"
    <3>1. t[2] \in VarNames(e) /\ r = env[t[2]]
      BY <2>1, <2>3, ReplacedLeaf DEF VarNames
    <3>2. Numeric(t, val) = val[t[2]]
      BY <2>2, <2>3 DEF NumericNode, Unary, Comparison, Arithmetic
    <3> QED
      BY <3>1, <3>2
  <2>4. CASE t[1] = "lit"
    <3>1. r = t
      BY <2>1, <2>4, ReplacedLeaf
    <3> HIDE DEF f, g, r
    <3>2. NumericNode(t, f, val) = Number(t[2]) /\ NumericNode(t, g, row) = Number(t[2])
      BY <2>4 DEF NumericNode, Unary, Comparison, Arithmetic
    <3> QED
      BY <2>2, <3>1, <3>2 DEF r
  <2>5. CASE t[1] \notin {"var", "lit"}
    <3>1. /\ r[1] = t[1] /\ \A i \in 1..Arity(t[1]) : r[i + 1] = Replaced(t[i + 1], env)
          /\ Children(r) = {Replaced(c, env) : c \in Children(t)}
      BY <2>1, <2>5, ReplacedInner
    <3>2. \A i \in 1..Arity(t[1]) : t[i + 1] \in Children(t)
      BY <2>1, <2>5, ArgsAreChildren
    <3>3. \A i \in 1..Arity(t[1]) : r[i + 1] \in Children(r)
      BY <3>1, <3>2
    <3>4. \A i \in 1..Arity(t[1]) : f[t[i + 1]] = g[r[i + 1]]
      <4> SUFFICES ASSUME NEW i \in 1..Arity(t[1]) PROVE f[t[i + 1]] = g[r[i + 1]]
        OBVIOUS
      <4>1. t[i + 1] \in Q
        BY <1>2, <3>2
      <4>2. f[t[i + 1]] = Numeric(t[i + 1], val)
        BY <3>2
      <4>3. g[r[i + 1]] = Numeric(r[i + 1], row)
        BY <3>3
      <4> QED
        BY <3>1, <4>1, <4>2, <4>3
    <3> HIDE DEF f, g, r
    <3>5. NumericNode(t, f, val) = NumericNode(r, g, row)
      BY <2>1, <2>5, <3>1, <3>4, NumericNodeReads
    <3> QED
      BY <2>2, <3>5 DEF r
  <2> QED
    BY <2>3, <2>4, <2>5
<1>3. \A t \in Subtrees(e) : Children(t) \subseteq Q => t \in Q
  BY <1>2
<1>4. Subtrees(e) \subseteq Q
  <2> HIDE DEF Q
  <2> QED
    BY <1>1, <1>3, TreeInduction
<1> QED
  BY <1>4

\* What is compared in a tree is compared in the tree it is replaced by.
LEMMA ReplacedComparesNaN ==
  ASSUME NEW e, NEW env, Fits(e, env), NEW row, NEW val,
         \A m \in VarNames(e) : Numeric(env[m], row) = val[m],
         ~ComparesNaN(Replaced(e, env), row)
  PROVE  ~ComparesNaN(e, val) /\ \A m \in VarNames(e) : ~ComparesNaN(env[m], row)
<1>1. IsTree(e, Height) /\ Low(e, Height)
  BY DEF IsTree, Low, Fits
<1> DEFINE w == Replaced(e, env)
           S == {t \in Subtrees(e) : Replaced(t, env) \in Subtrees(w)}
<1>2. IsTree(w, Height) /\ Low(w, Height)
  BY <1>1, SubtreesClosed DEF IsTree, Low, Fits
<1>3. ASSUME NEW t \in S, NEW c \in Children(t) PROVE c \in S
  <2>1. t[1] \notin {"var", "lit"}
    BY <1>3 DEF Children
  <2>2. IsTree(t, Height)
    BY <1>1, TreeParts
  <2>3. Replaced(c, env) \in Children(Replaced(t, env))
    BY <2>1, <2>2, ReplacedInner
  <2> HIDE DEF w
  <2>4. Replaced(c, env) \in Subtrees(w)
    BY <1>2, <2>3, SubtreesClosed
  <2> QED
    BY <1>1, <2>4, SubtreesClosed
<1>4. Subtrees(e) \subseteq S
  <2>1. e \in S
    BY <1>1, <1>2, SubtreesClosed
  <2> HIDE DEF S
  <2> QED
    BY <1>3, <2>1, SubtreesLeast
<1>5. ASSUME NEW t \in Subtrees(e) PROVE Subtrees(Replaced(t, env)) \subseteq Subtrees(w)
  <2> HIDE DEF w
  <2> QED
    BY <1>2, <1>4, SubtreesNested
<1>6. ASSUME NEW m \in VarNames(e) PROVE ~ComparesNaN(env[m], row)
  <2>1. PICK t \in Subtrees(e) : t[1] = "var" /\ t[2] = m
    BY DEF VarNames
  <2>2. Replaced(t, env) = env[m]
    BY <1>1, <2>1, TreeParts, ReplacedLeaf
  <2> QED
    BY <1>5, <2>2 DEF ComparesNaN
<1>7. ASSUME NEW t \in Subtrees(e), t[1] \in Comparison, NEW i \in {2, 3}
      PROVE  IsNumber(Numeric(t[i], val))
  <2> DEFINE r == Replaced(t, env)
  <2>1. IsTree(t, Height) /\ IsNode(t) /\ t[1] \notin {"var", "lit"}
    BY <1>1, <1>7, TreeParts DEF Comparison
  <2>2. 1 \in 1..Arity(t[1]) /\ 2 \in 1..Arity(t[1]) /\ (i = 1 + 1 \/ i = 2 + 1)
    BY <1>7, <2>1, Arities
  <2>3. r[i] = Replaced(t[i], env) /\ t[i] \in Children(t) /\ r[1] = t[1]
    <3>1. r[1] = t[1] /\ \A j \in 1..Arity(t[1]) : r[j + 1] = Replaced(t[j + 1], env)
      BY <2>1, ReplacedInner
    <3>2. \A j \in 1..Arity(t[1]) : t[j + 1] \in Children(t)
      BY <2>1, ArgsAreChildren
    <3> HIDE DEF r
    <3>3. CASE i = 1 + 1
      BY <2>2, <3>1, <3>2, <3>3
    <3>4. CASE i = 2 + 1
      BY <2>2, <3>1, <3>2, <3>4
    <3> QED
      BY <2>2, <3>1, <3>3, <3>4
  <2>4. r \in Subtrees(w)
    BY <1>4
  <2>5. IsNumber(Numeric(r[i], row))
    BY <1>7, <2>3, <2>4 DEF ComparesNaN
  <2>6. t[i] \in Subtrees(e)
    BY <1>1, <2>3, SubtreesClosed
  <2>7. Numeric(Replaced(t[i], env), row) = Numeric(t[i], val)
    BY <2>6, ReplacedValue
  <2> QED
    BY <2>3, <2>5, <2>7
<1> QED
  BY <1>6, <1>7 DEF ComparesNaN

\* A tree computes from its variables alone.
LEMMA NumericReadsVars ==
  ASSUME NEW e, IsTree(e, Height), NEW env, NEW row, \A m \in VarNames(e) : env[m] = row[m]
  PROVE  \A t \in Subtrees(e) : Numeric(t, env) = Numeric(t, row)
<1> DEFINE Q == {t \in Subtrees(e) : Numeric(t, env) = Numeric(t, row)}
<1>1. Low(e, Height)
  BY DEF IsTree, Low
<1>2. ASSUME NEW t \in Subtrees(e), Children(t) \subseteq Q
      PROVE  Numeric(t, env) = Numeric(t, row)
  <2> DEFINE f == [c \in Children(t) |-> Numeric(c, env)]
             g == [c \in Children(t) |-> Numeric(c, row)]
  <2>1. IsTree(t, Height) /\ IsNode(t)
    BY TreeParts
  <2>2. Numeric(t, env) = NumericNode(t, f, env) /\ Numeric(t, row) = NumericNode(t, g, row)
    BY <2>1, NumericUnfolds
  <2>3. CASE t[1] = "var"
    <3>1. t[2] \in VarNames(e)
      BY <2>3 DEF VarNames
    <3>2. Numeric(t, env) = env[t[2]] /\ Numeric(t, row) = row[t[2]]
      BY <2>2, <2>3 DEF NumericNode, Unary, Comparison, Arithmetic
    <3> QED
      BY <3>1, <3>2
  <2>4. CASE t[1] = "lit"
    BY <2>2, <2>4 DEF NumericNode, Unary, Comparison, Arithmetic
  <2>5. CASE t[1] \notin {"var", "lit"}
    <3>1. \A i \in 1..Arity(t[1]) : t[i + 1] \in Children(t)
      BY <2>1, <2>5, ArgsAreChildren
    <3>2. f = g
      BY <1>2
    <3> HIDE DEF f, g
    <3>3. NumericNode(t, f, env) = NumericNode(t, g, row)
      BY <2>1, <2>5, <3>2, NumericNodeReads
    <3> QED
      BY <2>2, <3>3
  <2> QED
    BY <2>3, <2>4, <2>5
<1>3. \A t \in Subtrees(e) : Children(t) \subseteq Q => t \in Q
  BY <1>2
<1>4. Subtrees(e) \subseteq Q
  <2> HIDE DEF Q
  <2> QED
    BY <1>1, <1>3, TreeInduction
<1> QED
  BY <1>4
-----------------------------------------------------------------------------
(* The facade drives its graph.  What it keeps beside the graph matches it:   *)
(* every term has its tree, and every view asks for what its columns map to.  *)
ViewMapped(v) ==
  /\ schema[v] \in OutputSchema /\ DOMAIN mapping[v] = schema[v]
  /\ views[v] = {mapping[v][c] : c \in schema[v]}

Facade ==
  /\ DOMAIN body = DOMAIN terms
  /\ \A t \in DOMAIN body : body[t] \in Trees /\ IterVars(body[t]) = terms[t]
  /\ DOMAIN mapping = DOMAIN views /\ DOMAIN schema = DOMAIN views
  /\ output \in OutputSchema \cup {NoSchema}
  /\ IsFiniteSet(DOMAIN terms) /\ Cardinality(DOMAIN terms) <= MaxTerms
  /\ \A v \in DOMAIN views : ViewMapped(v)

\* A registration of the facade is one of its graph.
LEMMA DeclareIsNext ==
  ASSUME NEW name \in Name, NEW tree \in Trees, Declare(name, tree)
  PROVE  Next /\ Register(name, IterVars(tree))
BY PricingFormulaAssumption DEF Declare, Next, Let, Formula

LEMMA CompletedFacts ==
  ASSUME NEW columns, NEW map
  PROVE  /\ DOMAIN Completed(columns, map) = columns
         /\ map = [c \in columns \ DOMAIN terms |-> c] =>
              Completed(columns, map) = Completed(columns, NoMapping)
<1>1. \A c \in columns :
        map = [d \in columns \ DOMAIN terms |-> d] =>
          (IF c \in DOMAIN map THEN map[c] ELSE c) = c
  OBVIOUS
<1>2. \A c \in columns : (IF c \in DOMAIN NoMapping THEN NoMapping[c] ELSE c) = c
  BY DEF NoMapping
<1> QED
  BY <1>1, <1>2 DEF Completed

\* A mapping of the caller, or the columns that are no terms as they are.
Asked(columns, map) ==
  \/ map \in Mappings /\ DOMAIN map \subseteq columns
  \/ map = [c \in columns \ DOMAIN terms |-> c]

\* What is published is a set of names that views are asked of.
LEMMA PublishIsNext ==
  ASSUME NEW view \in View, NEW columns \in OutputSchema, NEW map, Publish(view, columns, map),
         Asked(columns, map), NEW full, full = Completed(columns, map),
         NEW asks, asks = {full[c] : c \in columns}
  PROVE  Next /\ Returns(view, asks) /\ DOMAIN full = columns
<1>1. DOMAIN full = columns
  BY CompletedFacts
<1>2. asks \in ViewTerms
  <2>0. ASSUME NEW m \in Mappings \cup {NoMapping}, DOMAIN m \subseteq columns,
               full = Completed(columns, m)
        PROVE  asks \in ViewTerms
    <3>1. asks = {m[c] : c \in DOMAIN m} \cup (columns \ DOMAIN m)
      BY <2>0 DEF Completed
    <3> QED
      BY <2>0, <3>1, ViewTermsAssumption
  <2>1. CASE map \in Mappings /\ DOMAIN map \subseteq columns
    BY <2>0, <2>1
  <2>2. CASE map = [c \in columns \ DOMAIN terms |-> c]
    <3>1. full = Completed(columns, NoMapping)
      BY <2>2, CompletedFacts
    <3>2. DOMAIN NoMapping \subseteq columns
      BY DEF NoMapping
    <3> QED
      BY <2>0, <3>1, <3>2
  <2> QED
    BY <2>1, <2>2 DEF Asked
<1>3. Returns(view, asks)
  BY <1>1 DEF Publish
<1> QED
  BY <1>1, <1>2, <1>3 DEF Next

\* The two things a step of the facade does to its graph, and nothing else.
Published(view, columns, map) ==
  /\ Publish(view, columns, map) /\ output' \in {output, columns}
  /\ Asked(columns, map)
Rejected ==
  UNCHANGED <<vars, body, mapping, schema>> /\ output' \in OutputSchema \cup {output}

LEMMA FacadeSteps ==
  ASSUME output \in OutputSchema \cup {NoSchema}, FormulaNext
  PROVE  \/ \E name \in Name, tree \in Trees : Declare(name, tree)
         \/ \E view \in View, columns \in OutputSchema : \E map : Published(view, columns, map)
         \/ Rejected
<1>1. CASE \E name \in Name, tree \in Trees : Declare(name, tree)
  BY <1>1
<1>2. ASSUME NEW view \in View, NEW columns \in OutputSchema, PublishView(view, columns)
      PROVE  Published(view, columns, [c \in columns \ DOMAIN terms |-> c])
  BY <1>2 DEF PublishView, Published, Asked
<1>3. ASSUME NEW asked \in OutputSchema \cup {NoSchema}, Given(asked) # NoSchema
      PROVE  Given(asked) \in OutputSchema
  BY <1>3 DEF Given
<1>4. ASSUME NEW view \in View, NEW asked \in OutputSchema \cup {NoSchema}, NEW map \in Mappings,
             ReturnsView(view, asked, map)
      PROVE  \E m : Published(view, Given(asked), m)
  <2> DEFINE m == IF map = NoMapping THEN [c \in Given(asked) \ DOMAIN terms |-> c] ELSE map
  <2>1. Publish(view, Given(asked), m) /\ output' = Given(asked) /\ DOMAIN map \subseteq Given(asked)
    BY <1>4 DEF ReturnsView
  <2>2. Published(view, Given(asked), m)
    BY <2>1 DEF Published, Asked
  <2> QED
    BY <2>2
<1>5. ASSUME NEW asked \in OutputSchema \cup {NoSchema}, ReturnsOutput(asked)
      PROVE  Published("output", Given(asked), [c \in Given(asked) \ DOMAIN terms |-> c])
  BY <1>5 DEF ReturnsOutput, Published, Asked
<1>6. ASSUME NEW asked \in OutputSchema \cup {NoSchema}, NEW map \in Mappings,
             ReturnsRejected(asked, map)
      PROVE  Rejected
  BY <1>3, <1>6 DEF ReturnsRejected, Rejected
<1>7. CASE \E view \in View, columns \in OutputSchema : PublishView(view, columns)
  BY <1>2, <1>7
<1>8. CASE \E view \in View, asked \in OutputSchema \cup {NoSchema}, map \in Mappings :
             ReturnsView(view, asked, map)
  <2>1. PICK view \in View, asked \in OutputSchema \cup {NoSchema}, map \in Mappings :
             ReturnsView(view, asked, map)
    BY <1>8
  <2>2. Given(asked) \in OutputSchema
    BY <1>3, <2>1 DEF ReturnsView
  <2> QED
    BY <1>4, <2>1, <2>2
<1>9. CASE \E asked \in OutputSchema \cup {NoSchema} : ReturnsOutput(asked)
  <2>1. PICK asked \in OutputSchema \cup {NoSchema} : ReturnsOutput(asked)
    BY <1>9
  <2>2. Given(asked) \in OutputSchema /\ "output" \in View
    BY <1>3, <2>1, PricingFormulaAssumption DEF ReturnsOutput
  <2> QED
    BY <1>5, <2>1, <2>2
<1> QED
  BY <1>1, <1>6, <1>7, <1>8, <1>9 DEF FormulaNext

LEMMA DeclareStep ==
  ASSUME Facade, NEW name \in Name, NEW tree \in Trees, Declare(name, tree)
  PROVE  Facade'
<1>1. /\ name \notin DOMAIN terms /\ Cardinality(DOMAIN terms) < MaxTerms
      /\ terms' = [t \in DOMAIN terms \cup {name} |-> IF t = name THEN IterVars(tree) ELSE terms[t]]
      /\ views' = views
  BY DeclareIsNext DEF Register
<1>2. /\ body' = [t \in DOMAIN body \cup {name} |-> IF t = name THEN tree ELSE body[t]]
      /\ mapping' = mapping /\ schema' = schema /\ output' = output
  BY DEF Declare
<1>3. IsFiniteSet(DOMAIN terms') /\ Cardinality(DOMAIN terms') <= MaxTerms
  <2>1. IsFiniteSet(DOMAIN terms) /\ DOMAIN terms' = DOMAIN terms \cup {name}
    BY <1>1 DEF Facade
  <2>2. /\ IsFiniteSet(DOMAIN terms') /\ Cardinality(DOMAIN terms') = Cardinality(DOMAIN terms) + 1
        /\ Cardinality(DOMAIN terms) \in Nat
    BY <1>1, <2>1, FS_AddElement, FS_CardinalityType
  <2> QED
    BY <1>1, <2>2, FormulaAssumption
<1>4. \A v \in DOMAIN views : ViewMapped(v)'
  BY <1>1, <1>2 DEF Facade, ViewMapped
<1>5. DOMAIN body' = DOMAIN terms'
  BY <1>1, <1>2 DEF Facade
<1>6. ASSUME NEW t \in DOMAIN body' PROVE body'[t] \in Trees /\ IterVars(body'[t]) = terms'[t]
  BY <1>1, <1>2, <1>6 DEF Facade
<1> QED
  BY <1>1, <1>2, <1>3, <1>4, <1>5, <1>6 DEF Facade

LEMMA PublishStep ==
  ASSUME Facade, NEW view \in View, NEW columns \in OutputSchema, NEW map,
         Published(view, columns, map)
  PROVE  Facade'
<1> DEFINE full == Completed(columns, map)
           asks == {full[c] : c \in columns}
<1>0. /\ Publish(view, columns, map) /\ Asked(columns, map)
      /\ full = Completed(columns, map) /\ asks = {full[c] : c \in columns}
  BY DEF Published
<1> HIDE DEF full, asks
<1>1. Returns(view, asks) /\ DOMAIN full = columns
  BY <1>0, PublishIsNext
<1>2. /\ mapping' = [v \in DOMAIN mapping \cup {view} |-> IF v = view THEN full ELSE mapping[v]]
      /\ schema' = [v \in DOMAIN schema \cup {view} |-> IF v = view THEN columns ELSE schema[v]]
      /\ body' = body
  BY <1>0 DEF Publish
<1>3. /\ terms' = terms
      /\ views' = [v \in DOMAIN views \cup {view} |->
                     IF v = view THEN asks ELSE views[v]]
  BY <1>1 DEF Returns
<1>4. ASSUME NEW v \in DOMAIN views' PROVE ViewMapped(v)'
  <2>1. CASE v = view
    BY <1>0, <1>1, <1>2, <1>3, <2>1 DEF ViewMapped
  <2>2. CASE v # view
    BY <1>2, <1>3, <2>2 DEF Facade, ViewMapped
  <2> QED
    BY <2>1, <2>2
<1>5. output' \in OutputSchema \cup {NoSchema}
  BY DEF Published, Facade
<1> QED
  BY <1>2, <1>3, <1>4, <1>5 DEF Facade

\* The facade implements its graph: what its calls do to the graph, calls of
\* let, formula and returns do, and a rejected call does nothing to it.
LEMMA FacadeInvariance == FormulaSpec => Spec /\ []Facade
<1>1. FormulaInit => Init /\ Facade
  <2> SUFFICES ASSUME FormulaInit PROVE Facade
    BY DEF FormulaInit
  <2>1. /\ DOMAIN terms = {} /\ DOMAIN body = {} /\ DOMAIN views = {}
        /\ DOMAIN mapping = {} /\ DOMAIN schema = {} /\ output \in OutputSchema \cup {NoSchema}
    BY DEF FormulaInit, Init
  <2> QED
    BY <2>1, FS_EmptySet, FormulaAssumption DEF Facade
<1>2. Facade /\ [FormulaNext]_formulaVars => [Next]_vars /\ Facade'
  <2> SUFFICES ASSUME Facade, [FormulaNext]_formulaVars PROVE [Next]_vars /\ Facade'
    OBVIOUS
  <2>0. output \in OutputSchema \cup {NoSchema}
    BY DEF Facade
  <2>1. CASE UNCHANGED formulaVars
    BY <2>1 DEF formulaVars, vars, Facade, ViewMapped
  <2>2. CASE Rejected
    <3>1. /\ UNCHANGED vars /\ UNCHANGED <<body, mapping, schema>>
          /\ terms' = terms /\ views' = views /\ output' \in OutputSchema \cup {output}
      BY <2>2 DEF Rejected, vars
    <3> QED
      BY <2>0, <3>1 DEF Facade, ViewMapped
  <2>3. ASSUME NEW name \in Name, NEW tree \in Trees, Declare(name, tree)
        PROVE  Next /\ Facade'
    BY <2>3, DeclareIsNext, DeclareStep
  <2>4. ASSUME NEW view \in View, NEW columns \in OutputSchema, NEW map,
               Published(view, columns, map)
        PROVE  Next /\ Facade'
    <3> DEFINE full == Completed(columns, map)
               asks == {full[c] : c \in columns}
    <3>1. /\ Publish(view, columns, map) /\ Asked(columns, map)
          /\ full = Completed(columns, map) /\ asks = {full[c] : c \in columns}
      BY <2>4 DEF Published
    <3> HIDE DEF full, asks
    <3>2. Next
      BY <2>4, <3>1, PublishIsNext DEF Published
    <3> QED
      BY <2>4, <3>2, PublishStep
  <2> QED
    BY <2>0, <2>1, <2>2, <2>3, <2>4, FacadeSteps
<1> QED
  BY <1>1, <1>2, PTL DEF FormulaSpec, Spec

\* Type correctness of the facade's registries.
THEOREM FormulaTypeCorrect == FormulaSpec => []FormulaTypeOK
<1>1. TypeOK /\ Facade => FormulaTypeOK
  BY DEF Facade, FormulaTypeOK
<1> QED
  BY <1>1, FacadeInvariance, TypeCorrect, PTL

\* The facade drives its graph by the graph's own steps.
THEOREM FormulaImplementsGraph == FormulaSpec => Spec
BY FacadeInvariance, PTL

\* What is proved of the graph holds of a Formula whatever its facade does.
THEOREM FormulaKeepsGraph ==
  FormulaSpec =>
    /\ [](Acyclic /\ RaisesOnlyOnCycle /\ MaterializedIsInlined /\ ResolutionKept)
    /\ MeaningKept
BY FormulaImplementsGraph, DeclaredIsAcyclic, CyclesAreRefused,
   MaterializedMeansInlined, ResolutionAlwaysKept, MeaningAlwaysKept, PTL

-----------------------------------------------------------------------------
(* Inlining trees.  T and B are the terms and their trees; an environment has *)
(* what _inline returns for every name while stack is being inlined.          *)
SubstEnv(T, B, f, stack) ==
  [n \in Name |-> IF n \notin DOMAIN T \/ n \in stack THEN <<"var", n>>
                  ELSE Replaced(B[n], f[stack \cup {n}])]
IsSubst(T, B, f) == f = [stack \in SUBSET Name |-> SubstEnv(T, B, f, stack)]
Subst(T, B) == CHOOSE f : IsSubst(T, B, f)
SubstUpTo(T, B, f, k) ==
  \A stack \in SUBSET Name :
    Cardinality(DOMAIN T \ stack) <= k => f[stack] = SubstEnv(T, B, f, stack)

LEMMA SubstReads ==
  ASSUME NEW T, NEW B, NEW f, NEW g, NEW stack,
         \A n \in DOMAIN T \ stack : f[stack \cup {n}] = g[stack \cup {n}]
  PROVE  SubstEnv(T, B, f, stack) = SubstEnv(T, B, g, stack)
BY DEF SubstEnv

LEMMA OneMoreCall ==
  ASSUME NEW D, IsFiniteSet(D), NEW stack, NEW n \in D \ stack, NEW more, more = stack \cup {n}
  PROVE  /\ Cardinality(D \ stack) = Cardinality(D \ more) + 1
         /\ Cardinality(D \ more) \in Nat
<1>1. \A m \in D \ stack : Cardinality(D \ stack) = Cardinality(D \ (stack \cup {m})) + 1
  BY Shrinks
<1>2. Cardinality(D \ stack) = Cardinality(D \ (stack \cup {n})) + 1
  BY <1>1, Zenon
<1>3. Cardinality(D \ (stack \cup {n})) \in Nat
  BY Shrinks
<1> QED
  BY <1>2, <1>3, Zenon

LEMMA SubstIs ==
  ASSUME NEW T, IsTerms(T), NEW B
  PROVE  IsSubst(T, B, Subst(T, B))
<1> DEFINE N == {k \in Nat : \E f : SubstUpTo(T, B, f, k)}
           Once(f) == [stack \in SUBSET Name |-> SubstEnv(T, B, f, stack)]
           D == DOMAIN T
<1>1. ASSUME NEW f, NEW stack \in SUBSET Name
      PROVE  Once(f)[stack] = SubstEnv(T, B, f, stack)
  OBVIOUS
<1>2. IsFiniteSet(D) /\ D \subseteq Name
  BY DEF IsTerms
<1> HIDE DEF Once
\* One more call off the stack.
<1>3. ASSUME NEW f, NEW k \in Nat,
             \A stack \in SUBSET Name : Cardinality(D \ stack) < k => f[stack] = SubstEnv(T, B, f, stack)
      PROVE  SubstUpTo(T, B, Once(f), k)
  <2> SUFFICES ASSUME NEW stack \in SUBSET Name, Cardinality(D \ stack) <= k
               PROVE  Once(f)[stack] = SubstEnv(T, B, Once(f), stack)
    BY DEF SubstUpTo
  <2>1. ASSUME NEW n \in D \ stack PROVE Once(f)[stack \cup {n}] = f[stack \cup {n}]
    <3> DEFINE more == stack \cup {n}
    <3>1. more \in SUBSET Name
      BY <1>2
    <3>2. /\ Cardinality(D \ stack) = Cardinality(D \ more) + 1
          /\ Cardinality(D \ more) \in Nat
      <4>1. n \in D \ stack /\ IsFiniteSet(D)
        BY <1>2, <2>1
      <4> HIDE DEF D
      <4> QED
        BY <4>1, OneMoreCall
    <3> HIDE DEF more, D
    <3>3. Cardinality(D \ more) < k
      BY <3>2
    <3> QED
      BY <1>1, <1>3, <3>1, <3>3 DEF more
  <2>2. SubstEnv(T, B, Once(f), stack) = SubstEnv(T, B, f, stack)
    BY <2>1, SubstReads
  <2> QED
    BY <1>1, <2>2
<1>4. 0 \in N
  <2>1. \A stack : Cardinality(D \ stack) \in Nat
    BY <1>2, Shrinks
  <2> HIDE DEF D
  <2>2. SubstUpTo(T, B, Once(0), 0)
    BY <1>3, <2>1
  <2> QED
    BY <2>2
<1>5. ASSUME NEW k \in N PROVE k + 1 \in N
  <2>1. PICK f : SubstUpTo(T, B, f, k)
    OBVIOUS
  <2>2. \A stack : Cardinality(D \ stack) \in Nat
    BY <1>2, Shrinks
  <2>3. ASSUME NEW stack \in SUBSET Name, Cardinality(D \ stack) < k + 1
        PROVE  f[stack] = SubstEnv(T, B, f, stack)
    <3>1. Cardinality(D \ stack) <= k
      <4> DEFINE c == Cardinality(D \ stack)
      <4>1. c \in Nat /\ k \in Nat /\ c < k + 1
        BY <2>2, <2>3
      <4> HIDE DEF c
      <4> QED
        BY <4>1 DEF c
    <3> QED
      BY <2>1, <3>1 DEF SubstUpTo
  <2> HIDE DEF D
  <2> DEFINE j == k + 1
  <2>4. j \in Nat /\ \A stack \in SUBSET Name : Cardinality(D \ stack) < j => f[stack] = SubstEnv(T, B, f, stack)
    BY <2>3
  <2> HIDE DEF j
  <2>5. SubstUpTo(T, B, Once(f), j)
    BY <1>3, <2>4
  <2> QED
    BY <2>4, <2>5 DEF j
<1>6. N = Nat
  <2> HIDE DEF N
  <2>1. N \subseteq Nat
    BY DEF N
  <2> QED
    BY <1>4, <1>5, <2>1, Induction
<1>7. Cardinality(D) \in N /\ \A stack : Cardinality(D \ stack) <= Cardinality(D)
  <2> HIDE DEF N
  <2> QED
    BY <1>2, <1>6, Shrinks
<1>8. PICK f : SubstUpTo(T, B, f, Cardinality(D))
  BY <1>7
<1>9. \A stack \in SUBSET Name : f[stack] = SubstEnv(T, B, f, stack)
  BY <1>7, <1>8 DEF SubstUpTo
<1> HIDE DEF N, D
<1>10. IsSubst(T, B, Once(f))
  <2> DEFINE h == Once(f)
  <2>1. ASSUME NEW stack \in SUBSET Name PROVE SubstEnv(T, B, h, stack) = SubstEnv(T, B, f, stack)
    <3>1. ASSUME NEW n \in DOMAIN T \ stack PROVE h[stack \cup {n}] = f[stack \cup {n}]
      <4>1. stack \cup {n} \in SUBSET Name
        BY <1>2 DEF D
      <4> QED
        BY <1>1, <1>9, <4>1
    <3> HIDE DEF h
    <3> QED
      BY <3>1, SubstReads
  <2>2. h = [stack \in SUBSET Name |-> SubstEnv(T, B, f, stack)]
    BY DEF Once
  <2> HIDE DEF h
  <2>3. h = [stack \in SUBSET Name |-> SubstEnv(T, B, h, stack)]
    BY <2>1, <2>2
  <2> QED
    BY <2>3 DEF IsSubst, h
<1> QED
  BY <1>10 DEF Subst

\* What is left where nothing is inlined.
Variable(n) == <<"var", n>>

\* What inlining returns for a name, call by call.
LEMMA SubstLeaf ==
  ASSUME NEW T, IsTerms(T), NEW B, NEW stack \in SUBSET Name, NEW n \in Name,
         n \notin DOMAIN T \/ n \in stack
  PROVE  Subst(T, B)[stack][n] = Variable(n)
<1>1. Subst(T, B)[stack] = SubstEnv(T, B, Subst(T, B), stack)
  BY SubstIs DEF IsSubst
<1> QED
  BY <1>1 DEF SubstEnv, Variable

LEMMA SubstTerm ==
  ASSUME NEW T, IsTerms(T), NEW B, NEW stack \in SUBSET Name, NEW n \in Name,
         n \in DOMAIN T, n \notin stack
  PROVE  Subst(T, B)[stack][n] = Replaced(B[n], Subst(T, B)[stack \cup {n}])
<1>1. Subst(T, B)[stack] = SubstEnv(T, B, Subst(T, B), stack)
  BY SubstIs DEF IsSubst
<1> QED
  BY <1>1 DEF SubstEnv

LEMMA SubstitutedIsSubst ==
  ASSUME NEW e
  PROVE  Substituted(e) = Replaced(e, Subst(terms, body)[{}])
BY DEF Substituted, Subst, IsSubst, SubstEnv

\* The trees of a graph with no more than MaxTerms terms, each h levels deep.
Bodies(T, B, h) ==
  /\ h \in 0..Height /\ h * (MaxTerms + 1) <= Height
  /\ Cardinality(DOMAIN T) <= MaxTerms
  /\ \A t \in DOMAIN T : IsTree(B[t], h) /\ IterVars(B[t]) = T[t]

LEMMA VariableTree ==
  ASSUME NEW n, NEW k \in 0..Height
  PROVE  /\ IsTree(Variable(n), k) /\ VarNames(Variable(n)) = {n}
         /\ \A row : Numeric(Variable(n), row) = row[n]
         /\ \A env : Replaced(Variable(n), env) = env[n]
<1> DEFINE e == Variable(n)
<1>1. e[1] = "var" /\ e[2] = n /\ IsNode(e) /\ Height \in 0..Height
  BY ExpressionAssumption DEF IsNode, Variable
<1> HIDE DEF e
<1>2. IsTree(e, k) /\ IsTree(e, Height) /\ Subtrees(e) = {e}
  BY <1>1, LeafTree
<1>3. VarNames(e) = {n}
  BY <1>1, <1>2 DEF VarNames
<1>4. \A row : Numeric(e, row) = row[n]
  BY <1>1, <1>2, NumericUnfolds DEF NumericNode, Unary, Comparison, Arithmetic
<1>5. \A env : Replaced(e, env) = env[n]
  BY <1>1, <1>2, ReplacedLeaf
<1> QED
  BY <1>2, <1>3, <1>4, <1>5 DEF e

\* Inlining nests trees as deep as there are terms off the stack.
LEMMA SubstHeights ==
  ASSUME NEW T, IsTerms(T), NEW B, NEW h, Bodies(T, B, h), NEW k \in Nat, k <= MaxTerms
  PROVE  /\ h * k \in 0..Height
         /\ \A stack \in SUBSET Name, n \in Name : Cardinality(DOMAIN T \ stack) <= k =>
              IsTree(Subst(T, B)[stack][n], h * k)
<1> DEFINE D == DOMAIN T
           inlined == Subst(T, B)
           Deep(j) == \A stack \in SUBSET Name, n \in Name : Cardinality(D \ stack) <= j =>
                        IsTree(inlined[stack][n], h * j)
           N == {j \in Nat : j <= MaxTerms => Deep(j)}
<1>0. /\ Height \in Nat /\ h \in Nat /\ h <= Height /\ MaxTerms \in Nat
      /\ h * (MaxTerms + 1) <= Height
  BY ExpressionAssumption, FormulaAssumption DEF Bodies
<1>1. ASSUME NEW j \in Nat, j <= MaxTerms + 1 PROVE h * j \in 0..Height
  BY <1>0, <1>1
<1>2. IsFiniteSet(D) /\ D \subseteq Name
  BY DEF IsTerms
<1>3. ASSUME NEW n \in Name, NEW j \in 0..Height PROVE IsTree(Variable(n), j)
  BY VariableTree
<1>4. \A stack : Cardinality(D \ stack) \in Nat
  BY <1>2, Shrinks
<1>5. ASSUME NEW stack, NEW n \in D \ stack
      PROVE  Cardinality(D \ stack) = Cardinality(D \ (stack \cup {n})) + 1
  <2> HIDE DEF D
  <2> QED
    BY <1>2, Shrinks
<1>6. ASSUME NEW stack \in SUBSET Name, NEW n \in Name
      PROVE  /\ n \notin D \ stack => inlined[stack][n] = Variable(n)
             /\ n \in D \ stack => inlined[stack][n] = Replaced(B[n], inlined[stack \cup {n}])
  <2>1. CASE n \notin D \ stack
    BY <2>1, SubstLeaf
  <2>2. CASE n \in D \ stack
    BY <2>2, SubstTerm
  <2> QED
    BY <2>1, <2>2
<1> HIDE DEF inlined
<1>7. 0 \in N
  <2> SUFFICES ASSUME NEW stack \in SUBSET Name, NEW n \in Name, Cardinality(D \ stack) <= 0
               PROVE  IsTree(inlined[stack][n], h * 0)
    OBVIOUS
  <2>1. n \notin D \ stack
    <3> SUFFICES ASSUME n \in D \ stack PROVE FALSE
      OBVIOUS
    <3> DEFINE a == Cardinality(D \ stack)
               b == Cardinality(D \ (stack \cup {n}))
    <3>1. a = b + 1 /\ a <= 0 /\ b \in Nat
      BY <1>4, <1>5
    <3> HIDE DEF a, b
    <3> QED
      BY <3>1
  <2>2. inlined[stack][n] = Variable(n)
    BY <2>1, <1>6
  <2>3. h * 0 \in 0..Height
    BY <1>0
  <2> QED
    BY <1>3, <2>2, <2>3
<1>8. ASSUME NEW j \in N PROVE j + 1 \in N
  <2> SUFFICES ASSUME j + 1 <= MaxTerms, NEW stack \in SUBSET Name, NEW n \in Name,
                      Cardinality(D \ stack) <= j + 1
               PROVE  IsTree(inlined[stack][n], h * (j + 1))
    OBVIOUS
  <2> DEFINE p == h * j
  <2>1. p \in 0..Height /\ h * (j + 1) = h + p /\ h + p \in 0..Height /\ j <= MaxTerms
    <3>1. j \in Nat /\ j <= MaxTerms + 1 /\ j + 1 \in Nat /\ j + 1 <= MaxTerms + 1 /\ j <= MaxTerms
      BY <1>0
    <3>2. h * (j + 1) = h + h * j
      BY <1>0
    <3> QED
      BY <1>1, <3>1, <3>2
  <2>2. CASE n \notin D \ stack
    BY <1>3, <2>1, <2>2, <1>6
  <2>3. CASE n \in D \ stack
    <3> DEFINE env == inlined[stack \cup {n}]
    <3>1. inlined[stack][n] = Replaced(B[n], env)
      BY <2>3, <1>6
    <3>2. stack \cup {n} \in SUBSET Name /\ Cardinality(D \ (stack \cup {n})) <= j
      <4>1. Cardinality(D \ stack) = Cardinality(D \ (stack \cup {n})) + 1
        BY <1>5, <2>3
      <4>2. Cardinality(D \ (stack \cup {n})) \in Nat
        BY <1>4
      <4> QED
        BY <4>1, <4>2
    <3>3. IsTree(B[n], h)
      BY <2>3 DEF Bodies
    <3>4. VarNames(B[n]) \subseteq Name
      <4>1. Height \in 0..Height /\ h \in 0..Height
        BY <1>0
      <4>2. IsTree(B[n], Height)
        BY <1>0, <3>3, <4>1, LowerTree
      <4>3. IterVars(B[n]) = T[n] /\ T[n] \in Seq(Name)
        BY <2>3 DEF Bodies, IsTerms
      <4> QED
        BY <4>2, <4>3, IterVarsYieldsAll DEF ToSet
    <3>5. Deep(j)
      BY <2>1
    <3>6. \A m \in Name : IsTree(env[m], p)
      BY <3>2, <3>5
    <3> HIDE DEF env, p, Deep
    <3>7. IsTree(Replaced(B[n], env), h + p)
      BY <1>0, <2>1, <3>3, <3>4, <3>6, ReplacedIsTree
    <3> QED
      BY <2>1, <3>1, <3>7
  <2> QED
    BY <2>2, <2>3
<1>9. k \in N
  <2> HIDE DEF N
  <2>1. N \subseteq Nat
    BY DEF N
  <2> QED
    BY <1>7, <1>8, <2>1, Induction
<1> QED
  BY <1>0, <1>1, <1>9 DEF inlined

\* Every inlining fits the height of trees.
LEMMA SubstFits ==
  ASSUME NEW T, IsTerms(T), NEW B, NEW h, Bodies(T, B, h), NEW stack \in SUBSET Name,
         NEW e, IsTree(e, h), VarNames(e) \subseteq Name
  PROVE  Fits(e, Subst(T, B)[stack]) /\ IsTree(Replaced(e, Subst(T, B)[stack]), Height)
<1> DEFINE k == Cardinality(DOMAIN T)
           p == h * k
           env == Subst(T, B)[stack]
<1>0. Height \in Nat /\ h \in Nat /\ h <= Height /\ MaxTerms \in Nat /\ h * (MaxTerms + 1) <= Height
  BY ExpressionAssumption, FormulaAssumption DEF Bodies
<1>1. k \in Nat /\ k <= MaxTerms /\ Cardinality(DOMAIN T \ stack) <= k
  BY Shrinks DEF IsTerms, Bodies
<1>2. p \in 0..Height /\ \A m \in Name : IsTree(env[m], p)
  BY <1>1, SubstHeights
<1>3. h + p <= Height
  <2> HIDE DEF k
  <2>1. h + h * k = h * (k + 1) /\ h * (k + 1) <= h * (MaxTerms + 1)
    BY <1>0, <1>1
  <2> QED
    BY <1>0, <1>1, <2>1
<1> HIDE DEF env, p
<1>4. Fits(e, env)
  BY <1>0, <1>2, <1>3, LowReplacesFit
<1>5. e \in Subtrees(e)
  BY <1>4, SubtreesClosed DEF Fits, IsTree, Low
<1> QED
  BY <1>4, <1>5 DEF Fits, env

\* The facade's terms are such trees.
LEMMA FacadeBodies ==
  ASSUME IInv, Facade
  PROVE  /\ IsTerms(terms)
         /\ \E h \in 0..Height : Bodies(terms, body, h)
         /\ \A t \in DOMAIN terms : VarNames(body[t]) \subseteq ToSet(terms[t])
         /\ \A t \in DOMAIN terms : IsTree(body[t], Height)
<1>1. IsTerms(terms)
  BY TermsAreTerms
<1>2. PICK h \in 0..Height : h * (MaxTerms + 1) <= Height /\ \A e \in Trees : IsTree(e, h)
  BY PricingFormulaAssumption
<1>3. Bodies(terms, body, h)
  BY <1>2 DEF Bodies, Facade
<1>4. ASSUME NEW t \in DOMAIN terms
      PROVE  VarNames(body[t]) \subseteq ToSet(terms[t]) /\ IsTree(body[t], Height)
  <2>1. h <= Height /\ Height \in 0..Height
    BY ExpressionAssumption
  <2>2. IsTree(body[t], Height)
    BY <1>3, <2>1, LowerTree DEF Bodies
  <2> QED
    BY <2>2, IterVarsYieldsAll DEF Facade
<1> QED
  BY <1>1, <1>3, <1>4

\* A node of a compiled column with the values of its args.
LEMMA PolarsNodeReads ==
  ASSUME NEW e, IsNode(e), e[1] \notin {"var", "lit"}, NEW r, r[1] = e[1],
         NEW f, NEW g, \A i \in 1..Arity(e[1]) : f[e[i + 1]] = g[r[i + 1]], NEW env, NEW env2
  PROVE  PolarsNode(e, f, env) = PolarsNode(r, g, env2)
<1>1. /\ f[e[1 + 1]] = g[r[1 + 1]]
      /\ e[1] \in Comparison \cup Arithmetic \cup {"where"} => f[e[2 + 1]] = g[r[2 + 1]]
      /\ e[1] = "where" => f[e[3 + 1]] = g[r[3 + 1]]
  BY Arities
<1>2. CASE e[1] \in Unary
  <2>1. e[1] \notin {"var", "lit", "where"} /\ e[1] \notin Comparison /\ e[1] \notin Arithmetic
    BY <1>2 DEF Unary, Comparison, Arithmetic
  <2> QED
    BY <1>1, <1>2, <2>1 DEF PolarsNode
<1>3. CASE e[1] \in Comparison \cup Arithmetic
  <2>1. e[1] \notin {"var", "lit", "where", "normal_cdf"} /\ e[1] \notin Unary
    BY <1>3 DEF Unary, Comparison, Arithmetic
  <2> QED
    BY <1>1, <1>3, <2>1 DEF PolarsNode
<1>4. CASE e[1] = "where"
  BY <1>1, <1>4 DEF PolarsNode, Unary, Comparison, Arithmetic
<1> QED
  BY <1>2, <1>3, <1>4, Arities

\* A compiled tree computes from its variables alone.
LEMMA PolarsReadsVars ==
  ASSUME NEW e, IsTree(e, Height), NEW env, NEW row, \A m \in VarNames(e) : env[m] = row[m]
  PROVE  \A t \in Subtrees(e) : Polars(t, env) = Polars(t, row)
<1> DEFINE Q == {t \in Subtrees(e) : Polars(t, env) = Polars(t, row)}
<1>1. Low(e, Height)
  BY DEF IsTree, Low
<1>2. ASSUME NEW t \in Subtrees(e), Children(t) \subseteq Q
      PROVE  Polars(t, env) = Polars(t, row)
  <2> DEFINE f == [c \in Children(t) |-> Polars(c, env)]
             g == [c \in Children(t) |-> Polars(c, row)]
  <2>1. IsTree(t, Height) /\ IsNode(t)
    BY TreeParts
  <2>2. Polars(t, env) = PolarsNode(t, f, env) /\ Polars(t, row) = PolarsNode(t, g, row)
    BY <2>1, PolarsUnfolds
  <2>3. CASE t[1] = "var"
    <3>1. t[2] \in VarNames(e)
      BY <2>3 DEF VarNames
    <3>2. Polars(t, env) = env[t[2]] /\ Polars(t, row) = row[t[2]]
      BY <2>2, <2>3 DEF PolarsNode, Unary, Comparison, Arithmetic
    <3> QED
      BY <3>1, <3>2
  <2>4. CASE t[1] = "lit"
    BY <2>2, <2>4 DEF PolarsNode, Unary, Comparison, Arithmetic
  <2>5. CASE t[1] \notin {"var", "lit"}
    <3>1. \A i \in 1..Arity(t[1]) : t[i + 1] \in Children(t)
      BY <2>1, <2>5, ArgsAreChildren
    <3>2. f = g
      BY <1>2
    <3> HIDE DEF f, g
    <3>3. PolarsNode(t, f, env) = PolarsNode(t, g, row)
      BY <2>1, <2>5, <3>2, PolarsNodeReads
    <3> QED
      BY <2>2, <3>3
  <2> QED
    BY <2>3, <2>4, <2>5
<1>3. \A t \in Subtrees(e) : Children(t) \subseteq Q => t \in Q
  BY <1>2
<1>4. Subtrees(e) \subseteq Q
  <2> HIDE DEF Q
  <2> QED
    BY <1>1, <1>3, TreeInduction
<1> QED
  BY <1>4
-----------------------------------------------------------------------------
(* A plan of a view computes one column after another.                       *)
NextRow(targets, r, n) ==
  IF n \notin Reachable(targets) THEN r ELSE [r EXCEPT ![n] = Polars(body[n], r)]

LEMMA ColumnsIsChain ==
  ASSUME NEW row, NEW targets, NEW s, s = TopologicalOrder, s \in Seq(Name)
  PROVE  \E J : /\ J[0] = row
                /\ \A k \in 0..(Len(s) - 1) : J[k + 1] = NextRow(targets, J[k], s[k + 1])
                /\ Columns(row, targets) = J[Len(s)]
<1> DEFINE Iter(n, it) ==
             it = [S \in SUBSET (1..n) |->
                     IF S = {} THEN row
                     ELSE NextRow(targets, it[S \ {Max(S)}], s[Max(S)])]
           N == {n \in Nat : \E it : Iter(n, it)}
<1>1. 0 \in N
  <2>1. Iter(0, [S \in SUBSET (1..0) |-> row])
    BY InitialIndices
  <2> QED
    BY <2>1
<1>2. ASSUME NEW n \in N PROVE n + 1 \in N
  <2>1. PICK it : Iter(n, it)
    OBVIOUS
  <2> DEFINE more == [S \in SUBSET (1..(n + 1)) |->
                        IF n + 1 \in S
                        THEN NextRow(targets, it[S \ {n + 1}], s[n + 1])
                        ELSE it[S]]
  <2>2. ASSUME NEW S \in SUBSET (1..(n + 1))
        PROVE  more[S] = IF S = {} THEN row
                         ELSE NextRow(targets, more[S \ {Max(S)}], s[Max(S)])
    <3>1. CASE n + 1 \in S
      <4>1. Max(S) = n + 1 /\ S # {}
        BY <3>1, InitialIndices
      <4>2. S \ {n + 1} \in SUBSET (1..(n + 1)) /\ n + 1 \notin S \ {n + 1}
        OBVIOUS
      <4>3. more[S \ {n + 1}] = it[S \ {n + 1}]
        BY <4>2
      <4> QED
        BY <3>1, <4>1, <4>3
    <3>2. CASE n + 1 \notin S
      <4>1. S \ {Max(S)} \in SUBSET (1..n) /\ S \in SUBSET (1..n)
        BY <3>2, InitialIndices
      <4>2. S \ {Max(S)} \in SUBSET (1..(n + 1)) /\ n + 1 \notin S \ {Max(S)}
        BY <3>2
      <4>3. more[S \ {Max(S)}] = it[S \ {Max(S)}] /\ more[S] = it[S]
        BY <3>2, <4>2
      <4>4. it[S] = IF S = {} THEN row
                    ELSE NextRow(targets, it[S \ {Max(S)}], s[Max(S)])
        BY <2>1, <4>1
      <4> QED
        BY <4>3, <4>4
    <3> QED
      BY <3>1, <3>2
  <2>3. Iter(n + 1, more)
    <3> HIDE DEF more
    <3>1. more = [S \in SUBSET (1..(n + 1)) |-> more[S]]
      BY DEF more
    <3> QED
      BY <2>2, <3>1
  <2> HIDE DEF Iter, more
  <2> QED
    BY <2>3
<1>3. N = Nat
  <2> HIDE DEF N
  <2>1. N \subseteq Nat
    BY DEF N
  <2> QED
    BY <1>1, <1>2, <2>1, Induction
<1> DEFINE n == Len(s)
           it == CHOOSE f : Iter(n, f)
<1>4. n \in Nat /\ DOMAIN s = 1..n
  OBVIOUS
<1>5. Iter(n, it)
  <2> HIDE DEF Iter
  <2>1. \E f : Iter(n, f)
    BY <1>3, <1>4
  <2> QED
    BY <2>1
<1>6. Columns(row, targets) = it[1..n]
  <2>1. Columns(row, targets) =
          (CHOOSE f : f = [S \in SUBSET (DOMAIN s) |->
                     IF S = {} THEN row
                     ELSE NextRow(targets, f[S \ {Max(S)}], s[Max(S)])])[DOMAIN s]
    BY DEF Columns, NextRow, FoldLeft, MapThenFoldSet
  <2> HIDE DEF n
  <2> QED
    BY <2>1, <1>4
<1> DEFINE J == [k \in 0..n |-> it[1..k]]
<1> HIDE DEF it
<1>7. it[{}] = row
  BY <1>4, <1>5
<1>8. ASSUME NEW k \in 0..(n - 1)
      PROVE  it[1..(k + 1)] = NextRow(targets, it[1..k], s[k + 1])
  <2>1. k \in Nat /\ 1..(k + 1) \in SUBSET (1..n)
    BY <1>4
  <2>2. 1..(k + 1) # {} /\ Max(1..(k + 1)) = k + 1 /\ (1..(k + 1)) \ {k + 1} = 1..k
    BY <2>1, InitialIndices
  <2>3. \A S \in SUBSET (1..n) : it[S] = IF S = {} THEN row
                     ELSE NextRow(targets, it[S \ {Max(S)}], s[Max(S)])
    BY <1>5
  <2> QED
    BY <2>1, <2>2, <2>3
<1>9. J[0] = row /\ J[n] = Columns(row, targets)
  BY <1>4, <1>6, <1>7, InitialIndices
<1>10. \A k \in 0..(n - 1) : J[k + 1] = NextRow(targets, J[k], s[k + 1])
  BY <1>4, <1>8
<1> QED
  BY <1>9, <1>10

\* The row after the first k terms of the order: the columns of those the
\* targets reach are right for that row, the others as they were.
Computed(r, row, targets, k) ==
  /\ DOMAIN r = Name
  /\ \A m \in Name :
       IF m \in Reachable(targets) /\ \E i \in 1..k : TopologicalOrder[i] = m
       THEN r[m] = Polars(body[m], r) ELSE r[m] = row[m]

\* Nothing the targets reach is on a cycle or uses one.
LEMMA ReachableIsGrounded ==
  ASSUME IInv, NEW targets, targets \subseteq Name, ~PlanRaises(targets),
         NEW n \in Reachable(targets)
  PROVE  /\ n \in DOMAIN terms /\ Grounded(terms, n)
         /\ ToSet(terms[n]) \cap DOMAIN terms \subseteq Reachable(targets)
<1> DEFINE G == Uses(terms)
<1>1. IsTerms(terms)
  BY TermsAreTerms
<1>2. PICK t \in targets : t \in DOMAIN terms /\ n \in Required(G, t)
  BY TermGraphIsUses DEF Reachable
<1>3. /\ IsGraph(G) /\ G.node = DOMAIN terms
      /\ \A m \in DOMAIN terms : Predecessors(G, m) = ToSet(terms[m]) \cap DOMAIN terms
  BY UsesFacts
<1>4. Grounded(terms, t)
  <2>1. ~Inline(terms)[{}][t].raises
    BY InlinedIsInline DEF PlanRaises
  <2> QED
    BY <1>1, <1>2, <2>1, InlineRaises
<1>5. n \in DOMAIN terms /\ Required(G, n) \subseteq Required(G, t)
  BY <1>2, <1>3, RequiredOfTerm DEF Required, Ancestors
<1>6. Grounded(terms, n)
  BY <1>4, <1>5 DEF Grounded
<1>7. ToSet(terms[n]) \cap DOMAIN terms \subseteq Required(G, t)
  <2>1. Predecessors(G, n) \subseteq Ancestors(G, n)
    BY <1>3, <1>5, AncestorsClosed
  <2> QED
    BY <1>3, <1>5, <2>1 DEF Required
<1> QED
  BY <1>2, <1>5, <1>6, <1>7, TermGraphIsUses DEF Reachable

LEMMA NextRowComputes ==
  ASSUME IInv, Facade, NEW targets, targets \subseteq Name, ~PlanRaises(targets),
         NEW row, NEW r, NEW k \in Nat, k + 1 \in DOMAIN TopologicalOrder,
         Computed(r, row, targets, k)
  PROVE  Computed(NextRow(targets, r, TopologicalOrder[k + 1]), row, targets, k + 1)
<1> DEFINE s == TopologicalOrder
           n == s[k + 1]
           R == Reachable(targets)
           Done(m, j) == m \in R /\ \E i \in 1..j : s[i] = m
<1>1. s \in Seq(Name) /\ ToSet(s) = DOMAIN terms /\ IsOrder(terms, s)
  BY TermsAreTerms, TopologicalOrderIsVisit, OrderIsTopological DEF IInv, TypeOK
<1>2. \A m \in R : /\ m \in DOMAIN terms /\ Grounded(terms, m)
                   /\ VarNames(body[m]) \subseteq ToSet(terms[m]) /\ IsTree(body[m], Height)
  BY ReachableIsGrounded, FacadeBodies
<1>3. /\ DOMAIN r = Name
      /\ \A m \in Name : IF Done(m, k) THEN r[m] = Polars(body[m], r) ELSE r[m] = row[m]
  BY DEF Computed
<1> HIDE DEF s, R
<1>4. k + 1 \in DOMAIN s /\ DOMAIN s = 1..Len(s) /\ Len(s) \in Nat /\ n \in Name /\ n \in DOMAIN terms
  BY <1>1 DEF ToSet, s
<1>5. ASSUME NEW m \in R, NEW i \in 1..(k + 1), s[i] = m
      PROVE  n \notin VarNames(body[m])
  <2> SUFFICES ASSUME n \in VarNames(body[m]) PROVE FALSE
    OBVIOUS
  <2>1. i \in DOMAIN s /\ Grounded(terms, s[i])
    BY <1>2, <1>4, <1>5
  <2>2. n \in Predecessors(Uses(terms), s[i])
    BY <1>2, <1>4, <1>5, UsesFacts
  <2>3. PICK j \in DOMAIN s : j < i /\ s[j] = n
    BY <1>1, <2>1, <2>2 DEF IsOrder, Before
  <2>4. j = k + 1
    BY <1>1, <1>4, <2>3 DEF IsOrder
  <2> QED
    BY <1>4, <2>3, <2>4
<1>6. /\ \A i \in 1..(k + 1) : i \in 1..k \/ i = k + 1
      /\ k + 1 \in 1..(k + 1) /\ \A i \in 1..k : i \in 1..(k + 1)
  OBVIOUS
<1>7. \A m : Done(m, k + 1) <=> Done(m, k) \/ (m = n /\ n \in R)
  BY <1>6
<1>8. ~Done(n, k)
  <2> SUFFICES ASSUME NEW i \in 1..k, s[i] = n PROVE FALSE
    OBVIOUS
  <2>1. i \in DOMAIN s /\ i # k + 1
    BY <1>4
  <2> QED
    BY <1>1, <1>4, <2>1 DEF IsOrder
<1> DEFINE g == NextRow(targets, r, n)
<1>9. /\ DOMAIN g = Name
      /\ \A m \in Name : IF Done(m, k + 1) THEN g[m] = Polars(body[m], g) ELSE g[m] = row[m]
  <2>1. CASE n \notin R
    <3>1. g = r
      BY <2>1 DEF NextRow, R
    <3> HIDE DEF g, Done
    <3> QED
      BY <1>3, <1>7, <2>1, <3>1
  <2>2. CASE n \in R
    <3>1. g = [r EXCEPT ![n] = Polars(body[n], r)]
      BY <2>2 DEF NextRow, R
    <3> HIDE DEF g
    <3>2. DOMAIN g = Name /\ g[n] = Polars(body[n], r) /\ \A m \in Name : m # n => g[m] = r[m]
      BY <1>3, <1>4, <3>1
    <3>3. ASSUME NEW m \in Name, Done(m, k + 1) PROVE Polars(body[m], g) = Polars(body[m], r)
      <4>1. m \in R /\ n \notin VarNames(body[m])
        BY <1>5, <3>3
      <4>2. VarNames(body[m]) \subseteq Name /\ IsTree(body[m], Height)
        <5>1. terms[m] \in Seq(Name)
          BY <1>2, <4>1, TermsAreTerms DEF IsTerms
        <5> QED
          BY <1>2, <4>1, <5>1 DEF ToSet
      <4>3. \A x \in VarNames(body[m]) : g[x] = r[x]
        BY <3>2, <4>1, <4>2
      <4>4. body[m] \in Subtrees(body[m])
        BY <4>2, SubtreesClosed DEF IsTree, Low
      <4> QED
        BY <4>2, <4>3, <4>4, PolarsReadsVars
    <3>4. ASSUME NEW m \in Name
          PROVE  IF Done(m, k + 1) THEN g[m] = Polars(body[m], g) ELSE g[m] = row[m]
      <4> HIDE DEF n
      <4>1. CASE m = n
        <5>1. Done(m, k + 1)
          BY <1>7, <2>2, <4>1
        <5>2. g[m] = Polars(body[m], r)
          BY <3>2, <4>1
        <5> HIDE DEF Done
        <5> QED
          BY <3>3, <5>1, <5>2
      <4>2. CASE m # n
        <5>1. Done(m, k + 1) <=> Done(m, k)
          BY <1>7, <4>2
        <5>2. g[m] = r[m]
          BY <3>2, <4>2
        <5> HIDE DEF Done
        <5> QED
          BY <1>3, <3>3, <5>1, <5>2
      <4> QED
        BY <4>1, <4>2
    <3> QED
      BY <3>2, <3>4
  <2> QED
    BY <2>1, <2>2
<1> QED
  BY <1>9 DEF Computed, s, n, R

\* The row a plan leaves satisfies the equations of all terms it reaches.
LEMMA ColumnsSatisfy ==
  ASSUME IInv, Facade, NEW targets, targets \subseteq Name, ~PlanRaises(targets),
         NEW row, DOMAIN row = Name, NEW final, final = Columns(row, targets)
  PROVE  /\ \A n \in Reachable(targets) : final[n] = Polars(body[n], final)
         /\ \A n \in Name \ DOMAIN terms : final[n] = row[n]
<1> DEFINE s == TopologicalOrder
<1>1. s \in Seq(Name) /\ ToSet(s) = DOMAIN terms
  BY TermsAreTerms, TopologicalOrderIsVisit, OrderIsTopological DEF IInv, TypeOK
<1>2. PICK J : /\ J[0] = row
               /\ \A k \in 0..(Len(s) - 1) : J[k + 1] = NextRow(targets, J[k], s[k + 1])
               /\ final = J[Len(s)]
  <2> DEFINE order2 == TopologicalOrder
  <2>1. order2 = TopologicalOrder /\ order2 \in Seq(Name)
    BY <1>1
  <2> HIDE DEF order2, s
  <2> QED
    BY <2>1, ColumnsIsChain DEF order2, s
<1> DEFINE N == {k \in Nat : k <= Len(s) => Computed(J[k], row, targets, k)}
<1>3. 0 \in N
  <2>1. \A i \in 1..0 : FALSE
    OBVIOUS
  <2>2. Computed(row, row, targets, 0)
    BY <2>1 DEF Computed
  <2> QED
    BY <1>2, <2>2
<1>4. ASSUME NEW k \in N PROVE k + 1 \in N
  <2> SUFFICES ASSUME k + 1 <= Len(s) PROVE Computed(J[k + 1], row, targets, k + 1)
    OBVIOUS
  <2>1. k \in 0..(Len(s) - 1) /\ k + 1 \in DOMAIN s /\ k \in Nat /\ Computed(J[k], row, targets, k)
    BY <1>1
  <2>2. J[k + 1] = NextRow(targets, J[k], s[k + 1])
    BY <1>2, <2>1
  <2> HIDE DEF N
  <2> QED
    BY <2>1, <2>2, NextRowComputes
<1>5. N = Nat
  <2> HIDE DEF N
  <2>1. N \subseteq Nat
    BY DEF N
  <2> QED
    BY <1>3, <1>4, <2>1, Induction
<1>6. Computed(final, row, targets, Len(s))
  <2>1. Len(s) \in Nat
    BY <1>1
  <2> QED
    BY <1>2, <1>5, <2>1
<1> HIDE DEF N
<1>7. ASSUME NEW n \in Reachable(targets) PROVE final[n] = Polars(body[n], final)
  <2>1. n \in DOMAIN terms
    BY <1>7, ReachableIsGrounded
  <2>2. n \in Name /\ \E i \in 1..Len(s) : s[i] = n
    BY <1>1, <2>1 DEF ToSet, IInv, TypeOK
  <2> QED
    BY <1>6, <1>7, <2>2 DEF Computed
<1>8. ASSUME NEW n \in Name \ DOMAIN terms PROVE final[n] = row[n]
  <2>1. n \notin Reachable(targets)
    BY <1>8, ReachableIsGrounded
  <2> QED
    BY <1>6, <1>8, <2>1 DEF Computed
<1> QED
  BY <1>7, <1>8
\* Inlining a term that is planned gives the value of its column.
PlansRight(T, B, row, final, reached, n, stack) ==
  n \in reached /\ ~Inline(T)[stack][n].raises /\ ~ComparesNaN(Subst(T, B)[stack][n], row)
    => Numeric(Subst(T, B)[stack][n], row) = final[n]

LEMMA InlinedIsPlanned ==
  ASSUME NEW T, IsTerms(T), NEW B, NEW h, Bodies(T, B, h), NEW row, NEW final, NEW reached,
         \A n \in reached :
           /\ n \in DOMAIN T /\ final[n] = Polars(B[n], final)
           /\ ToSet(T[n]) \cap DOMAIN T \subseteq reached,
         \A n \in Name \ DOMAIN T : final[n] = row[n],
         NEW n \in DOMAIN T, NEW stack \in SUBSET Name
  PROVE  PlansRight(T, B, row, final, reached, n, stack)
<1> DEFINE P == [m \in DOMAIN T |->
                   {st \in SUBSET Name : PlansRight(T, B, row, final, reached, m, st)}]
<1>1. ASSUME NEW a \in DOMAIN T, NEW S \in SUBSET Name,
             a \notin S => \A m \in DOMAIN T : S \cup {a} \in P[m]
      PROVE  S \in P[a]
  <2> DEFINE tree == Subst(T, B)[S][a]
             env == Subst(T, B)[S \cup {a}]
             e == B[a]
             val == [m \in Name |-> Numeric(env[m], row)]
  <2> SUFFICES ASSUME a \in reached, ~Inline(T)[S][a].raises, ~ComparesNaN(tree, row)
               PROVE  Numeric(tree, row) = final[a]
    BY DEF PlansRight
  <2>0. a \in Name /\ T[a] \in Seq(Name) /\ a \notin S /\ S \cup {a} \in SUBSET Name
    <3>1. a \in Name /\ T[a] \in Seq(Name)
      BY DEF IsTerms
    <3> QED
      BY <3>1, LeafCalls
  <2>1. tree = Replaced(e, env)
    BY <2>0, SubstTerm
  <2>2. IsTree(e, h) /\ IsTree(e, Height) /\ VarNames(e) \subseteq ToSet(T[a])
    <3>1. IsTree(e, h) /\ h \in 0..Height /\ Height \in 0..Height /\ h <= Height
          /\ IterVars(e) = T[a]
      BY ExpressionAssumption DEF Bodies
    <3> QED
      BY <3>1, LowerTree, IterVarsYieldsAll
  <2>3. VarNames(e) \subseteq Name
    BY <2>0, <2>2 DEF ToSet
  <2>4. Fits(e, env)
    BY <2>0, <2>2, <2>3, SubstFits
  <2>5. Inline(T)[S][a] = InlinedTerm(a, InlineArgs(T, Inline(T), a, S))
    BY <2>0, InlineCalls DEF InlineStep
  <2>6. \A i \in DOMAIN T[a] : ~Inline(T)[S \cup {a}][T[a][i]].raises
    <3>1. ~InlinedTerm(a, InlineArgs(T, Inline(T), a, S)).raises
      BY <2>5
    <3> QED
      BY <3>1, TermRaises
  <2> HIDE DEF tree, env, e
  <2>7. \A m \in VarNames(e) : ~ComparesNaN(env[m], row)
    <3>1. \A m \in VarNames(e) : Numeric(env[m], row) = val[m]
      BY <2>3
    <3> HIDE DEF val
    <3> QED
      BY <2>1, <2>4, <3>1, ReplacedComparesNaN
  <2>8. ASSUME NEW m \in VarNames(e) PROVE Numeric(env[m], row) = final[m]
    <3>1. m \in Name /\ m \in ToSet(T[a])
      BY <2>2, <2>3
    <3>2. CASE m \notin DOMAIN T
      <4>1. env[m] = Variable(m)
        BY <2>0, <3>1, <3>2, SubstLeaf DEF env
      <4>2. 0 \in 0..Height
        BY ExpressionAssumption
      <4>3. Numeric(env[m], row) = row[m]
        BY <4>1, <4>2, VariableTree
      <4> QED
        BY <3>1, <3>2, <4>3
    <3>3. CASE m \in DOMAIN T
      <4>1. PlansRight(T, B, row, final, reached, m, S \cup {a})
        BY <1>1, <2>0, <3>3
      <4>2. m \in reached
        BY <3>1, <3>3
      <4>3. ~Inline(T)[S \cup {a}][m].raises
        <5>1. PICK i \in DOMAIN T[a] : m = T[a][i]
          BY <3>1 DEF ToSet
        <5> QED
          BY <2>6, <5>1
      <4> QED
        BY <2>7, <4>1, <4>2, <4>3 DEF PlansRight, env
    <3> QED
      BY <3>2, <3>3
  <2> HIDE DEF val, P
  <2>9. ~ComparesNaN(e, final)
    BY <2>1, <2>4, <2>8, ReplacedComparesNaN
  <2>10. e \in Subtrees(e)
    BY <2>2, SubtreesClosed DEF IsTree, Low
  <2>11. Numeric(tree, row) = Numeric(e, final)
    BY <2>1, <2>4, <2>8, <2>10, ReplacedValue
  <2>12. Polars(e, final) = Numeric(e, final)
    BY <2>2, <2>9, TreesAgree
  <2> QED
    BY <2>11, <2>12 DEF e
<1> HIDE DEF P
<1>2. stack \in P[n]
  BY <1>1, StackInduction DEF IsTerms
<1> QED
  BY <1>2 DEF P

\* Every view of the facade gives every column of its schema, with the value
\* that inlining the column's formula gives.
THEOREM PlansAreInlined == FormulaSpec => []PlannedIsInlined
<1>1. IInv /\ Facade => PlannedIsInlined
  <2> SUFFICES ASSUME IInv, Facade, NEW v \in DOMAIN views, ~PlanRaises(views[v]),
                      NEW row \in Rows, NEW c \in schema[v]
               PROVE  /\ c \in DOMAIN mapping[v]
                      /\ LET tree == Substituted(<<"var", mapping[v][c]>>)
                         IN  ~ComparesNaN(tree, row) => Planned(v, row)[c] = <<Numeric(tree, row)>>
    BY DEF PlannedIsInlined
  <2> DEFINE n == mapping[v][c]
             tree == Substituted(<<"var", n>>)
             final == Columns(row, views[v])
  <2>1. c \in DOMAIN mapping[v] /\ n \in views[v]
    BY DEF Facade, ViewMapped
  <2>2. views[v] \subseteq Name /\ DOMAIN row = Name
    BY FormulaAssumption, PricingFormulaAssumption DEF IInv, TypeOK
  <2>3. n \in Name /\ {} \in SUBSET Name /\ 0 \in 0..Height
    BY <2>1, <2>2, ExpressionAssumption
  <2>4. Planned(v, row)[c] = <<final[n]>>
    BY <2>1 DEF Planned
  <2> HIDE DEF n, final
  <2>5. tree = Subst(terms, body)[{}][n]
    BY <2>3, VariableTree, SubstitutedIsSubst DEF Variable
  <2> HIDE DEF tree
  <2>6. IsTerms(terms) /\ \E h \in 0..Height : Bodies(terms, body, h)
    BY FacadeBodies
  <2>7. /\ \A m \in Reachable(views[v]) : final[m] = Polars(body[m], final)
        /\ \A m \in Name \ DOMAIN terms : final[m] = row[m]
    BY <2>2, ColumnsSatisfy DEF final
  <2>8. ASSUME ~ComparesNaN(tree, row) PROVE Numeric(tree, row) = final[n]
    <3>1. CASE n \notin DOMAIN terms
      <4>1. tree = Variable(n)
        BY <2>3, <2>5, <2>6, <3>1, SubstLeaf
      <4> QED
        BY <2>3, <2>7, <3>1, <4>1, VariableTree
    <3>2. CASE n \in DOMAIN terms
      <4> DEFINE R == Reachable(views[v])
      <4>1. n \in R
        BY <2>1, <3>2 DEF Reachable, Required
      <4>2. \A m \in R : /\ m \in DOMAIN terms /\ ToSet(terms[m]) \cap DOMAIN terms \subseteq R
        BY <2>2, ReachableIsGrounded
      <4>3. ~Inline(terms)[{}][n].raises
        BY <2>1, InlinedIsInline DEF PlanRaises
      <4> HIDE DEF R
      <4>4. PlansRight(terms, body, row, final, R, n, {})
        <5>1. \A m \in R : final[m] = Polars(body[m], final)
          BY <2>7 DEF R
        <5> QED
          BY <2>3, <2>6, <2>7, <3>2, <4>2, <5>1, InlinedIsPlanned
      <4> QED
        BY <2>5, <2>8, <4>1, <4>3, <4>4 DEF PlansRight
    <3> QED
      BY <3>1, <3>2
  <2> QED
    BY <2>1, <2>4, <2>8 DEF tree, n
<1> QED
  BY <1>1, Invariance, FacadeInvariance, PTL

-----------------------------------------------------------------------------
(* Numbers: the residues and the laws of their sums and products.            *)
LEMMA DivMod ==
  ASSUME NEW M \in Int, M > 0, NEW x \in Int
  PROVE  /\ x % M \in 0..(M - 1)
         /\ x \div M \in Int
         /\ x = M * (x \div M) + (x % M)
OBVIOUS

LEMMA ModUnique ==
  ASSUME NEW M \in Int, M > 0, NEW q \in Int, NEW r \in 0..(M - 1)
  PROVE  (M * q + r) % M = r
<1> DEFINE x == M * q + r
<1>1. x \in Int
  OBVIOUS
<1> HIDE DEF x
<1> DEFINE k == x \div M
           s == x % M
<1>2. k \in Int /\ s \in 0..(M - 1) /\ x = M * k + s
  BY <1>1, DivMod
<1> HIDE DEF k, s
<1>3. M * q + r = M * k + s
  BY <1>2 DEF x
<1> DEFINE d == q - k
<1>4. d \in Int /\ M * d = s - r /\ -M < s - r /\ s - r < M
  <2>1. M * (q - k) = M * q - M * k
    BY <1>2
  <2> QED
    BY <1>2, <1>3, <2>1
<1> HIDE DEF d
<1>5. d = 0
  <2>1. CASE d >= 1
    <3>1. M * d >= M
      BY <1>4, <2>1
    <3> QED
      BY <1>4, <3>1
  <2>2. CASE d <= -1
    <3>1. M * d <= -M
      BY <1>4, <2>2
    <3> QED
      BY <1>4, <3>1
  <2> QED
    BY <1>4, <2>1, <2>2
<1>6. s = r
  BY <1>2, <1>4, <1>5
<1> QED
  BY <1>6 DEF s, x

-----------------------------------------------------------------------------
Residues == -Half..Half
Residue(x) == ((x + Half) % Modulus) - Half

LEMMA Residual ==
  ASSUME NEW x \in Int
  PROVE  /\ Modulus \in Int /\ Half \in Nat /\ Number(x) = <<Residue(x)>> /\ Residue(x) \in Residues
         /\ \E k \in Int : x = Residue(x) + Modulus * k
<1>1. Modulus \in Int /\ Modulus > 0 /\ Half \in Nat /\ Modulus = 2 * Half + 1
  BY ExpressionAssumption DEF Modulus
<1> DEFINE r == (x + Half) % Modulus
           k == (x + Half) \div Modulus
<1>2. x + Half \in Int
  BY <1>1
<1>3. r \in 0..(Modulus - 1) /\ k \in Int /\ x + Half = Modulus * k + r
  BY <1>1, <1>2, DivMod
<1>4. Residue(x) = r - Half
  BY DEF Residue
<1> HIDE DEF r, k
<1>5. Residue(x) \in Residues
  BY <1>1, <1>3, <1>4 DEF Residues
<1>6. x = Residue(x) + Modulus * k
  <2> DEFINE p == Modulus * k
  <2>1. p \in Int /\ x + Half = p + r
    BY <1>1, <1>3
  <2> HIDE DEF p
  <2> QED
    BY <1>1, <1>3, <1>4, <2>1 DEF p
<1> QED
  BY <1>1, <1>3, <1>5, <1>6 DEF Number, Residue

LEMMA ResidueIs ==
  ASSUME NEW r \in Residues, NEW k \in Int
  PROVE  Residue(r + Modulus * k) = r
<1>1. Modulus \in Int /\ Modulus > 0 /\ Half \in Nat /\ Modulus = 2 * Half + 1
  BY ExpressionAssumption DEF Modulus
<1> DEFINE p == Modulus * k
<1>2. p \in Int
  BY <1>1
<1>3. r + Half \in 0..(Modulus - 1)
  BY <1>1 DEF Residues
<1>4. (p + (r + Half)) % Modulus = r + Half
  BY <1>1, <1>3, ModUnique
<1> HIDE DEF p
<1>5. (r + p) + Half = p + (r + Half) /\ (r + Half) - Half = r
  BY <1>1, <1>2 DEF Residues
<1> QED
  BY <1>4, <1>5 DEF Residue, p

\* A residue stands for every number it is congruent to.
LEMMA Shifted ==
  ASSUME NEW x \in Int, NEW k \in Int
  PROVE  Residue(x + Modulus * k) = Residue(x)
<1>1. PICK j \in Int : x = Residue(x) + Modulus * j
  BY Residual
<1>2. Modulus \in Int /\ Residue(x) \in Residues /\ Half \in Nat
  BY Residual
<1> DEFINE r == Residue(x)
<1>3. r \in Int
  BY <1>2 DEF Residues
<1> HIDE DEF r
<1>4. (r + Modulus * j) + Modulus * k = r + Modulus * (j + k)
  BY <1>2, <1>3
<1>5. j + k \in Int
  OBVIOUS
<1>6. Residue(r + Modulus * (j + k)) = r
  BY <1>2, <1>5, ResidueIs DEF r
<1> QED
  BY <1>1, <1>4, <1>6 DEF r

LEMMA ResidueOfSum ==
  ASSUME NEW x \in Int, NEW y \in Int
  PROVE  /\ Residue(Residue(x) + y) = Residue(x + y)
         /\ Residue(y + Residue(x)) = Residue(y + x)
         /\ Residue(y - Residue(x)) = Residue(y - x)
<1>1. PICK k \in Int : x = Residue(x) + Modulus * k
  BY Residual
<1> DEFINE r == Residue(x)
           p == Modulus * k
<1>2. r \in Int /\ p \in Int /\ x = r + p /\ Modulus \in Int
  BY <1>1, Residual DEF Residues
<1>3. \A z \in Int : Residue(z + p) = Residue(z)
  BY Shifted
<1>4. Modulus * (-k) = -p /\ -k \in Int
  BY <1>2
<1>5. \A z \in Int : Residue(z + (-p)) = Residue(z)
  BY <1>4, Shifted
<1> HIDE DEF r, p
<1>6. (r + y) + p = x + y /\ (y + r) + p = y + x /\ (y - r) + (-p) = y - x
  BY <1>2
<1>7. r + y \in Int /\ y + r \in Int /\ y - r \in Int
  BY <1>2
<1> QED
  BY <1>3, <1>5, <1>6, <1>7 DEF r

LEMMA ResidueOfProduct ==
  ASSUME NEW x \in Int, NEW y \in Int
  PROVE  Residue(Residue(x) * y) = Residue(x * y)
<1>1. PICK k \in Int : x = Residue(x) + Modulus * k
  BY Residual
<1> DEFINE r == Residue(x)
<1>2. r \in Int /\ x = r + Modulus * k /\ Modulus \in Int
  BY <1>1, Residual DEF Residues
<1> HIDE DEF r
<1>3. (r + Modulus * k) * y = r * y + Modulus * (k * y)
  BY <1>2
<1>4. Residue(r * y + Modulus * (k * y)) = Residue(r * y)
  <2>1. r * y \in Int /\ k * y \in Int
    BY <1>2
  <2> QED
    BY <2>1, Shifted
<1> QED
  BY <1>2, <1>3, <1>4 DEF r

-----------------------------------------------------------------------------
Values == {NaN} \cup {<<x>> : x \in Residues}

LEMMA ValueForms ==
  ASSUME NEW v \in Values
  PROVE  \/ v = NaN /\ ~IsNumber(v)
         \/ \E x \in Residues : v = <<x>> /\ IsNumber(v) /\ v[1] = x
BY DEF Values, IsNumber, NaN

LEMMA NumberIsValue ==
  ASSUME NEW x \in Int
  PROVE  Number(x) \in Values
BY Residual DEF Values

\* A residue is its own.
LEMMA OwnResidue ==
  ASSUME NEW x \in Residues
  PROVE  Residue(x) = x /\ Number(x) = <<x>> /\ x \in Int
<1>1. x \in Int /\ Modulus \in Int
  BY Residual, ExpressionAssumption DEF Residues, Modulus
<1>2. x + Modulus * 0 = x
  BY <1>1
<1>3. Residue(x + Modulus * 0) = x
  BY ResidueIs
<1> QED
  BY <1>1, <1>2, <1>3, Residual

\* The laws of sums and products that readings rely on.
LEMMA Sums ==
  ASSUME NEW a \in Values, NEW b \in Values, NEW c \in Values
  PROVE  /\ Arith("add", a, b) \in Values /\ Arith("sub", a, b) \in Values
         /\ Arith("mul", a, b) \in Values
         /\ Arith("add", Arith("add", a, b), c) = Arith("add", a, Arith("add", b, c))
         /\ Arith("sub", Arith("add", a, b), c) = Arith("add", a, Arith("sub", b, c))
         /\ Arith("mul", Arith("mul", a, b), c) = Arith("mul", a, Arith("mul", b, c))
<1>n. ~IsNumber(NaN) /\ NaN \in Values
  BY DEF IsNumber, NaN, Values
<1>1. \A op, v : Arith(op, NaN, v) = NaN /\ Arith(op, v, NaN) = NaN
  BY <1>n DEF Arith
<1>2. ASSUME NEW x \in Residues, NEW y \in Residues
      PROVE  /\ Arith("add", <<x>>, <<y>>) = <<Residue(x + y)>> /\ x + y \in Int
             /\ Arith("sub", <<x>>, <<y>>) = <<Residue(x - y)>> /\ x - y \in Int
             /\ Arith("mul", <<x>>, <<y>>) = <<Residue(x * y)>> /\ x * y \in Int
  <2>1. IsNumber(<<x>>) /\ IsNumber(<<y>>) /\ <<x>>[1] = x /\ <<y>>[1] = y
    BY DEF IsNumber
  <2>2. x + y \in Int /\ x - y \in Int /\ x * y \in Int
    BY OwnResidue
  <2>3. Number(x + y) = <<Residue(x + y)>> /\ Number(x - y) = <<Residue(x - y)>> /\ Number(x * y) = <<Residue(x * y)>>
    BY <2>2, Residual
  <2> QED
    BY <2>1, <2>2, <2>3 DEF Arith
<1>3. CASE a = NaN \/ b = NaN
  <2>1. Arith("add", a, b) = NaN /\ Arith("sub", a, b) = NaN /\ Arith("mul", a, b) = NaN
    BY <1>1, <1>3
  <2>2. Arith("add", NaN, c) = NaN /\ Arith("sub", NaN, c) = NaN /\ Arith("mul", NaN, c) = NaN
    BY <1>1
  <2>3. /\ Arith("add", a, Arith("add", b, c)) = NaN
        /\ Arith("add", a, Arith("sub", b, c)) = NaN
        /\ Arith("mul", a, Arith("mul", b, c)) = NaN
    <3>1. CASE a = NaN
      BY <1>1, <3>1
    <3>2. CASE b = NaN
      <4>1. Arith("add", b, c) = NaN /\ Arith("sub", b, c) = NaN /\ Arith("mul", b, c) = NaN
        BY <1>1, <3>2
      <4> QED
        BY <1>1, <4>1
    <3> QED
      BY <1>3, <3>1, <3>2
  <2> QED
    BY <1>n, <2>1, <2>2, <2>3
<1>4. CASE a # NaN /\ b # NaN
  <2>1. PICK x \in Residues, y \in Residues : a = <<x>> /\ b = <<y>>
    BY <1>4 DEF Values
  <2>2. /\ Arith("add", a, b) \in Values /\ Arith("sub", a, b) \in Values
        /\ Arith("mul", a, b) \in Values
    <3>1. Residue(x + y) \in Residues /\ Residue(x - y) \in Residues /\ Residue(x * y) \in Residues
      BY <1>2, Residual
    <3>2. \A r \in Residues : <<r>> \in Values
      BY DEF Values
    <3>3. /\ Arith("add", a, b) = <<Residue(x + y)>> /\ Arith("sub", a, b) = <<Residue(x - y)>>
          /\ Arith("mul", a, b) = <<Residue(x * y)>>
      BY <1>2, <2>1
    <3> QED
      BY <3>1, <3>2, <3>3
  <2>3. CASE c = NaN
    BY <1>1, <2>2, <2>3
  <2>4. CASE c # NaN
    <3>1. PICK z \in Residues : c = <<z>>
      BY <2>4 DEF Values
    <3>2. /\ Residue(x + y) \in Residues /\ Residue(y + z) \in Residues /\ Residue(y - z) \in Residues
          /\ Residue(x * y) \in Residues /\ Residue(y * z) \in Residues
          /\ x \in Int /\ y \in Int /\ z \in Int
      BY <1>2, Residual, OwnResidue
    <3>3. Residue(Residue(x + y) + z) = Residue(x + Residue(y + z))
      <4>1. x + y \in Int /\ y + z \in Int /\ (x + y) + z = x + (y + z)
        BY <3>2
      <4>2. Residue(Residue(x + y) + z) = Residue((x + y) + z)
        BY <3>2, <4>1, ResidueOfSum
      <4>3. Residue(x + Residue(y + z)) = Residue(x + (y + z))
        BY <3>2, <4>1, ResidueOfSum
      <4> QED
        BY <4>1, <4>2, <4>3
    <3>4. Residue(Residue(x + y) - z) = Residue(x + Residue(y - z))
      <4>1. x + y \in Int /\ y - z \in Int /\ -z \in Int /\ (x + y) + (-z) = x + (y - z)
        BY <3>2
      <4>2. Residue(Residue(x + y) + (-z)) = Residue((x + y) + (-z))
        BY <3>2, <4>1, ResidueOfSum
      <4>3. Residue(x + Residue(y - z)) = Residue(x + (y - z))
        BY <3>2, <4>1, ResidueOfSum
      <4>4. Residue(x + y) + (-z) = Residue(x + y) - z
        BY <3>2, OwnResidue
      <4> QED
        BY <4>1, <4>2, <4>3, <4>4
    <3>5. Residue(Residue(x * y) * z) = Residue(x * Residue(y * z))
      <4>1. x * y \in Int /\ y * z \in Int /\ (x * y) * z = x * (y * z)
        BY <3>2
      <4>2. Residue(Residue(x * y) * z) = Residue((x * y) * z)
        BY <3>2, <4>1, ResidueOfProduct
      <4>3. Residue(Residue(y * z) * x) = Residue((y * z) * x)
        BY <3>2, <4>1, ResidueOfProduct
      <4>4. Residue(y * z) * x = x * Residue(y * z) /\ (y * z) * x = x * (y * z)
        <5>1. \A i, j \in Int : i * j = j * i
          OBVIOUS
        <5>2. Residue(y * z) \in Int
          BY <3>2, OwnResidue
        <5> QED
          BY <3>2, <4>1, <5>1, <5>2
      <4> QED
        BY <4>1, <4>2, <4>3, <4>4
    <3>6. Arith("add", Arith("add", a, b), c) = Arith("add", a, Arith("add", b, c))
      <4>1. Arith("add", a, b) = <<Residue(x + y)>> /\ Arith("add", b, c) = <<Residue(y + z)>>
        BY <1>2, <2>1, <3>1
      <4>2. Arith("add", <<Residue(x + y)>>, c) = <<Residue(Residue(x + y) + z)>>
        BY <1>2, <3>1, <3>2
      <4>3. Arith("add", a, <<Residue(y + z)>>) = <<Residue(x + Residue(y + z))>>
        BY <1>2, <2>1, <3>2
      <4> QED
        BY <3>3, <4>1, <4>2, <4>3
    <3>7. Arith("sub", Arith("add", a, b), c) = Arith("add", a, Arith("sub", b, c))
      <4>1. Arith("add", a, b) = <<Residue(x + y)>> /\ Arith("sub", b, c) = <<Residue(y - z)>>
        BY <1>2, <2>1, <3>1
      <4>2. Arith("sub", <<Residue(x + y)>>, c) = <<Residue(Residue(x + y) - z)>>
        BY <1>2, <3>1, <3>2
      <4>3. Arith("add", a, <<Residue(y - z)>>) = <<Residue(x + Residue(y - z))>>
        BY <1>2, <2>1, <3>2
      <4> QED
        BY <3>4, <4>1, <4>2, <4>3
    <3>8. Arith("mul", Arith("mul", a, b), c) = Arith("mul", a, Arith("mul", b, c))
      <4>1. Arith("mul", a, b) = <<Residue(x * y)>> /\ Arith("mul", b, c) = <<Residue(y * z)>>
        BY <1>2, <2>1, <3>1
      <4>2. Arith("mul", <<Residue(x * y)>>, c) = <<Residue(Residue(x * y) * z)>>
        BY <1>2, <3>1, <3>2
      <4>3. Arith("mul", a, <<Residue(y * z)>>) = <<Residue(x * Residue(y * z))>>
        BY <1>2, <2>1, <3>2
      <4> QED
        BY <3>5, <4>1, <4>2, <4>3
    <3> QED
      BY <2>2, <3>6, <3>7, <3>8
  <2> QED
    BY <2>2, <2>3, <2>4
<1> QED
  BY <1>3, <1>4

LEMMA Neutral ==
  ASSUME NEW a \in Values
  PROVE  /\ Arith("add", Number(0), a) = a /\ Arith("mul", Number(1), a) = a
         /\ Number(0) \in Values /\ Number(1) \in Values
         /\ Applied("neg", a) \in Values /\ Applied("neg", Applied("neg", a)) = a
<1>1. 0 \in Residues /\ 1 \in Residues
  BY ExpressionAssumption DEF Residues
<1>2. Number(0) = <<0>> /\ Number(1) = <<1>> /\ Number(0) \in Values /\ Number(1) \in Values
  BY <1>1, OwnResidue, NumberIsValue
<1>3. CASE a = NaN
  BY <1>2, <1>3 DEF Arith, Applied, IsNumber, NaN
<1>4. CASE a # NaN
  <2>1. PICK x \in Residues : a = <<x>>
    BY <1>4 DEF Values
  <2>2. IsNumber(a) /\ a[1] = x /\ IsNumber(<<0>>) /\ IsNumber(<<1>>) /\ <<0>>[1] = 0 /\ <<1>>[1] = 1
    BY <2>1 DEF IsNumber
  <2>3. x \in Int /\ -x \in Residues /\ Number(x) = <<x>>
    BY <2>1, OwnResidue, ExpressionAssumption DEF Residues
  <2>4. 0 + x = x /\ 1 * x = x /\ -(-x) = x
    BY <2>3
  <2>5. Arith("add", Number(0), a) = a /\ Arith("mul", Number(1), a) = a
    BY <1>2, <2>1, <2>2, <2>3, <2>4 DEF Arith
  <2>6. Applied("neg", a) = <<-x>>
    BY <2>2, <2>3, OwnResidue DEF Applied
  <2>7. IsNumber(<<-x>>) /\ <<-x>>[1] = -x
    BY DEF IsNumber
  <2>8. Applied("neg", <<-x>>) = a
    BY <2>1, <2>3, <2>4, <2>7 DEF Applied
  <2> QED
    BY <1>2, <2>3, <2>5, <2>6, <2>8 DEF Values
<1> QED
  BY <1>3, <1>4

-----------------------------------------------------------------------------
(* A tree over rows of values has a value.                                   *)
PowerStep(x, f, n) == IF n = 0 THEN 1 ELSE (x * f[n - 1]) % Modulus

LEMMA PowerIsInt ==
  ASSUME NEW x \in Int, NEW y \in Int
  PROVE  PowerOf(x, y) \in Int
<1> DEFINE last == Exponent(y)
           IsPower(f) == f = [n \in 0..last |-> PowerStep(x, f, n)]
           UpTo(f, k) == \A n \in 0..k : f[n] = PowerStep(x, f, n) /\ f[n] \in Int
           N == {k \in Nat : \E f : UpTo(f, k)}
<1>0. Modulus \in Int /\ Modulus > 0 /\ last \in Nat
  <2>1. Modulus \in Int /\ Modulus > 0 /\ Half \in Nat
    BY ExpressionAssumption DEF Modulus
  <2> QED
    BY <2>1, DivMod DEF Exponent
<1>1. PowerOf(x, y) = (CHOOSE f : IsPower(f))[last]
  BY DEF PowerOf, PowerStep
<1> HIDE DEF last
<1>2. 0 \in N
  <2>1. UpTo([n \in 0..0 |-> 1], 0)
    BY DEF PowerStep
  <2> QED
    BY <2>1
<1>3. ASSUME NEW k \in N PROVE k + 1 \in N
  <2>1. PICK f : UpTo(f, k)
    OBVIOUS
  <2> DEFINE next == (x * f[k]) % Modulus
             more == [n \in 0..(k + 1) |-> IF n <= k THEN f[n] ELSE next]
  <2>2. k \in Nat /\ f[k] \in Int /\ k + 1 \in Nat /\ (k + 1) - 1 = k /\ k + 1 # 0
    BY <2>1
  <2>3. next \in Int
    BY <1>0, <2>2, DivMod
  <2>4. PowerStep(x, more, k + 1) = next /\ more[k + 1] = next
    BY <2>2 DEF PowerStep
  <2>5. ASSUME NEW n \in 0..k PROVE more[n] = f[n] /\ PowerStep(x, more, n) = PowerStep(x, f, n)
    <3>1. n \in 0..(k + 1) /\ n <= k /\ (n = 0 \/ (n - 1 \in 0..(k + 1) /\ n - 1 <= k))
      BY <2>2
    <3> QED
      BY <3>1 DEF PowerStep
  <2> HIDE DEF more, next
  <2>6. \A n \in 0..(k + 1) : n \in 0..k \/ n = k + 1
    BY <2>2
  <2>7. UpTo(more, k + 1)
    <3>1. ASSUME NEW n \in 0..k PROVE more[n] = PowerStep(x, more, n) /\ more[n] \in Int
      BY <2>1, <2>5
    <3> QED
      BY <2>3, <2>4, <2>6, <3>1
  <2> QED
    BY <2>2, <2>7
<1>4. N = Nat
  <2> HIDE DEF N
  <2>1. N \subseteq Nat
    BY DEF N
  <2> QED
    BY <1>2, <1>3, <2>1, Induction
<1>5. PICK f : UpTo(f, last)
  <2>1. last \in N
    BY <1>0, <1>4
  <2> QED
    BY <2>1
<1> DEFINE g == [n \in 0..last |-> f[n]]
<1>6. ASSUME NEW n \in 0..last PROVE g[n] = PowerStep(x, g, n)
  <2>1. n = 0 \/ n - 1 \in 0..last
    BY <1>0
  <2>2. PowerStep(x, g, n) = PowerStep(x, f, n)
    BY <2>1 DEF PowerStep
  <2> QED
    BY <1>5, <2>2
<1>7. g = [n \in 0..last |-> g[n]]
  OBVIOUS
<1> HIDE DEF g, N
<1>8. IsPower(g)
  BY <1>6, <1>7
<1> DEFINE h == CHOOSE f2 : IsPower(f2)
<1>9. IsPower(h)
  BY <1>8
<1> HIDE DEF h
<1> DEFINE M == {n \in Nat : n <= last => h[n] \in Int}
<1>10. 0 \in M
  BY <1>0, <1>9 DEF PowerStep
<1>11. ASSUME NEW n \in M PROVE n + 1 \in M
  <2> SUFFICES ASSUME n + 1 <= last PROVE h[n + 1] \in Int
    OBVIOUS
  <2>1. n + 1 \in 0..last /\ h[n] \in Int /\ n + 1 # 0 /\ (n + 1) - 1 = n
    BY <1>0
  <2>2. h[n + 1] = (x * h[n]) % Modulus
    BY <1>9, <2>1 DEF PowerStep
  <2>3. x * h[n] \in Int
    BY <2>1
  <2> QED
    BY <1>0, <2>2, <2>3, DivMod
<1>12. M = Nat
  <2> HIDE DEF M
  <2>1. M \subseteq Nat
    BY DEF M
  <2> QED
    BY <1>10, <1>11, <2>1, Induction
<1> QED
  BY <1>0, <1>1, <1>12 DEF h

\* The operators keep to the numbers and NaN.
LEMMA ArithIsValue ==
  ASSUME NEW a \in Values, NEW b \in Values, NEW op \in Arithmetic
  PROVE  Arith(op, a, b) \in Values
<1>1. CASE a = NaN \/ b = NaN
  <2>1. ~IsNumber(a) \/ ~IsNumber(b)
    BY <1>1 DEF IsNumber, NaN
  <2> QED
    BY <2>1 DEF Arith, Values
<1>2. CASE a # NaN /\ b # NaN
  <2>1. PICK x \in Residues, y \in Residues : a = <<x>> /\ b = <<y>>
    BY <1>2 DEF Values
  <2>2. IsNumber(a) /\ IsNumber(b) /\ a[1] = x /\ b[1] = y
    BY <2>1 DEF IsNumber
  <2>3. x \in Int /\ y \in Int
    BY OwnResidue
  <2>4. CASE op \in {"add", "sub", "mul"}
    BY <2>4, Sums
  <2>5. CASE op = "pow"
    <3>1. Arith(op, a, b) = Number(PowerOf(x, y))
      BY <2>2, <2>5 DEF Arith
    <3> QED
      BY <2>3, <3>1, PowerIsInt, NumberIsValue
  <2>6. CASE op = "div"
    <3>1. Arith(op, a, b) = IF y = 0 THEN NaN ELSE Number(CHOOSE q \in Quotients(x, y) : TRUE)
      BY <2>2, <2>6 DEF Arith
    <3>2. CASE y = 0
      BY <3>1, <3>2 DEF Values
    <3>3. CASE y # 0
      <4>1. Quotients(x, y) # {}
        BY <3>3, FieldAssumption DEF Residues
      <4>2. (CHOOSE q \in Quotients(x, y) : TRUE) \in Quotients(x, y)
        BY <4>1
      <4>3. Quotients(x, y) \subseteq Int
        BY ExpressionAssumption DEF Quotients
      <4> QED
        BY <3>1, <3>3, <4>2, <4>3, NumberIsValue
    <3> QED
      BY <3>2, <3>3
  <2> QED
    BY <2>4, <2>5, <2>6 DEF Arithmetic
<1> QED
  BY <1>1, <1>2

LEMMA AppliedIsValue ==
  ASSUME NEW a \in Values, NEW op \in Unary \ {"normal_cdf"}
  PROVE  Applied(op, a) \in Values
<1>0. NaN \in Values
  BY DEF Values
<1>1. CASE a = NaN
  <2>1. ~IsNumber(a)
    BY <1>1 DEF IsNumber, NaN
  <2> QED
    BY <1>0, <2>1 DEF Applied
<1>2. CASE a # NaN
  <2>1. PICK x \in Residues : a = <<x>>
    BY <1>2 DEF Values
  <2>2. IsNumber(a) /\ a[1] = x
    BY <2>1 DEF IsNumber
  <2>3. x \in Int
    BY OwnResidue
  <2>4. x * x \in Int
    BY <2>3
  <2> DEFINE q == x * x
  <2> HIDE DEF q
  <2>5. q \in Int
    BY <2>4 DEF q
  <2>6. PowerOf(2, x) \in Int
    BY <2>3, PowerIsInt
  <2>7. /\ Number(-x) \in Values /\ Number(PowerOf(2, x)) \in Values /\ Number(q + 2) \in Values
        /\ Number(IF x < 0 THEN -x ELSE x) \in Values
        /\ Number(q + 3) \in Values /\ Number(q + 1) \in Values
    BY <2>3, <2>5, <2>6, NumberIsValue
  <2>8. CASE op = "neg"
    BY <2>2, <2>7, <2>8 DEF Applied
  <2>9. CASE op = "exp"
    BY <2>2, <2>7, <2>9 DEF Applied
  <2>10. CASE op = "log"
    BY <1>0, <2>2, <2>7, <2>10 DEF Applied, q
  <2>11. CASE op = "abs"
    BY <2>2, <2>7, <2>11 DEF Applied
  <2>12. CASE op = "sqrt"
    BY <1>0, <2>2, <2>7, <2>12 DEF Applied, q
  <2>13. CASE op = "normal_pdf"
    BY <2>2, <2>7, <2>13 DEF Applied, q
  <2> QED
    BY <2>8, <2>9, <2>10, <2>11, <2>12, <2>13 DEF Unary
<1> QED
  BY <1>1, <1>2

LEMMA TruthIsValue ==
  ASSUME NEW b
  PROVE  Truth(b) \in Values
BY NumberIsValue DEF Truth

LEMMA NodeIsValue ==
  ASSUME NEW e, IsNode(e), NEW value, \A c \in Children(e) : value[c] \in Values,
         NEW row, e[1] = "var" => row[e[2]] \in Values
  PROVE  NumericNode(e, value, row) \in Values
<1>0. \A x \in Int : Number(x) \in Values
  BY NumberIsValue
<1>1. CASE e[1] = "var"
  BY <1>1 DEF NumericNode, Unary, Comparison, Arithmetic
<1>2. CASE e[1] = "lit"
  <2>1. e[2] \in Int
    BY <1>2 DEF IsNode, Unary, Comparison, Arithmetic
  <2>2. NumericNode(e, value, row) = Number(e[2])
    BY <1>2 DEF NumericNode, Unary, Comparison, Arithmetic
  <2> QED
    BY <1>0, <2>1, <2>2
<1>3. CASE e[1] \notin {"var", "lit"}
  <2>1. /\ value[e[1 + 1]] \in Values
        /\ e[1] \in Comparison \cup Arithmetic \cup {"where"} => value[e[2 + 1]] \in Values
        /\ e[1] = "where" => value[e[3 + 1]] \in Values
    BY <1>3, ArgsAreChildren, Arities
  <2>2. CASE e[1] \in Unary \ {"normal_cdf"}
    <3>1. e[1] \notin {"var", "lit", "where", "normal_cdf"} /\ e[1] \notin Comparison /\ e[1] \notin Arithmetic
      BY <2>2 DEF Unary, Comparison, Arithmetic
    <3>2. NumericNode(e, value, row) = Applied(e[1], value[e[1 + 1]])
      BY <2>2, <3>1 DEF NumericNode
    <3> QED
      BY <2>1, <2>2, <3>2, AppliedIsValue
  <2>3. CASE e[1] = "normal_cdf"
    <3> DEFINE z == value[e[1 + 1]]
    <3>1. NumericNode(e, value, row)
            = Symmetric(NumericCompares("ge", z, Number(0)), Approximation(Applied("abs", z)))
      BY <2>3 DEF NumericNode, Unary, Comparison, Arithmetic
    <3> HIDE DEF z
    <3>2. z \in Values
      BY <2>1 DEF z
    <3>3. Applied("abs", z) \in Values
      BY <3>2, AppliedIsValue DEF Unary
    <3> DEFINE a == Applied("abs", z)
    <3>4. a \in Values
      BY <3>3
    <3> HIDE DEF a
    <3>5. Approximation(a) \in Values
      <4>1. Arith("mul", a, a) \in Values /\ Number(2) \in Values
        BY <1>0, <3>4, Sums
      <4> QED
        BY <4>1, Sums DEF Approximation
    <3>6. Arith("sub", Number(1), Approximation(a)) \in Values
      <4>1. Number(1) \in Values
        BY <1>0
      <4> QED
        BY <3>5, <4>1, Sums
    <3> QED
      BY <3>1, <3>5, <3>6 DEF Symmetric, a
  <2>4. CASE e[1] \in Comparison
    <3>1. e[1] \notin {"var", "lit", "where", "normal_cdf"}
      BY <2>4 DEF Comparison
    <3>2. e[1] \notin Unary /\ e[1] \notin Arithmetic
      BY <2>4 DEF Unary, Comparison, Arithmetic
    <3>3. NumericNode(e, value, row) = Truth(NumericCompares(e[1], value[e[1 + 1]], value[e[2 + 1]]))
      BY <2>4, <3>1, <3>2 DEF NumericNode
    <3> QED
      BY <3>3, TruthIsValue
  <2>5. CASE e[1] \in Arithmetic
    <3>1. e[1] \notin {"var", "lit", "where", "normal_cdf"} /\ e[1] \notin Unary /\ e[1] \notin Comparison
      BY <2>5 DEF Unary, Comparison, Arithmetic
    <3>2. NumericNode(e, value, row) = Arith(e[1], value[e[1 + 1]], value[e[2 + 1]])
      BY <2>5, <3>1 DEF NumericNode
    <3> QED
      BY <2>1, <2>5, <3>2, ArithIsValue
  <2>6. CASE e[1] = "where"
    <3>1. NumericNode(e, value, row) = Chosen(value[e[1 + 1]], value[e[2 + 1]], value[e[3 + 1]])
      BY <2>6 DEF NumericNode, Unary, Comparison, Arithmetic
    <3> QED
      BY <2>1, <2>6, <3>1 DEF Chosen
  <2> QED
    BY <1>3, <2>2, <2>3, <2>4, <2>5, <2>6, Arities
<1> QED
  BY <1>1, <1>2, <1>3

\* Rows give the variables of a tree values, and so does the tree.
LEMMA NumericIsValue ==
  ASSUME NEW e, IsTree(e, Height), NEW row, \A n \in VarNames(e) : row[n] \in Values,
         NEW t \in Subtrees(e)
  PROVE  Numeric(t, row) \in Values
<1> DEFINE Q == {s \in Subtrees(e) : Numeric(s, row) \in Values}
<1>1. Low(e, Height)
  BY DEF IsTree, Low
<1>2. ASSUME NEW s \in Subtrees(e), Children(s) \subseteq Q PROVE s \in Q
  <2> DEFINE value == [c \in Children(s) |-> Numeric(c, row)]
  <2>1. IsTree(s, Height) /\ IsNode(s)
    BY TreeParts
  <2>2. Numeric(s, row) = NumericNode(s, value, row)
    BY <2>1, NumericUnfolds
  <2>3. \A c \in Children(s) : value[c] \in Values
    BY <1>2
  <2>4. s[1] = "var" => row[s[2]] \in Values
    BY DEF VarNames
  <2> HIDE DEF value
  <2>5. Numeric(s, row) \in Values
    BY <2>1, <2>2, <2>3, <2>4, NodeIsValue
  <2> QED
    BY <2>5
<1> HIDE DEF Q
<1>3. Subtrees(e) \subseteq Q
  BY <1>1, <1>2, TreeInduction
<1> QED
  BY <1>3 DEF Q

-----------------------------------------------------------------------------
(* Reading a text token by token.                                            *)
FedStep(f, text, row, J, i) == IF i = 0 THEN f ELSE Feed(J[i - 1], text[i], row)
FedUpTo(f, text, row, J, k) == \A i \in 0..k : J[i] = FedStep(f, text, row, J, i)

\* Feed, token by token, has one result.
LEMMA FedIs ==
  ASSUME NEW f, NEW text, Len(text) \in Nat, NEW row
  PROVE  \E J : FedUpTo(f, text, row, J, Len(text)) /\ Fed(f, text, row) = J[Len(text)]
<1> DEFINE last == Len(text)
           IsFed(J) == J = [i \in 0..last |-> FedStep(f, text, row, J, i)]
           N == {k \in Nat : \E J : FedUpTo(f, text, row, J, k)}
<1>0. Fed(f, text, row) = (CHOOSE J : IsFed(J))[last]
  BY DEF Fed, FedStep
<1>n. last \in Nat
  OBVIOUS
<1> HIDE DEF last
<1>1. 0 \in N
  <2>1. FedUpTo(f, text, row, [i \in 0..0 |-> f], 0)
    BY DEF FedUpTo, FedStep
  <2> QED
    BY <2>1
<1>2. ASSUME NEW k \in N PROVE k + 1 \in N
  <2>1. PICK J : FedUpTo(f, text, row, J, k)
    OBVIOUS
  <2> DEFINE next == Feed(J[k], text[k + 1], row)
             more == [i \in 0..(k + 1) |-> IF i <= k THEN J[i] ELSE next]
  <2>2. k \in Nat /\ k + 1 \in Nat /\ (k + 1) - 1 = k /\ k + 1 # 0 /\ ~(k + 1 <= k)
        /\ k \in 0..(k + 1) /\ k + 1 \in 0..(k + 1)
    OBVIOUS
  <2>3. more[k + 1] = next /\ more[k] = J[k]
    BY <2>2
  <2>4. ASSUME NEW i \in 0..k PROVE more[i] = J[i] /\ FedStep(f, text, row, more, i) = FedStep(f, text, row, J, i)
    <3>1. i \in 0..(k + 1) /\ i <= k /\ (i = 0 \/ (i - 1 \in 0..(k + 1) /\ i - 1 <= k))
      BY <2>2
    <3> QED
      BY <3>1 DEF FedStep
  <2> HIDE DEF more
  <2>5. FedStep(f, text, row, more, k + 1) = next
    BY <2>2, <2>3 DEF FedStep
  <2>6. \A i \in 0..(k + 1) : i \in 0..k \/ i = k + 1
    BY <2>2
  <2> HIDE DEF next
  <2>7. FedUpTo(f, text, row, more, k + 1)
    BY <2>1, <2>3, <2>4, <2>5, <2>6 DEF FedUpTo
  <2> QED
    BY <2>2, <2>7
<1>3. N = Nat
  <2> HIDE DEF N
  <2>1. N \subseteq Nat
    BY DEF N
  <2> QED
    BY <1>1, <1>2, <2>1, Induction
<1>4. PICK J : FedUpTo(f, text, row, J, last)
  <2>1. last \in N
    BY <1>n, <1>3
  <2> QED
    BY <2>1
<1> HIDE DEF N
<1> DEFINE g == [i \in 0..last |-> J[i]]
<1>5. ASSUME NEW i \in 0..last PROVE g[i] = FedStep(f, text, row, g, i)
  <2>1. i = 0 \/ i - 1 \in 0..last
    BY <1>n
  <2>2. FedStep(f, text, row, g, i) = FedStep(f, text, row, J, i)
    BY <2>1 DEF FedStep
  <2> QED
    BY <1>4, <2>2 DEF FedUpTo
<1>6. g = [i \in 0..last |-> g[i]]
  OBVIOUS
<1> HIDE DEF g
<1>7. IsFed(g)
  BY <1>5, <1>6
<1> DEFINE h == CHOOSE K : IsFed(K)
<1>8. IsFed(h)
  BY <1>7
<1>9. Fed(f, text, row) = h[last]
  BY <1>0
<1> HIDE DEF h
<1>10. FedUpTo(f, text, row, h, last)
  BY <1>8 DEF FedUpTo
<1> QED
  BY <1>9, <1>10 DEF last

LEMMA FedUnique ==
  ASSUME NEW f, NEW text, NEW row, NEW n \in Nat, NEW J, NEW K,
         FedUpTo(f, text, row, J, n), FedUpTo(f, text, row, K, n)
  PROVE  J[n] = K[n]
<1> DEFINE N == {k \in Nat : k <= n => J[k] = K[k]}
<1>1. 0 \in N
  BY DEF FedUpTo, FedStep
<1>2. ASSUME NEW k \in N PROVE k + 1 \in N
  <2> SUFFICES ASSUME k + 1 <= n PROVE J[k + 1] = K[k + 1]
    OBVIOUS
  <2>1. k + 1 \in 0..n /\ J[k] = K[k] /\ k + 1 # 0 /\ (k + 1) - 1 = k
    OBVIOUS
  <2> DEFINE m == k + 1
  <2>2. m \in 0..n /\ m # 0 /\ m - 1 = k
    BY <2>1
  <2> HIDE DEF m
  <2>3. J[m] = Feed(J[k], text[m], row) /\ K[m] = Feed(K[k], text[m], row)
    BY <2>2 DEF FedUpTo, FedStep
  <2> QED
    BY <2>1, <2>3 DEF m
<1>3. N = Nat
  <2> HIDE DEF N
  <2>1. N \subseteq Nat
    BY DEF N
  <2> QED
    BY <1>1, <1>2, <2>1, Induction
<1> QED
  BY <1>3

LEMMA FedNone ==
  ASSUME NEW f, NEW row
  PROVE  Fed(f, <<>>, row) = f
<1>1. PICK J : FedUpTo(f, <<>>, row, J, 0) /\ Fed(f, <<>>, row) = J[0]
  BY FedIs
<1> QED
  BY <1>1 DEF FedUpTo, FedStep

LEMMA FedToken ==
  ASSUME NEW f, NEW token, NEW row
  PROVE  Fed(f, <<token>>, row) = Feed(f, token, row)
<1> DEFINE text == <<token>>
<1>1. Len(text) = 1 /\ text[1] = token
  OBVIOUS
<1> HIDE DEF text
<1>2. PICK J : FedUpTo(f, text, row, J, 1) /\ Fed(f, text, row) = J[1]
  <2>1. Len(text) \in Nat
    BY <1>1
  <2>2. PICK J : FedUpTo(f, text, row, J, Len(text)) /\ Fed(f, text, row) = J[Len(text)]
    BY <2>1, FedIs
  <2> QED
    BY <1>1, <2>2
<1>3. 0 \in 0..1 /\ 1 \in 0..1 /\ 1 - 1 = 0
  OBVIOUS
<1>4. J[0] = f /\ J[1] = Feed(J[0], text[1], row)
  BY <1>2, <1>3 DEF FedUpTo, FedStep
<1> QED
  BY <1>1, <1>2, <1>4 DEF text

IsText(text) == \E S : text \in Seq(S)

LEMMA TextsConcat ==
  ASSUME NEW u, IsText(u), NEW w, IsText(w)
  PROVE  /\ IsText(u \o w) /\ Len(u) \in Nat /\ Len(w) \in Nat
         /\ Len(u \o w) = Len(u) + Len(w)
         /\ \A i \in 1..Len(u) : (u \o w)[i] = u[i]
         /\ \A i \in 1..Len(w) : (u \o w)[Len(u) + i] = w[i]
<1>1. PICK S : u \in Seq(S)
  BY DEF IsText
<1>2. PICK T : w \in Seq(T)
  BY DEF IsText
<1> DEFINE A == S \cup T
<1>3. u \in Seq(A) /\ w \in Seq(A)
  <2>1. u \in Seq(A)
    BY <1>1
  <2>2. w \in Seq(A)
    BY <1>2
  <2> QED
    BY <2>1, <2>2
<1> HIDE DEF A
<1>4. u \o w \in Seq(A)
  BY <1>3
<1>5. /\ Len(u) \in Nat /\ Len(w) \in Nat
      /\ Len(u \o w) = Len(u) + Len(w)
  BY <1>3
<1>6. \A i \in 1..Len(u) : (u \o w)[i] = u[i]
  BY <1>3
<1>7. \A i \in 1..Len(w) : (u \o w)[Len(u) + i] = w[i]
  BY <1>3
<1> QED
  BY <1>4, <1>5, <1>6, <1>7 DEF IsText

LEMMA TokenIsText ==
  ASSUME NEW token
  PROVE  IsText(<<token>>)
<1>1. <<token>> \in Seq({token})
  OBVIOUS
<1> QED
  BY <1>1 DEF IsText

\* A text is read on from what was read of it before.
LEMMA FedConcat ==
  ASSUME NEW u, IsText(u), NEW w, IsText(w), NEW f, NEW row
  PROVE  Fed(f, u \o w, row) = Fed(Fed(f, u, row), w, row)
<1> DEFINE m == Len(u)
           n == Len(w)
           text == u \o w
           g == Fed(f, u, row)
<1>1. /\ m \in Nat /\ n \in Nat /\ Len(text) = m + n
      /\ \A i \in 1..m : text[i] = u[i]
      /\ \A i \in 1..n : text[m + i] = w[i]
  <2>1. m \in Nat /\ n \in Nat /\ Len(text) = m + n
    BY TextsConcat
  <2>2. \A i \in 1..m : text[i] = u[i]
    BY TextsConcat
  <2>3. \A i \in 1..n : text[m + i] = w[i]
    BY TextsConcat
  <2> QED
    BY <2>1, <2>2, <2>3
<1>2. PICK J : FedUpTo(f, u, row, J, m) /\ g = J[m]
  BY <1>1, FedIs
<1>3. PICK K : FedUpTo(g, w, row, K, n) /\ Fed(g, w, row) = K[n]
  BY <1>1, FedIs
<1>4. PICK L : FedUpTo(f, text, row, L, m + n) /\ Fed(f, text, row) = L[m + n]
  <2> HIDE DEF m, n, text, g
  <2>1. Len(text) \in Nat
    BY <1>1
  <2>2. PICK L : FedUpTo(f, text, row, L, Len(text)) /\ Fed(f, text, row) = L[Len(text)]
    BY <2>1, FedIs
  <2> QED
    BY <1>1, <2>2
<1> HIDE DEF m, n, text, g
<1> DEFINE M == [i \in 0..(m + n) |-> IF i <= m THEN J[i] ELSE K[i - m]]
<1>5. ASSUME NEW i \in 0..(m + n) PROVE M[i] = FedStep(f, text, row, M, i)
  <2>1. CASE i = 0
    BY <1>1, <1>2, <2>1 DEF FedUpTo, FedStep
  <2>2. CASE i # 0 /\ i <= m
    <3>1. i \in 0..m /\ i \in 1..m /\ i - 1 \in 0..(m + n) /\ i - 1 <= m
      BY <1>1, <2>2
    <3>2. M[i] = J[i] /\ M[i - 1] = J[i - 1] /\ text[i] = u[i]
      BY <1>1, <2>2, <3>1
    <3>3. J[i] = Feed(J[i - 1], u[i], row)
      BY <1>2, <2>2, <3>1 DEF FedUpTo, FedStep
    <3> HIDE DEF M
    <3> QED
      BY <2>2, <3>2, <3>3 DEF FedStep
  <2>3. CASE ~(i <= m)
    <3> DEFINE j == i - m
    <3>1. j \in 0..n /\ j \in 1..n /\ m + j = i /\ i - 1 \in 0..(m + n) /\ (i - 1) - m = j - 1
          /\ i # 0 /\ j # 0
      BY <1>1, <2>3
    <3>2. text[i] = w[j]
      BY <1>1, <3>1
    <3>3. M[i] = K[j]
      BY <2>3
    <3>4. M[i - 1] = K[j - 1]
      <4>1. CASE j = 1
        <5>1. i - 1 = m /\ j - 1 = 0 /\ m <= m /\ m \in 0..(m + n) /\ 0 \in 0..n
          BY <1>1, <3>1, <4>1
        <5>2. M[m] = J[m]
          BY <5>1
        <5>3. K[0] = g
          BY <1>3, <5>1 DEF FedUpTo, FedStep
        <5> HIDE DEF M, j
        <5> QED
          BY <1>2, <5>1, <5>2, <5>3
      <4>2. CASE j # 1
        <5>1. ~(i - 1 <= m)
          BY <1>1, <2>3, <3>1, <4>2
        <5>2. M[i - 1] = K[(i - 1) - m]
          BY <3>1, <5>1
        <5> HIDE DEF M, j
        <5> QED
          BY <3>1, <5>2
      <4> QED
        BY <4>1, <4>2
    <3> HIDE DEF M, j
    <3>5. K[j] = Feed(K[j - 1], w[j], row)
      BY <1>3, <3>1 DEF FedUpTo, FedStep
    <3> QED
      BY <3>1, <3>2, <3>3, <3>4, <3>5 DEF FedStep
  <2> QED
    BY <2>1, <2>2, <2>3
<1>6. M[m + n] = K[n]
  <2>1. CASE n = 0
    <3>1. m + n = m /\ m \in 0..(m + n) /\ m <= m /\ 0 \in 0..n
      BY <1>1, <2>1
    <3>2. K[0] = g
      BY <1>3, <3>1 DEF FedUpTo, FedStep
    <3>3. M[m] = J[m]
      BY <3>1
    <3> HIDE DEF M
    <3> QED
      BY <1>2, <2>1, <3>1, <3>2, <3>3
  <2>2. CASE n # 0
    <3>1. m + n \in 0..(m + n) /\ ~(m + n <= m) /\ (m + n) - m = n
      BY <1>1, <2>2
    <3> QED
      BY <3>1
  <2> QED
    BY <2>1, <2>2
<1> HIDE DEF M
<1>7. FedUpTo(f, text, row, M, m + n)
  BY <1>5 DEF FedUpTo
<1>8. L[m + n] = M[m + n]
  <2>1. m + n \in Nat
    BY <1>1
  <2> QED
    BY <1>4, <1>7, <2>1, FedUnique
<1> QED
  BY <1>3, <1>4, <1>6, <1>8 DEF text, g

-----------------------------------------------------------------------------
(* What mathematics reads of a text with a value.                            *)
\* A frame that is due an operand.
FrameFields ==
  {"kind", "parts", "outer", "relation", "sum", "sign", "product", "negative", "atom", "raised"}

Ready(f) ==
  /\ DOMAIN f = FrameFields /\ f.kind # "unread"
  /\ f.sum \in Values /\ f.product \in Values
  /\ f.negative \in BOOLEAN /\ f.atom = <<>>

\* Within the same part of a text.
SamePart(f, g) == g.kind = f.kind /\ g.parts = f.parts /\ g.outer = f.outer

Signed(f, v) == IF f.negative THEN Applied("neg", v) ELSE v

\* What mathematics reads of a text whose value is v, where an atom, a factor, a
\* product or a sum is due, and as a whole.
AtomRead(w, v, raised, row) ==
  IsText(w) /\ \A f : Ready(f) => Fed(f, w, row) = Operand(f, v, raised)

BaseRead(w, v, row) ==
  IsText(w) /\ \A f, g : Ready(f) /\ g = Fed(f, w, row) =>
    /\ SamePart(f, g) /\ g.relation = f.relation /\ g.sum = f.sum /\ g.sign = f.sign
    /\ g.product = f.product /\ g.negative = f.negative /\ g.atom # <<>> /\ g.atom[1] = v
    /\ ~g.raised /\ DOMAIN g = FrameFields

FactorRead(w, v, row) ==
  IsText(w) /\ \A f, g : Ready(f) /\ g = Fed(f, w, row) =>
    /\ SamePart(f, g) /\ g.relation = f.relation /\ g.sum = f.sum /\ g.sign = f.sign
    /\ g.product = f.product /\ g.atom # <<>> /\ Factor(g) = Signed(f, v)

ProductRead(w, v, row) ==
  IsText(w) /\ \A f, g : Ready(f) /\ ~f.negative /\ g = Fed(f, w, row) =>
    /\ SamePart(f, g) /\ g.relation = f.relation /\ g.sum = f.sum /\ g.sign = f.sign
    /\ g.atom # <<>> /\ Product(g) = Arith("mul", f.product, v)

SumRead(w, v, row) ==
  IsText(w) /\ \A f, g :
    Ready(f) /\ ~f.negative /\ f.product = Number(1) /\ f.sign = "add" /\ g = Fed(f, w, row) =>
      SamePart(f, g) /\ g.relation = f.relation /\ g.atom # <<>> /\ Total(g) = Arith("add", f.sum, v)

WholeRead(w, v, row) ==
  IsText(w) /\ \A f, g, kind, parts, outer :
    kind # "unread" /\ f = Frame(kind, parts, outer) /\ g = Fed(f, w, row) =>
      SamePart(f, g) /\ g.atom # <<>> /\ Whole(g) = v

LEMMA FrameIsReady ==
  ASSUME NEW kind, kind # "unread", NEW parts, NEW outer
  PROVE  LET f == Frame(kind, parts, outer)
         IN  /\ Ready(f) /\ f.kind = kind /\ f.parts = parts /\ f.outer = outer
             /\ f.relation = <<>> /\ f.sum = Number(0) /\ f.sign = "add"
             /\ f.product = Number(1) /\ ~f.negative
<1>1. Number(0) \in Values /\ Number(1) \in Values
  BY NumberIsValue
<1> QED
  BY <1>1 DEF Frame, Ready, FrameFields

LEMMA OperandFields ==
  ASSUME NEW f, Ready(f), NEW v, NEW raised
  PROVE  LET g == Operand(f, v, raised)
         IN  /\ SamePart(f, g) /\ g.relation = f.relation /\ g.sum = f.sum /\ g.sign = f.sign
             /\ g.product = f.product /\ g.negative = f.negative
             /\ g.atom = <<v>> /\ g.raised = raised /\ g.atom # <<>> /\ g.atom[1] = v
             /\ Factor(g) = Signed(f, v) /\ DOMAIN g = FrameFields
<1> DEFINE g == Operand(f, v, raised)
<1>1. g = [f EXCEPT !.atom = <<v>>, !.raised = raised]
  BY DEF Operand, Ready
<1> HIDE DEF g
<1>2. /\ SamePart(f, g) /\ g.relation = f.relation /\ g.sum = f.sum /\ g.sign = f.sign
      /\ g.product = f.product /\ g.negative = f.negative
      /\ g.atom = <<v>> /\ g.raised = raised /\ DOMAIN g = FrameFields
  BY <1>1 DEF Ready, FrameFields, SamePart
<1>3. g.atom # <<>> /\ g.atom[1] = v
  BY <1>2
<1> QED
  BY <1>2, <1>3 DEF g, Factor, Signed

\* What is read as one of these is read as the next one up.
LEMMA AtomIsBase ==
  ASSUME NEW w, NEW v, NEW raised, ~raised, NEW row, AtomRead(w, v, raised, row)
  PROVE  BaseRead(w, v, row)
BY OperandFields DEF AtomRead, BaseRead

LEMMA BaseIsFactor ==
  ASSUME NEW w, NEW v, NEW row, BaseRead(w, v, row)
  PROVE  FactorRead(w, v, row)
BY DEF BaseRead, FactorRead, Factor, Signed

LEMMA AtomIsFactor ==
  ASSUME NEW w, NEW v, NEW raised, NEW row, AtomRead(w, v, raised, row)
  PROVE  FactorRead(w, v, row)
BY OperandFields DEF AtomRead, FactorRead

LEMMA FactorIsProduct ==
  ASSUME NEW w, NEW v, NEW row, FactorRead(w, v, row)
  PROVE  ProductRead(w, v, row)
BY DEF FactorRead, ProductRead, Product, Signed

LEMMA ProductIsSum ==
  ASSUME NEW w, NEW v \in Values, NEW row, ProductRead(w, v, row)
  PROVE  SumRead(w, v, row)
<1>1. Arith("mul", Number(1), v) = v
  BY Neutral
<1>2. ASSUME NEW f, NEW g, Ready(f), ~f.negative, f.product = Number(1), f.sign = "add", g = Fed(f, w, row)
      PROVE  SamePart(f, g) /\ g.relation = f.relation /\ g.atom # <<>> /\ Total(g) = Arith("add", f.sum, v)
  <2>1. /\ SamePart(f, g) /\ g.relation = f.relation /\ g.sum = f.sum /\ g.sign = f.sign
        /\ g.atom # <<>> /\ Product(g) = Arith("mul", f.product, v)
    BY <1>2 DEF ProductRead
  <2> QED
    BY <1>1, <1>2, <2>1 DEF Total
<1> QED
  BY <1>2 DEF ProductRead, SumRead

LEMMA SumIsWhole ==
  ASSUME NEW w, NEW v \in Values, NEW row, SumRead(w, v, row)
  PROVE  WholeRead(w, v, row)
<1>1. Arith("add", Number(0), v) = v
  BY Neutral
<1>2. ASSUME NEW f, NEW g, NEW kind, NEW parts, NEW outer,
             kind # "unread", f = Frame(kind, parts, outer), g = Fed(f, w, row)
      PROVE  SamePart(f, g) /\ g.atom # <<>> /\ Whole(g) = v
  <2>1. /\ Ready(f) /\ f.relation = <<>> /\ f.sum = Number(0) /\ f.sign = "add"
        /\ f.product = Number(1) /\ ~f.negative
    BY <1>2, FrameIsReady
  <2>2. SamePart(f, g) /\ g.relation = f.relation /\ g.atom # <<>> /\ Total(g) = Arith("add", f.sum, v)
    BY <1>2, <2>1 DEF SumRead
  <2> QED
    BY <1>1, <2>1, <2>2 DEF Whole
<1> QED
  BY <1>2 DEF SumRead, WholeRead

-----------------------------------------------------------------------------
\* What opens, breaks and closes.

LEMMA FedOpening ==
  ASSUME NEW f, Ready(f), NEW kind, kind # "pow", NEW row
  PROVE  Fed(f, <<Opening(kind)>>, row) = Frame(kind, <<>>, f)
<1>1. Feed(f, Opening(kind), row) = Open(f, kind)
  BY DEF Feed, Opening, Ready
<1> QED
  BY <1>1, FedToken DEF Open

LEMMA FedBreak ==
  ASSUME NEW g, g.kind # "unread", g.atom # <<>>, NEW row
  PROVE  Fed(g, <<Break>>, row) = Frame(g.kind, Append(g.parts, Whole(g)), g.outer)
<1>1. Feed(g, Break, row) = Frame(g.kind, Append(g.parts, Whole(g)), g.outer)
  BY DEF Feed, Break
<1> QED
  BY <1>1, FedToken

LEMMA FedClosing ==
  ASSUME NEW g, g.kind # "unread", NEW row
  PROVE  Fed(g, <<Closing>>, row) = Close(g)
<1>1. Feed(g, Closing, row) = Close(g)
  BY DEF Feed, Closing
<1> QED
  BY <1>1, FedToken

\* The value of what is closed.
Closed(kind, values) ==
  IF kind = "group" THEN values[1] ELSE NumericNode(<<kind, 1, 2, 3>>, values, <<>>)

Delimiters == {"group", "div", "where"} \cup (Unary \ {"neg"})

Raises(kind) == kind = "exp"

LEMMA CloseReads ==
  ASSUME NEW kind \in Delimiters, NEW g, g.kind = kind, g.atom # <<>>, NEW row,
         NEW values, values = Append(g.parts, Whole(g))
  PROVE  Fed(g, <<Closing>>, row) = Operand(g.outer, Closed(kind, values), Raises(kind))
<1>1. kind \notin {"unread", "text", "pow"}
  BY DEF Delimiters, Unary
<1>2. Close(g) = Operand(g.outer, Closed(kind, values), Raises(kind))
  <2>1. CASE kind = "group"
    BY <1>1, <2>1 DEF Close, Closed, Raises
  <2>2. CASE kind # "group"
    BY <1>1, <2>2 DEF Close, Closed, Raises
  <2> QED
    BY <2>1, <2>2
<1> QED
  BY <1>1, <1>2, FedClosing

\* A part of what is open, read to its end.
LEMMA PartReads ==
  ASSUME NEW kind \in Delimiters, NEW parts, NEW outer, NEW f, NEW row,
         NEW u, IsText(u), Fed(f, u, row) = Frame(kind, parts, outer),
         NEW a, NEW va, WholeRead(a, va, row),
         NEW end, IsText(end)
  PROVE  /\ IsText(u \o a \o end)
         /\ \E g : /\ Fed(f, u \o a \o end, row) = Fed(g, end, row)
                  /\ g.kind = kind /\ g.parts = parts /\ g.outer = outer
                  /\ g.atom # <<>> /\ Whole(g) = va
<1> DEFINE f1 == Frame(kind, parts, outer)
           g == Fed(f1, a, row)
           head == u \o a
<1>1. kind # "unread"
  BY DEF Delimiters, Unary
<1>2. f1.kind = kind /\ f1.parts = parts /\ f1.outer = outer
  BY <1>1, FrameIsReady
<1>3. SamePart(f1, g) /\ g.atom # <<>> /\ Whole(g) = va /\ IsText(a)
  BY <1>1 DEF WholeRead
<1>4. Fed(f, u, row) = f1
  OBVIOUS
<1> HIDE DEF f1
<1>5. IsText(head) /\ Fed(f, head, row) = g
  BY <1>3, <1>4, TextsConcat, FedConcat
<1> HIDE DEF g, head
<1>6. IsText(head \o end) /\ Fed(f, head \o end, row) = Fed(g, end, row)
  BY <1>5, TextsConcat, FedConcat
<1>7. g.kind = kind /\ g.parts = parts /\ g.outer = outer
  BY <1>2, <1>3 DEF SamePart
<1> QED
  BY <1>3, <1>6, <1>7 DEF head

LEMMA BreakReads ==
  ASSUME NEW kind \in Delimiters, NEW parts, NEW outer, NEW f, NEW row,
         NEW u, IsText(u), Fed(f, u, row) = Frame(kind, parts, outer),
         NEW a, NEW va, WholeRead(a, va, row)
  PROVE  IsText(u \o a \o <<Break>>) /\ Fed(f, u \o a \o <<Break>>, row) = Frame(kind, Append(parts, va), outer)
<1> DEFINE end == <<Break>>
<1>1. IsText(end)
  BY TokenIsText
<1>2. kind # "unread"
  BY DEF Delimiters, Unary
<1>3. \A g : g.kind # "unread" /\ g.atom # <<>> =>
           Fed(g, end, row) = Frame(g.kind, Append(g.parts, Whole(g)), g.outer)
  BY FedBreak
<1> HIDE DEF end
<1>4. /\ IsText(u \o a \o end)
      /\ \E g : /\ Fed(f, u \o a \o end, row) = Fed(g, end, row)
               /\ g.kind = kind /\ g.parts = parts /\ g.outer = outer
               /\ g.atom # <<>> /\ Whole(g) = va
  BY <1>1, PartReads
<1> QED
  BY <1>2, <1>3, <1>4 DEF end

LEMMA EndReads ==
  ASSUME NEW kind \in Delimiters, NEW parts, NEW outer, NEW f, NEW row,
         NEW u, IsText(u), Fed(f, u, row) = Frame(kind, parts, outer),
         NEW a, NEW va, WholeRead(a, va, row)
  PROVE  /\ IsText(u \o a \o <<Closing>>)
         /\ Fed(f, u \o a \o <<Closing>>, row) = Operand(outer, Closed(kind, Append(parts, va)), Raises(kind))
<1> DEFINE end == <<Closing>>
<1>1. IsText(end)
  BY TokenIsText
<1>2. ASSUME NEW g, g.kind = kind, g.atom # <<>>
      PROVE  Fed(g, end, row) = Operand(g.outer, Closed(kind, Append(g.parts, Whole(g))), Raises(kind))
  <2> DEFINE values == Append(g.parts, Whole(g))
  <2>1. values = Append(g.parts, Whole(g))
    OBVIOUS
  <2> HIDE DEF values
  <2>2. Fed(g, end, row) = Operand(g.outer, Closed(kind, values), Raises(kind))
    BY <1>2, <2>1, CloseReads
  <2> QED
    BY <2>2 DEF values
<1> HIDE DEF end
<1>3. /\ IsText(u \o a \o end)
      /\ \E g : /\ Fed(f, u \o a \o end, row) = Fed(g, end, row)
               /\ g.kind = kind /\ g.parts = parts /\ g.outer = outer
               /\ g.atom # <<>> /\ Whole(g) = va
  BY <1>1, PartReads
<1> QED
  BY <1>2, <1>3 DEF end

LEMMA OpeningReads ==
  ASSUME NEW kind \in Delimiters, NEW f, Ready(f), NEW row
  PROVE  IsText(<<Opening(kind)>>) /\ Fed(f, <<Opening(kind)>>, row) = Frame(kind, <<>>, f)
<1>1. kind # "pow"
  BY DEF Delimiters, Unary
<1> QED
  BY <1>1, TokenIsText, FedOpening

\* What is enclosed in one, two or three parts is read as an atom.
LEMMA OneReads ==
  ASSUME NEW kind \in Delimiters, NEW a, NEW va, NEW row, WholeRead(a, va, row),
         NEW values, values = <<va>>
  PROVE  AtomRead(One(kind, a), Closed(kind, values), Raises(kind), row)
<1> DEFINE start == <<Opening(kind)>>
           text == start \o a \o <<Closing>>
           none == <<>>
<1>1. \A f : Ready(f) => IsText(start) /\ Fed(f, start, row) = Frame(kind, none, f)
  BY OpeningReads
<1>2. IsText(start)
  BY TokenIsText
<1> HIDE DEF start
<1>3. values = Append(none, va)
  OBVIOUS
<1> HIDE DEF none
<1>4. ASSUME NEW f, Ready(f)
      PROVE  IsText(text) /\ Fed(f, text, row) = Operand(f, Closed(kind, values), Raises(kind))
  <2>1. IsText(start) /\ Fed(f, start, row) = Frame(kind, none, f)
    BY <1>1, <1>4
  <2>2. IsText(text) /\ Fed(f, text, row) = Operand(f, Closed(kind, Append(none, va)), Raises(kind))
    BY <2>1, EndReads
  <2> QED
    BY <1>3, <2>2
<1>5. \E f : Ready(f)
  <2>1. Ready(Frame("text", <<>>, <<>>))
    BY FrameIsReady
  <2> QED
    BY <2>1
<1>6. One(kind, a) = text
  BY DEF One, start
<1> HIDE DEF text
<1> QED
  BY <1>4, <1>5, <1>6 DEF AtomRead

LEMMA TwoReads ==
  ASSUME NEW kind \in Delimiters, NEW a, NEW va, NEW b, NEW vb, NEW row,
         WholeRead(a, va, row), WholeRead(b, vb, row), NEW values, values = <<va, vb>>
  PROVE  AtomRead(Two(kind, a, b), Closed(kind, values), Raises(kind), row)
<1> DEFINE start == <<Opening(kind)>>
           first == start \o a \o <<Break>>
           text == first \o b \o <<Closing>>
           one == <<va>>
           none == <<>>
<1>1. \A f : Ready(f) => IsText(start) /\ Fed(f, start, row) = Frame(kind, none, f)
  BY OpeningReads
<1> HIDE DEF start
<1>2. one = Append(none, va) /\ values = Append(one, vb)
  OBVIOUS
<1> HIDE DEF one, none
<1>3. ASSUME NEW f, Ready(f)
      PROVE  IsText(first) /\ Fed(f, first, row) = Frame(kind, one, f)
  <2>1. IsText(start) /\ Fed(f, start, row) = Frame(kind, none, f)
    BY <1>1, <1>3
  <2>2. IsText(first) /\ Fed(f, first, row) = Frame(kind, Append(none, va), f)
    BY <2>1, BreakReads
  <2> QED
    BY <1>2, <2>2
<1> HIDE DEF first
<1>4. ASSUME NEW f, Ready(f)
      PROVE  IsText(text) /\ Fed(f, text, row) = Operand(f, Closed(kind, values), Raises(kind))
  <2>1. IsText(first) /\ Fed(f, first, row) = Frame(kind, one, f)
    BY <1>3, <1>4
  <2>2. IsText(text) /\ Fed(f, text, row) = Operand(f, Closed(kind, Append(one, vb)), Raises(kind))
    BY <2>1, EndReads
  <2> QED
    BY <1>2, <2>2
<1>5. \E f : Ready(f)
  <2>1. Ready(Frame("text", <<>>, <<>>))
    BY FrameIsReady
  <2> QED
    BY <2>1
<1>6. Two(kind, a, b) = text
  BY DEF Two, start, first
<1> HIDE DEF text
<1> QED
  BY <1>4, <1>5, <1>6 DEF AtomRead

LEMMA ThreeReads ==
  ASSUME NEW kind \in Delimiters, NEW a, NEW va, NEW b, NEW vb, NEW c, NEW vc, NEW row,
         WholeRead(a, va, row), WholeRead(b, vb, row), WholeRead(c, vc, row),
         NEW values, values = <<va, vb, vc>>
  PROVE  AtomRead(Three(kind, a, b, c), Closed(kind, values), Raises(kind), row)
<1> DEFINE start == <<Opening(kind)>>
           first == start \o a \o <<Break>>
           second == first \o b \o <<Break>>
           text == second \o c \o <<Closing>>
           one == <<va>>
           none == <<>>
           two == <<va, vb>>
<1>1. \A f : Ready(f) => IsText(start) /\ Fed(f, start, row) = Frame(kind, none, f)
  BY OpeningReads
<1> HIDE DEF start
<1>2. one = Append(none, va) /\ two = Append(one, vb) /\ values = Append(two, vc)
  OBVIOUS
<1> HIDE DEF one, two, none
<1>3. ASSUME NEW f, Ready(f)
      PROVE  IsText(first) /\ Fed(f, first, row) = Frame(kind, one, f)
  <2>1. IsText(start) /\ Fed(f, start, row) = Frame(kind, none, f)
    BY <1>1, <1>3
  <2>2. IsText(first) /\ Fed(f, first, row) = Frame(kind, Append(none, va), f)
    BY <2>1, BreakReads
  <2> QED
    BY <1>2, <2>2
<1> HIDE DEF first
<1>4. ASSUME NEW f, Ready(f)
      PROVE  IsText(second) /\ Fed(f, second, row) = Frame(kind, two, f)
  <2>1. IsText(first) /\ Fed(f, first, row) = Frame(kind, one, f)
    BY <1>3, <1>4
  <2>2. IsText(second) /\ Fed(f, second, row) = Frame(kind, Append(one, vb), f)
    BY <2>1, BreakReads
  <2> QED
    BY <1>2, <2>2
<1> HIDE DEF second
<1>5. ASSUME NEW f, Ready(f)
      PROVE  IsText(text) /\ Fed(f, text, row) = Operand(f, Closed(kind, values), Raises(kind))
  <2>1. IsText(second) /\ Fed(f, second, row) = Frame(kind, two, f)
    BY <1>4, <1>5
  <2>2. IsText(text) /\ Fed(f, text, row) = Operand(f, Closed(kind, Append(two, vc)), Raises(kind))
    BY <2>1, EndReads
  <2> QED
    BY <1>2, <2>2
<1>6. \E f : Ready(f)
  <2>1. Ready(Frame("text", <<>>, <<>>))
    BY FrameIsReady
  <2> QED
    BY <2>1
<1>7. Three(kind, a, b, c) = text
  BY DEF Three, start, first, second
<1> HIDE DEF text
<1> QED
  BY <1>5, <1>6, <1>7 DEF AtomRead

-----------------------------------------------------------------------------
(* Infix signs, and the precedence they are read with.                       *)
LEMMA FedSign ==
  ASSUME NEW f, f.kind # "unread", NEW op, NEW row
  PROVE  Fed(f, <<Sign(op)>>, row) = Operator(f, op)
<1>1. Feed(f, Sign(op), row) = Operator(f, op)
  BY DEF Feed, Sign
<1> QED
  BY <1>1, FedToken

\* Mathematics reads one part of a text after the other.
LEMMA ReadOn ==
  ASSUME NEW u, IsText(u), NEW op, NEW w, IsText(w), NEW f, NEW row
  PROVE  /\ IsText(u \o <<Sign(op)>> \o w)
         /\ Fed(f, u \o <<Sign(op)>> \o w, row) = Fed(Fed(Fed(f, u, row), <<Sign(op)>>, row), w, row)
<1> DEFINE s == <<Sign(op)>>
<1>1. IsText(s)
  BY TokenIsText
<1> HIDE DEF s
<1> DEFINE head == u \o s
<1>2. IsText(head) /\ Fed(f, head, row) = Fed(Fed(f, u, row), s, row)
  BY <1>1, TextsConcat, FedConcat
<1> HIDE DEF head
<1>3. IsText(head \o w) /\ Fed(f, head \o w, row) = Fed(Fed(f, head, row), w, row)
  BY <1>2, TextsConcat, FedConcat
<1> QED
  BY <1>2, <1>3 DEF head, s

LEMMA OperatorMul ==
  ASSUME NEW g, g.kind # "unread", g.atom # <<>>, g.sum \in Values, Product(g) \in Values,
         NEW next, next = Operator(g, "mul")
  PROVE  /\ Ready(next) /\ ~next.negative /\ SamePart(g, next) /\ next.relation = g.relation
         /\ next.sum = g.sum /\ next.sign = g.sign /\ next.product = Product(g)
<1> DEFINE fresh == Frame(g.kind, g.parts, g.outer)
           p == Product(g)
<1>1. next = [fresh EXCEPT !.relation = g.relation, !.sum = g.sum, !.sign = g.sign, !.product = p]
  BY DEF Operator, Comparison
<1>2. /\ Ready(fresh) /\ fresh.kind = g.kind /\ fresh.parts = g.parts /\ fresh.outer = g.outer
      /\ ~fresh.negative
  BY FrameIsReady
<1>3. p \in Values
  OBVIOUS
<1> HIDE DEF fresh, p
<1>4. /\ DOMAIN next = FrameFields /\ next.kind = g.kind /\ next.parts = g.parts /\ next.outer = g.outer
      /\ next.relation = g.relation /\ next.sum = g.sum /\ next.sign = g.sign /\ next.product = p
      /\ next.negative = fresh.negative /\ next.atom = fresh.atom
  BY <1>1, <1>2 DEF Ready, FrameFields
<1> QED
  BY <1>2, <1>3, <1>4 DEF Ready, SamePart, p

LEMMA OperatorAdd ==
  ASSUME NEW g, g.kind # "unread", g.atom # <<>>, Total(g) \in Values,
         NEW op \in {"add", "sub"}, NEW next, next = Operator(g, op)
  PROVE  /\ Ready(next) /\ ~next.negative /\ SamePart(g, next) /\ next.relation = g.relation
         /\ next.sum = Total(g) /\ next.sign = op /\ next.product = Number(1)
<1> DEFINE fresh == Frame(g.kind, g.parts, g.outer)
           p == Total(g)
<1>1. next = [fresh EXCEPT !.relation = g.relation, !.sum = p, !.sign = op]
  BY DEF Operator, Comparison
<1>2. /\ Ready(fresh) /\ fresh.kind = g.kind /\ fresh.parts = g.parts /\ fresh.outer = g.outer
      /\ ~fresh.negative /\ fresh.product = Number(1)
  BY FrameIsReady
<1>3. p \in Values
  OBVIOUS
<1> HIDE DEF fresh, p
<1>4. /\ DOMAIN next = FrameFields /\ next.kind = g.kind /\ next.parts = g.parts /\ next.outer = g.outer
      /\ next.relation = g.relation /\ next.sum = p /\ next.sign = op /\ next.product = fresh.product
      /\ next.negative = fresh.negative /\ next.atom = fresh.atom
  BY <1>1, <1>2 DEF Ready, FrameFields
<1> QED
  BY <1>2, <1>3, <1>4 DEF Ready, SamePart, p

LEMMA OperatorCompare ==
  ASSUME NEW g, g.kind # "unread", g.atom # <<>>, g.relation = <<>>,
         NEW op \in Comparison, NEW next, next = Operator(g, op)
  PROVE  /\ Ready(next) /\ ~next.negative /\ SamePart(g, next) /\ next.relation = <<op, Total(g)>>
         /\ next.sum = Number(0) /\ next.sign = "add" /\ next.product = Number(1)
<1> DEFINE fresh == Frame(g.kind, g.parts, g.outer)
           r == <<op, Total(g)>>
<1>0. op \notin {"mul", "add", "sub"}
  BY DEF Comparison
<1>1. next = [fresh EXCEPT !.relation = r]
  <2>1. Whole(g) = Total(g)
    BY DEF Whole
  <2> QED
    BY <1>0, <2>1 DEF Operator
<1>2. /\ Ready(fresh) /\ fresh.kind = g.kind /\ fresh.parts = g.parts /\ fresh.outer = g.outer
      /\ ~fresh.negative /\ fresh.sum = Number(0) /\ fresh.sign = "add" /\ fresh.product = Number(1)
  BY FrameIsReady
<1> HIDE DEF fresh, r
<1>4. /\ DOMAIN next = FrameFields /\ next.kind = g.kind /\ next.parts = g.parts /\ next.outer = g.outer
      /\ next.relation = r /\ next.sum = fresh.sum /\ next.sign = fresh.sign /\ next.product = fresh.product
      /\ next.negative = fresh.negative /\ next.atom = fresh.atom
  BY <1>1, <1>2 DEF Ready, FrameFields
<1> QED
  BY <1>2, <1>4 DEF Ready, SamePart, r

\* Two texts with a sign between them, by the precedence of the sign.
LEMMA SignReads ==
  ASSUME NEW w, NEW u \in Values, NEW row, FactorRead(w, u, row),
         NEW v, v = Applied("neg", u)
  PROVE  FactorRead(<<Sign("sub")>> \o w, v, row)
<1> DEFINE s == <<Sign("sub")>>
<1>1. IsText(s) /\ IsText(w)
  BY TokenIsText DEF FactorRead
<1>2. Applied("neg", v) = u
  BY Neutral
<1>3. ASSUME NEW f, NEW g, Ready(f), g = Fed(Fed(f, s, row), w, row)
      PROVE  /\ SamePart(f, g) /\ g.relation = f.relation /\ g.sum = f.sum /\ g.sign = f.sign
             /\ g.product = f.product /\ g.atom # <<>> /\ Factor(g) = Signed(f, v)
  <2> DEFINE f1 == Fed(f, s, row)
  <2>1. f1 = Operator(f, "sub")
    BY <1>3, FedSign DEF Ready
  <2>2. f1 = [f EXCEPT !.negative = ~f.negative]
    BY <1>3, <2>1 DEF Operator, Ready
  <2> HIDE DEF f1
  <2>3. /\ DOMAIN f1 = FrameFields /\ SamePart(f, f1) /\ f1.relation = f.relation /\ f1.sum = f.sum
        /\ f1.sign = f.sign /\ f1.product = f.product /\ f1.atom = f.atom
    BY <1>3, <2>2 DEF Ready, FrameFields, SamePart
  <2>4. f1.negative = ~f.negative /\ f.negative \in BOOLEAN
    BY <1>3, <2>2 DEF Ready, FrameFields
  <2>5. f1.negative \in BOOLEAN
    BY <2>4
  <2>6. Ready(f1)
    BY <1>3, <2>3, <2>5 DEF Ready, SamePart
  <2>7. /\ SamePart(f1, g) /\ g.relation = f1.relation /\ g.sum = f1.sum /\ g.sign = f1.sign
        /\ g.product = f1.product /\ g.atom # <<>> /\ Factor(g) = Signed(f1, u)
    BY <1>3, <2>6 DEF FactorRead, f1
  <2>8. Signed(f1, u) = Signed(f, v)
    BY <1>2, <2>4 DEF Signed
  <2> QED
    BY <2>3, <2>7, <2>8 DEF SamePart
<1> HIDE DEF s
<1>4. IsText(s \o w) /\ \A f : Fed(f, s \o w, row) = Fed(Fed(f, s, row), w, row)
  BY <1>1, TextsConcat, FedConcat
<1>5. FactorRead(s \o w, v, row)
  BY <1>3, <1>4 DEF FactorRead
<1> QED
  BY <1>5 DEF s

LEMMA MulReads ==
  ASSUME NEW a, NEW va \in Values, NEW b, NEW vb \in Values, NEW row,
         ProductRead(a, va, row), ProductRead(b, vb, row)
  PROVE  ProductRead(a \o <<Sign("mul")>> \o b, Arith("mul", va, vb), row)
<1> DEFINE text == a \o <<Sign("mul")>> \o b
           s == <<Sign("mul")>>
<1>1. IsText(a) /\ IsText(b)
  BY DEF ProductRead
<1>2. IsText(text) /\ \A f : Fed(f, text, row) = Fed(Fed(Fed(f, a, row), s, row), b, row)
  BY <1>1, ReadOn
<1> HIDE DEF text
<1>3. ASSUME NEW f, NEW g, Ready(f), ~f.negative, g = Fed(f, text, row)
      PROVE  /\ SamePart(f, g) /\ g.relation = f.relation /\ g.sum = f.sum /\ g.sign = f.sign
             /\ g.atom # <<>> /\ Product(g) = Arith("mul", f.product, Arith("mul", va, vb))
  <2> DEFINE f1 == Fed(f, a, row)
             f2 == Fed(f1, s, row)
  <2>1. /\ SamePart(f, f1) /\ f1.relation = f.relation /\ f1.sum = f.sum /\ f1.sign = f.sign
        /\ f1.atom # <<>> /\ Product(f1) = Arith("mul", f.product, va)
    BY <1>3 DEF ProductRead
  <2>2. g = Fed(f2, b, row)
    BY <1>2, <1>3
  <2> HIDE DEF f1
  <2>3. f1.kind # "unread" /\ f1.sum \in Values /\ Product(f1) \in Values
    BY <1>3, <2>1, Sums DEF Ready, SamePart
  <2>4. f2 = Operator(f1, "mul")
    BY <2>3, FedSign
  <2> HIDE DEF f2, s
  <2>5. /\ Ready(f2) /\ ~f2.negative /\ SamePart(f1, f2) /\ f2.relation = f1.relation
        /\ f2.sum = f1.sum /\ f2.sign = f1.sign /\ f2.product = Product(f1)
    BY <2>1, <2>3, <2>4, OperatorMul
  <2>6. /\ SamePart(f2, g) /\ g.relation = f2.relation /\ g.sum = f2.sum /\ g.sign = f2.sign
        /\ g.atom # <<>> /\ Product(g) = Arith("mul", f2.product, vb)
    BY <2>2, <2>5 DEF ProductRead
  <2>7. Arith("mul", Arith("mul", f.product, va), vb) = Arith("mul", f.product, Arith("mul", va, vb))
    <3>1. f.product \in Values
      BY <1>3 DEF Ready
    <3> QED
      BY <3>1, Sums
  <2> QED
    BY <2>1, <2>5, <2>6, <2>7 DEF SamePart
<1> QED
  BY <1>2, <1>3 DEF ProductRead, text

LEMMA AddReads ==
  ASSUME NEW a, NEW va \in Values, NEW b, NEW vb \in Values, NEW row,
         SumRead(a, va, row), SumRead(b, vb, row)
  PROVE  SumRead(a \o <<Sign("add")>> \o b, Arith("add", va, vb), row)
<1> DEFINE text == a \o <<Sign("add")>> \o b
           s == <<Sign("add")>>
<1>1. IsText(a) /\ IsText(b)
  BY DEF SumRead
<1>2. IsText(text) /\ \A f : Fed(f, text, row) = Fed(Fed(Fed(f, a, row), s, row), b, row)
  BY <1>1, ReadOn
<1> HIDE DEF text
<1>3. ASSUME NEW f, NEW g, Ready(f), ~f.negative, f.product = Number(1), f.sign = "add", g = Fed(f, text, row)
      PROVE  /\ SamePart(f, g) /\ g.relation = f.relation
             /\ g.atom # <<>> /\ Total(g) = Arith("add", f.sum, Arith("add", va, vb))
  <2> DEFINE f1 == Fed(f, a, row)
             f2 == Fed(f1, s, row)
  <2>1. /\ SamePart(f, f1) /\ f1.relation = f.relation
        /\ f1.atom # <<>> /\ Total(f1) = Arith("add", f.sum, va)
    BY <1>3 DEF SumRead
  <2>2. g = Fed(f2, b, row)
    BY <1>2, <1>3
  <2> HIDE DEF f1
  <2>3. f1.kind # "unread" /\ Total(f1) \in Values
    BY <1>3, <2>1, Sums DEF Ready, SamePart
  <2>4. f2 = Operator(f1, "add")
    BY <2>3, FedSign
  <2> HIDE DEF f2, s
  <2>5. /\ Ready(f2) /\ ~f2.negative /\ SamePart(f1, f2) /\ f2.relation = f1.relation
        /\ f2.sum = Total(f1) /\ f2.sign = "add" /\ f2.product = Number(1)
    BY <2>1, <2>3, <2>4, OperatorAdd
  <2>6. /\ SamePart(f2, g) /\ g.relation = f2.relation
        /\ g.atom # <<>> /\ Total(g) = Arith("add", f2.sum, vb)
    BY <2>2, <2>5 DEF SumRead
  <2>7. Arith("add", Arith("add", f.sum, va), vb) = Arith("add", f.sum, Arith("add", va, vb))
    <3>1. f.sum \in Values
      BY <1>3 DEF Ready
    <3> QED
      BY <3>1, Sums
  <2> QED
    BY <2>1, <2>5, <2>6, <2>7 DEF SamePart
<1> QED
  BY <1>2, <1>3 DEF SumRead, text

LEMMA SubReads ==
  ASSUME NEW a, NEW va \in Values, NEW b, NEW vb \in Values, NEW row,
         SumRead(a, va, row), ProductRead(b, vb, row)
  PROVE  SumRead(a \o <<Sign("sub")>> \o b, Arith("sub", va, vb), row)
<1> DEFINE text == a \o <<Sign("sub")>> \o b
           s == <<Sign("sub")>>
<1>1. IsText(a) /\ IsText(b)
  BY DEF SumRead, ProductRead
<1>2. IsText(text) /\ \A f : Fed(f, text, row) = Fed(Fed(Fed(f, a, row), s, row), b, row)
  BY <1>1, ReadOn
<1> HIDE DEF text
<1>3. ASSUME NEW f, NEW g, Ready(f), ~f.negative, f.product = Number(1), f.sign = "add", g = Fed(f, text, row)
      PROVE  /\ SamePart(f, g) /\ g.relation = f.relation
             /\ g.atom # <<>> /\ Total(g) = Arith("add", f.sum, Arith("sub", va, vb))
  <2> DEFINE f1 == Fed(f, a, row)
             f2 == Fed(f1, s, row)
  <2>1. /\ SamePart(f, f1) /\ f1.relation = f.relation
        /\ f1.atom # <<>> /\ Total(f1) = Arith("add", f.sum, va)
    BY <1>3 DEF SumRead
  <2>2. g = Fed(f2, b, row)
    BY <1>2, <1>3
  <2> HIDE DEF f1
  <2>3. f1.kind # "unread" /\ Total(f1) \in Values
    BY <1>3, <2>1, Sums DEF Ready, SamePart
  <2>4. f2 = Operator(f1, "sub")
    BY <2>3, FedSign
  <2> HIDE DEF f2, s
  <2>5. /\ Ready(f2) /\ ~f2.negative /\ SamePart(f1, f2) /\ f2.relation = f1.relation
        /\ f2.sum = Total(f1) /\ f2.sign = "sub" /\ f2.product = Number(1)
    BY <2>1, <2>3, <2>4, OperatorAdd
  <2>6. /\ SamePart(f2, g) /\ g.relation = f2.relation /\ g.sum = f2.sum /\ g.sign = f2.sign
        /\ g.atom # <<>> /\ Product(g) = Arith("mul", Number(1), vb)
    BY <2>2, <2>5 DEF ProductRead
  <2>7. Total(g) = Arith("sub", Total(f1), vb)
    BY <2>5, <2>6, Neutral DEF Total
  <2>8. Arith("sub", Arith("add", f.sum, va), vb) = Arith("add", f.sum, Arith("sub", va, vb))
    <3>1. f.sum \in Values
      BY <1>3 DEF Ready
    <3> QED
      BY <3>1, Sums
  <2> QED
    BY <2>1, <2>5, <2>6, <2>7, <2>8 DEF SamePart
<1> QED
  BY <1>2, <1>3 DEF SumRead, text

LEMMA CompareReads ==
  ASSUME NEW a, NEW va \in Values, NEW b, NEW vb \in Values, NEW row, NEW op \in Comparison,
         SumRead(a, va, row), SumRead(b, vb, row)
  PROVE  WholeRead(a \o <<Sign(op)>> \o b, Truth(NumericCompares(op, va, vb)), row)
<1> DEFINE text == a \o <<Sign(op)>> \o b
           s == <<Sign(op)>>
<1>1. IsText(a) /\ IsText(b)
  BY DEF SumRead
<1>2. IsText(text) /\ \A f : Fed(f, text, row) = Fed(Fed(Fed(f, a, row), s, row), b, row)
  BY <1>1, ReadOn
<1>n. Arith("add", Number(0), va) = va /\ Arith("add", Number(0), vb) = vb
  BY Neutral
<1> HIDE DEF text
<1>3. ASSUME NEW f, NEW g, NEW kind, NEW parts, NEW outer,
             kind # "unread", f = Frame(kind, parts, outer), g = Fed(f, text, row)
      PROVE  /\ SamePart(f, g) /\ g.atom # <<>> /\ Whole(g) = Truth(NumericCompares(op, va, vb))
  <2> DEFINE f1 == Fed(f, a, row)
             f2 == Fed(f1, s, row)
  <2>0. /\ Ready(f) /\ f.kind = kind /\ f.relation = <<>> /\ f.sum = Number(0) /\ f.sign = "add"
        /\ f.product = Number(1) /\ ~f.negative
    BY <1>3, FrameIsReady
  <2>1. /\ SamePart(f, f1) /\ f1.relation = f.relation
        /\ f1.atom # <<>> /\ Total(f1) = Arith("add", f.sum, va)
    BY <2>0 DEF SumRead
  <2>2. g = Fed(f2, b, row)
    BY <1>2, <1>3
  <2> HIDE DEF f1
  <2>3. f1.kind # "unread" /\ Total(f1) = va /\ f1.relation = <<>>
    BY <1>3, <1>n, <2>0, <2>1 DEF SamePart
  <2>4. f2 = Operator(f1, op)
    BY <2>3, FedSign
  <2> HIDE DEF f2, s
  <2>5. /\ Ready(f2) /\ ~f2.negative /\ SamePart(f1, f2) /\ f2.relation = <<op, Total(f1)>>
        /\ f2.sum = Number(0) /\ f2.sign = "add" /\ f2.product = Number(1)
    BY <2>1, <2>3, <2>4, OperatorCompare
  <2>6. /\ SamePart(f2, g) /\ g.relation = f2.relation
        /\ g.atom # <<>> /\ Total(g) = Arith("add", f2.sum, vb)
    BY <2>2, <2>5 DEF SumRead
  <2>7. Total(g) = vb /\ g.relation = <<op, va>>
    BY <1>n, <2>3, <2>5, <2>6
  <2>8. g.relation # <<>> /\ g.relation[1] = op /\ g.relation[2] = va
    BY <2>7
  <2>9. Whole(g) = Truth(NumericCompares(g.relation[1], g.relation[2], Total(g)))
    BY <2>8 DEF Whole
  <2> QED
    BY <2>1, <2>5, <2>6, <2>7, <2>8, <2>9 DEF SamePart
<1> QED
  BY <1>2, <1>3 DEF WholeRead, text

LEMMA PowReads ==
  ASSUME NEW a, NEW va, NEW b, NEW vb, NEW row,
         BaseRead(a, va, row), WholeRead(b, vb, row)
  PROVE  FactorRead(a \o One("pow", b), Arith("pow", va, vb), row)
<1> DEFINE start == <<Opening("pow")>>
           end == <<Closing>>
           mid == start \o b
           exponent == mid \o end
           v == Arith("pow", va, vb)
<1>1. IsText(start) /\ IsText(end) /\ IsText(a) /\ IsText(b) /\ One("pow", b) = exponent
  BY TokenIsText DEF BaseRead, WholeRead, One
<1>2. \A g : g.kind # "unread" /\ g.atom # <<>> /\ ~g.raised => Fed(g, start, row) = Frame("pow", <<>>, g)
  <2> SUFFICES ASSUME NEW g, g.kind # "unread", g.atom # <<>>, ~g.raised
               PROVE  Fed(g, start, row) = Frame("pow", <<>>, g)
    OBVIOUS
  <2>1. Feed(g, Opening("pow"), row) = Open(g, "pow")
    BY DEF Feed, Opening
  <2> QED
    BY <2>1, FedToken DEF Open
<1>3. \A g : g.kind # "unread" => Fed(g, end, row) = Close(g)
  BY FedClosing
<1> HIDE DEF start, end
<1>4. IsText(mid) /\ \A f : Fed(f, mid, row) = Fed(Fed(f, start, row), b, row)
  BY <1>1, TextsConcat, FedConcat
<1> HIDE DEF mid
<1>5. IsText(exponent) /\ \A f : Fed(f, exponent, row) = Fed(Fed(f, mid, row), end, row)
  BY <1>1, <1>4, TextsConcat, FedConcat
<1> HIDE DEF exponent
<1>6. IsText(a \o exponent) /\ \A f : Fed(f, a \o exponent, row) = Fed(Fed(f, a, row), exponent, row)
  BY <1>1, <1>5, TextsConcat, FedConcat
<1>7. ASSUME NEW f, NEW g, Ready(f), g = Fed(f, a \o exponent, row)
      PROVE  /\ SamePart(f, g) /\ g.relation = f.relation /\ g.sum = f.sum /\ g.sign = f.sign
             /\ g.product = f.product /\ g.atom # <<>> /\ Factor(g) = Signed(f, v)
  <2> DEFINE f1 == Fed(f, a, row)
             f2 == Frame("pow", <<>>, f1)
             f3 == Fed(f2, b, row)
  <2>1. Fed(f, a, row) = f1
    OBVIOUS
  <2>2. /\ SamePart(f, f1) /\ f1.relation = f.relation /\ f1.sum = f.sum /\ f1.sign = f.sign
        /\ f1.product = f.product /\ f1.negative = f.negative
        /\ f1.atom # <<>> /\ f1.atom[1] = va /\ ~f1.raised /\ DOMAIN f1 = FrameFields
    BY <1>7 DEF BaseRead
  <2> HIDE DEF f1
  <2>3. f1.kind # "unread"
    BY <1>7, <2>2 DEF SamePart, Ready
  <2>4. Fed(f1, start, row) = f2
    BY <1>2, <2>2, <2>3
  <2>5. f2.kind = "pow" /\ f2.parts = <<>> /\ f2.outer = f1
    BY FrameIsReady
  <2>6. SamePart(f2, f3) /\ f3.atom # <<>> /\ Whole(f3) = vb
    BY DEF WholeRead
  <2> HIDE DEF f2, f3
  <2>7. f3.kind = "pow" /\ f3.parts = <<>> /\ f3.outer = f1
    BY <2>5, <2>6 DEF SamePart
  <2>8. g = Close(f3)
    <3>1. Fed(f2, b, row) = f3
      BY DEF f3
    <3> QED
      BY <1>3, <1>4, <1>5, <1>6, <1>7, <2>1, <2>4, <2>7, <3>1
  <2>9. Append(<<>>, vb)[1] = vb
    OBVIOUS
  <2>10. g = [f1 EXCEPT !.atom = <<Arith("pow", f1.atom[1], vb)>>, !.raised = TRUE]
    BY <2>6, <2>7, <2>8, <2>9 DEF Close
  <2>11. g = [f1 EXCEPT !.atom = <<v>>, !.raised = TRUE]
    BY <2>2, <2>10
  <2> HIDE DEF v
  <2>12. /\ SamePart(f1, g) /\ g.relation = f1.relation /\ g.sum = f1.sum /\ g.sign = f1.sign
         /\ g.product = f1.product /\ g.negative = f1.negative /\ g.atom = <<v>>
    BY <2>2, <2>11 DEF FrameFields, SamePart
  <2>13. g.atom # <<>> /\ g.atom[1] = v
    BY <2>12
  <2> QED
    BY <2>2, <2>12, <2>13 DEF SamePart, Factor, Signed
<1> QED
  BY <1>1, <1>6, <1>7 DEF FactorRead, v

-----------------------------------------------------------------------------
(* The text of a tree is made of the texts of its args.                      *)
IsRender(e, f) == f = [t \in Subtrees(e) |-> RenderNode(t, f)]
RenderUpTo(e, f, k) == \A t \in Subtrees(e) : Low(t, k) => f[t] = RenderNode(t, f)

LEMMA RenderReads ==
  ASSUME NEW e, IsNode(e), NEW f, NEW g, \A c \in Children(e) : f[c] = g[c]
  PROVE  RenderNode(e, f) = RenderNode(e, g)
<1>1. ASSUME NEW parent \in Precedence
      PROVE  RenderBelow(e, f, parent) = RenderBelow(e, g, parent)
  <2>1. CASE e[1] \in {"var", "lit"}
    BY <2>1 DEF RenderBelow, Unary, Comparison
  <2>2. CASE e[1] \notin {"var", "lit"}
    <3>1. /\ f[e[1 + 1]] = g[e[1 + 1]]
          /\ e[1] \in Comparison \cup Arithmetic \cup {"where"} => f[e[2 + 1]] = g[e[2 + 1]]
          /\ e[1] = "where" => f[e[3 + 1]] = g[e[3 + 1]]
      BY <2>2, ArgsAreChildren, Arities
    <3>2. CASE e[1] \in Unary
      BY <3>1, <3>2 DEF RenderBelow, Unary, Comparison
    <3>3. CASE e[1] \in Comparison \cup Arithmetic
      <4>1. f[e[1 + 1]] = g[e[1 + 1]] /\ f[e[2 + 1]] = g[e[2 + 1]]
        BY <3>1, <3>3
      <4> QED
        BY <3>3, <4>1 DEF RenderBelow, Unary, Comparison, Arithmetic
    <3>4. CASE e[1] = "where"
      BY <3>1, <3>4 DEF RenderBelow, Unary, Comparison
    <3> QED
      BY <2>2, <3>2, <3>3, <3>4, Arities
  <2> QED
    BY <2>1, <2>2
<1> QED
  BY <1>1 DEF RenderNode

LEMMA RenderExists ==
  ASSUME NEW e, IsTree(e, Height)
  PROVE  \E f : IsRender(e, f)
<1> DEFINE N == {k \in Nat : k <= Height => \E f : RenderUpTo(e, f, k)}
           Once(f) == [t \in Subtrees(e) |-> RenderNode(t, f)]
<1>0. Height \in Nat /\ Low(e, Height)
  BY ExpressionAssumption DEF IsTree, Low
<1>1. ASSUME NEW f, NEW k \in 0..Height,
             \A t \in Subtrees(e) : Low(t, k) => \A c \in Children(t) : f[c] = RenderNode(c, f)
      PROVE  RenderUpTo(e, Once(f), k)
  <2> SUFFICES ASSUME NEW t \in Subtrees(e), Low(t, k)
               PROVE  Once(f)[t] = RenderNode(t, Once(f))
    BY DEF RenderUpTo
  <2>1. \A c \in Children(t) : Once(f)[c] = f[c]
    BY <1>0, <1>1, SubtreesClosed
  <2>2. IsNode(t)
    BY DEF IsTree
  <2>3. Once(f)[t] = RenderNode(t, f)
    OBVIOUS
  <2> HIDE DEF Once
  <2>4. RenderNode(t, Once(f)) = RenderNode(t, f)
    BY <2>1, <2>2, RenderReads
  <2> QED
    BY <2>3, <2>4
<1>2. 0 \in N
  <2>1. \A t : Low(t, 0) => Children(t) = {}
    <3>1. 0 \in 0..Height /\ ~(0 - 1 \in 0..Height)
      BY <1>0
    <3> QED
      BY <3>1, LowChildren
  <2> HIDE DEF Once
  <2>2. RenderUpTo(e, Once(0), 0)
    BY <1>0, <1>1, <2>1
  <2> QED
    BY <2>2
<1>3. ASSUME NEW k \in N PROVE k + 1 \in N
  <2> SUFFICES ASSUME k + 1 <= Height PROVE \E f : RenderUpTo(e, f, k + 1)
    OBVIOUS
  <2>0. k <= Height
    BY <1>0
  <2>1. PICK f : RenderUpTo(e, f, k)
    BY <2>0
  <2>2. k + 1 \in 0..Height /\ (k + 1) - 1 = k
    BY <1>0
  <2>3. ASSUME NEW t \in Subtrees(e), Low(t, k + 1), NEW c \in Children(t)
        PROVE  f[c] = RenderNode(c, f)
    <3>1. Low(c, k)
      BY <2>2, <2>3, LowChildren
    <3>2. c \in Subtrees(e)
      BY <1>0, SubtreesClosed
    <3> QED
      BY <2>1, <3>1, <3>2 DEF RenderUpTo
  <2> HIDE DEF Once
  <2>4. RenderUpTo(e, Once(f), k + 1)
    BY <1>1, <2>2, <2>3
  <2> QED
    BY <2>4
<1>4. Height \in N
  <2> HIDE DEF N
  <2>1. N \subseteq Nat
    BY DEF N
  <2> QED
    BY <1>0, <1>2, <1>3, <2>1, Induction
<1>5. PICK f : RenderUpTo(e, f, Height)
  BY <1>0, <1>4
<1>6. Height \in 0..Height
  BY <1>0
<1>7. \A t \in Subtrees(e) : Low(t, Height) /\ Children(t) \subseteq Subtrees(e)
  BY <1>0, SubtreesClosed
<1>8. RenderUpTo(e, Once(f), Height)
  <2> HIDE DEF Once, N
  <2> QED
    BY <1>1, <1>5, <1>6, <1>7 DEF RenderUpTo
<1> DEFINE g == Once(f)
<1>9. g = [t \in Subtrees(e) |-> g[t]]
  OBVIOUS
<1> HIDE DEF g, Once
<1>10. IsRender(e, g)
  BY <1>7, <1>8, <1>9 DEF IsRender, RenderUpTo, g
<1> QED
  BY <1>10

LEMMA RenderIs ==
  ASSUME NEW e, IsTree(e, Height)
  PROVE  \E f : IsRender(e, f) /\ Render(e) = f[e]
<1>1. Render(e) = (CHOOSE f : IsRender(e, f))[e]
  BY DEF Render, IsRender
<1> QED
  BY <1>1, RenderExists

\* The text of a node is made of those of its args.
LEMMA RenderUnfolds ==
  ASSUME NEW e, IsTree(e, Height)
  PROVE  Render(e) = RenderNode(e, [c \in Children(e) |-> Render(c)])
<1>0. Low(e, Height) /\ IsNode(e)
  BY SubtreesClosed DEF IsTree, Low
<1>1. PICK f : IsRender(e, f) /\ Render(e) = f[e]
  BY RenderIs
<1>2. \A t \in Subtrees(e) : f[t] = RenderNode(t, f)
  BY <1>1 DEF IsRender
<1>3. ASSUME NEW c \in Children(e) PROVE f[c] = Render(c)
  <2>1. c \in Subtrees(e) /\ IsTree(c, Height) /\ Low(c, Height)
    BY <1>0, SubtreesClosed, TreeParts
  <2>2. PICK g : IsRender(c, g) /\ Render(c) = g[c]
    BY <2>1, RenderIs
  <2>3. \A t \in Subtrees(c) : g[t] = RenderNode(t, g)
    BY <2>2 DEF IsRender
  <2> DEFINE Q == {t \in Subtrees(c) : f[t] = g[t]}
  <2>4. ASSUME NEW t \in Subtrees(c), Children(t) \subseteq Q PROVE t \in Q
    <3>1. t \in Subtrees(e) /\ IsNode(t)
      BY <1>0, <2>1, SubtreesNested, TreeParts
    <3>2. RenderNode(t, f) = RenderNode(t, g)
      BY <2>4, <3>1, RenderReads
    <3> QED
      BY <1>2, <2>3, <3>1, <3>2
  <2>5. c \in Q
    <3> HIDE DEF Q
    <3> QED
      BY <2>1, <2>4, TreeInduction, SubtreesClosed
  <2> QED
    BY <2>2, <2>5
<1> DEFINE h == [c \in Children(e) |-> Render(c)]
<1>4. \A c \in Children(e) : f[c] = h[c]
  BY <1>3
<1> HIDE DEF h
<1>5. RenderNode(e, f) = RenderNode(e, h)
  BY <1>0, <1>4, RenderReads
<1>6. e \in Subtrees(e)
  BY <1>0, SubtreesClosed
<1> QED
  BY <1>1, <1>2, <1>5, <1>6 DEF h

-----------------------------------------------------------------------------
(* The texts and the values of the nodes, kind by kind.                      *)
\* What each kind of node prints.
LEMMA RenderedArgs ==
  ASSUME NEW e, IsTree(e, Height), NEW p \in Precedence
  PROVE  /\ e[1] = "var" => Render(e)[p] = <<Sym(e[2])>>
         /\ e[1] = "lit" =>
              Render(e)[p] = IF e[2] < 0 THEN <<Sign("sub"), Num(-e[2])>> ELSE <<Num(e[2])>>
         /\ e[1] = "neg" => Render(e)[p] = <<Sign("sub")>> \o Render(e[2])[3]
         /\ e[1] \in Unary \ {"neg"} => Render(e)[p] = One(e[1], Render(e[2])[0])
         /\ e[1] = "div" => Render(e)[p] = Two("div", Render(e[2])[0], Render(e[3])[0])
         /\ e[1] = "mul" => Render(e)[p] = Infix(Render(e[2])[2], "mul", Render(e[3])[2], p, 2)
         /\ e[1] = "pow" => Render(e)[p] = Render(e[2])[4] \o One("pow", Render(e[3])[0])
         /\ e[1] = "where" =>
              Render(e)[p] = Three("where", Render(e[2])[0], Render(e[3])[0], Render(e[4])[0])
         /\ e[1] \in {"add", "sub"} \cup Comparison =>
              Render(e)[p] = Infix(Render(e[2])[1], e[1], Render(e[3])[1], p, 1)
<1> DEFINE text == [c \in Children(e) |-> Render(c)]
<1>1. Render(e)[p] = RenderBelow(e, text, p)
  BY RenderUnfolds DEF RenderNode
<1>2. IsNode(e)
  BY SubtreesClosed DEF IsTree, Low
<1>3. CASE e[1] \in {"var", "lit"}
  <2> HIDE DEF text
  <2> QED
    BY <1>1, <1>3 DEF RenderBelow, Unary, Comparison
<1>4. CASE e[1] \notin {"var", "lit"}
  <2>1. /\ e[2] \in Children(e)
        /\ e[1] \in Comparison \cup Arithmetic \cup {"where"} => e[3] \in Children(e)
        /\ e[1] = "where" => e[4] \in Children(e)
    <3>1. 1 + 1 = 2 /\ 2 + 1 = 3 /\ 3 + 1 = 4
      OBVIOUS
    <3> QED
      BY <1>2, <1>4, <3>1, ArgsAreChildren, Arities
  <2>2. /\ text[e[2]] = Render(e[2])
        /\ e[1] \in Comparison \cup Arithmetic \cup {"where"} => text[e[3]] = Render(e[3])
        /\ e[1] = "where" => text[e[4]] = Render(e[4])
    BY <2>1
  <2> HIDE DEF text
  <2>n. 1 + 1 = 2 /\ 2 + 1 = 3 /\ 3 + 1 = 4
    OBVIOUS
  <2>3. CASE e[1] \in Unary
    <3>1. CASE e[1] = "neg"
      <4>1. Render(e)[p] = <<Sign("sub")>> \o text[e[1 + 1]][3]
        BY <1>1, <3>1 DEF RenderBelow, Unary, Comparison
      <4>2. Render(e)[p] = <<Sign("sub")>> \o Render(e[2])[3]
        BY <2>2, <2>n, <4>1
      <4> QED
        BY <3>1, <4>2 DEF Unary, Comparison
    <3>2. CASE e[1] # "neg"
      <4>1. Render(e)[p] = One(e[1], text[e[1 + 1]][0])
        BY <1>1, <2>3, <3>2 DEF RenderBelow, Unary, Comparison
      <4>2. Render(e)[p] = One(e[1], Render(e[2])[0])
        BY <2>2, <2>n, <4>1
      <4> QED
        BY <2>3, <3>2, <4>2 DEF Unary, Comparison
    <3> QED
      BY <3>1, <3>2
  <2>4. CASE e[1] \in Comparison \cup Arithmetic
    <3>0. text[e[1 + 1]] = Render(e[2]) /\ text[e[2 + 1]] = Render(e[3])
      BY <2>2, <2>4, <2>n
    <3>1. CASE e[1] = "div"
      <4>1. Render(e)[p] = Two("div", Render(e[2])[0], Render(e[3])[0])
        BY <1>1, <3>0, <3>1 DEF RenderBelow, Unary, Comparison
      <4> QED
        BY <3>1, <4>1 DEF Unary, Comparison
    <3>2. CASE e[1] = "mul"
      <4>1. Render(e)[p] = Infix(Render(e[2])[2], "mul", Render(e[3])[2], p, 2)
        BY <1>1, <3>0, <3>2 DEF RenderBelow, Unary, Comparison
      <4> QED
        BY <3>2, <4>1 DEF Unary, Comparison
    <3>3. CASE e[1] = "pow"
      <4>1. Render(e)[p] = Render(e[2])[4] \o One("pow", Render(e[3])[0])
        BY <1>1, <3>0, <3>3 DEF RenderBelow, Unary, Comparison
      <4> QED
        BY <3>3, <4>1 DEF Unary, Comparison
    <3>4. CASE e[1] \in {"add", "sub"} \cup Comparison
      <4>1. Render(e)[p] = Infix(Render(e[2])[1], e[1], Render(e[3])[1], p, 1)
        BY <1>1, <3>0, <3>4 DEF RenderBelow, Unary, Comparison
      <4> QED
        BY <3>4, <4>1 DEF Unary, Comparison
    <3> QED
      BY <2>4, <3>1, <3>2, <3>3, <3>4 DEF Arithmetic
  <2>5. CASE e[1] = "where"
    BY <1>1, <2>2, <2>5 DEF RenderBelow, Unary, Comparison
  <2> QED
    BY <1>2, <1>4, <2>3, <2>4, <2>5, Arities
<1> QED
  BY <1>3, <1>4

\* What each kind of node computes.
LEMMA ValuedArgs ==
  ASSUME NEW e, IsTree(e, Height), NEW row
  PROVE  /\ e[1] = "var" => Numeric(e, row) = row[e[2]]
         /\ e[1] = "lit" => Numeric(e, row) = Number(e[2])
         /\ e[1] = "neg" => Numeric(e, row) = Applied("neg", Numeric(e[2], row))
         /\ e[1] \in Unary \ {"neg"} => Numeric(e, row) = Closed(e[1], <<Numeric(e[2], row)>>)
         /\ e[1] = "div" =>
              Numeric(e, row) = Closed("div", <<Numeric(e[2], row), Numeric(e[3], row)>>)
         /\ e[1] = "where" =>
              Numeric(e, row) = Closed("where", <<Numeric(e[2], row), Numeric(e[3], row), Numeric(e[4], row)>>)
         /\ e[1] \in {"add", "sub", "mul", "pow"} =>
              Numeric(e, row) = Arith(e[1], Numeric(e[2], row), Numeric(e[3], row))
         /\ e[1] \in Comparison =>
              Numeric(e, row) = Truth(NumericCompares(e[1], Numeric(e[2], row), Numeric(e[3], row)))
<1> DEFINE value == [c \in Children(e) |-> Numeric(c, row)]
<1>1. Numeric(e, row) = NumericNode(e, value, row)
  BY NumericUnfolds
<1>2. IsNode(e)
  BY SubtreesClosed DEF IsTree, Low
<1>3. CASE e[1] \in {"var", "lit"}
  <2> HIDE DEF value
  <2> QED
    BY <1>1, <1>3 DEF NumericNode, Unary, Comparison, Arithmetic
<1>4. CASE e[1] \notin {"var", "lit"}
  <2>1. /\ e[2] \in Children(e)
        /\ e[1] \in Comparison \cup Arithmetic \cup {"where"} => e[3] \in Children(e)
        /\ e[1] = "where" => e[4] \in Children(e)
    <3>1. 1 + 1 = 2 /\ 2 + 1 = 3 /\ 3 + 1 = 4
      OBVIOUS
    <3> QED
      BY <1>2, <1>4, <3>1, ArgsAreChildren, Arities
  <2>2. /\ value[e[2]] = Numeric(e[2], row)
        /\ e[1] \in Comparison \cup Arithmetic \cup {"where"} => value[e[3]] = Numeric(e[3], row)
        /\ e[1] = "where" => value[e[4]] = Numeric(e[4], row)
    BY <2>1
  <2> HIDE DEF value
  <2>3. ASSUME NEW given, \A i \in 1..Arity(e[1]) : value[e[i + 1]] = given[i], e[1] # "group"
        PROVE  NumericNode(e, value, row) = Closed(e[1], given)
    <3> DEFINE r == <<e[1], 1, 2, 3>>
    <3>1. Arity(e[1]) \in 1..3 /\ r[1] = e[1] /\ \A i \in 1..3 : r[i + 1] = i
      BY <1>2, <1>4, ArgsAreChildren
    <3> HIDE DEF r
    <3>2. \A i \in 1..Arity(e[1]) : value[e[i + 1]] = given[r[i + 1]]
      BY <2>3, <3>1
    <3>3. NumericNode(e, value, row) = NumericNode(r, given, <<>>)
      BY <1>2, <1>4, <3>1, <3>2, NumericNodeReads
    <3> QED
      BY <2>3, <3>3 DEF Closed, r
  <2>4. CASE e[1] \in Unary
    <3>1. e[1] \notin {"div", "where", "add", "sub", "mul", "pow", "group"} \cup Comparison /\ Arity(e[1]) = 1
      BY <2>4 DEF Unary, Comparison, Arity
    <3>2. e[1] = "neg" => Numeric(e, row) = Applied("neg", Numeric(e[2], row))
      BY <1>1, <2>2 DEF NumericNode, Unary, Comparison, Arithmetic
    <3> DEFINE given == <<Numeric(e[2], row)>>
    <3>3. \A i \in 1..Arity(e[1]) : value[e[i + 1]] = given[i]
      BY <2>2, <3>1
    <3> HIDE DEF given
    <3>4. Numeric(e, row) = Closed(e[1], given)
      BY <1>1, <2>3, <3>1, <3>3
    <3> QED
      BY <1>4, <3>1, <3>2, <3>4 DEF given
  <2>5. CASE e[1] \in Comparison
    <3>1. e[1] \notin {"div", "where", "add", "sub", "mul", "pow", "group"} \cup Unary
      BY <2>5 DEF Unary, Comparison
    <3>2. Numeric(e, row) = Truth(NumericCompares(e[1], Numeric(e[2], row), Numeric(e[3], row)))
      BY <1>1, <2>2, <2>5 DEF NumericNode, Unary, Comparison, Arithmetic
    <3> QED
      BY <1>4, <3>1, <3>2 DEF Unary
  <2>6. CASE e[1] \in Arithmetic
    <3>1. e[1] \notin {"neg", "where", "group"} \cup Unary \cup Comparison /\ Arity(e[1]) = 2
      BY <2>6 DEF Unary, Comparison, Arithmetic, Arity
    <3>2. Numeric(e, row) = Arith(e[1], Numeric(e[2], row), Numeric(e[3], row))
      BY <1>1, <2>2, <2>6 DEF NumericNode, Unary, Comparison, Arithmetic
    <3> DEFINE given == <<Numeric(e[2], row), Numeric(e[3], row)>>
    <3>3. \A i \in 1..Arity(e[1]) : value[e[i + 1]] = given[i]
      BY <2>2, <2>6, <3>1
    <3> HIDE DEF given
    <3>4. Numeric(e, row) = Closed(e[1], given)
      BY <1>1, <2>3, <3>1, <3>3
    <3> QED
      BY <1>4, <3>1, <3>2, <3>4 DEF given
  <2>7. CASE e[1] = "where"
    <3>1. e[1] \notin {"neg", "div", "add", "sub", "mul", "pow", "group"} \cup Unary \cup Comparison /\ Arity(e[1]) = 3
      BY <2>7 DEF Unary, Comparison, Arity
    <3> DEFINE given == <<Numeric(e[2], row), Numeric(e[3], row), Numeric(e[4], row)>>
    <3>3. \A i \in 1..Arity(e[1]) : value[e[i + 1]] = given[i]
      BY <2>2, <2>7, <3>1
    <3> HIDE DEF given
    <3>4. Numeric(e, row) = Closed(e[1], given)
      BY <1>1, <2>3, <3>1, <3>3
    <3> QED
      BY <1>4, <2>7, <3>1, <3>4 DEF given
  <2> QED
    BY <1>2, <1>4, <2>4, <2>5, <2>6, <2>7, Arities
<1> QED
  BY <1>3, <1>4

LEMMA TokenReads ==
  ASSUME NEW row, NEW n
  PROVE  /\ BaseRead(<<Sym(n)>>, row[n], row) /\ BaseRead(<<Num(n)>>, Number(n), row)
<1>1. ASSUME NEW token, NEW v, \A f : Ready(f) => Feed(f, token, row) = Operand(f, v, FALSE)
      PROVE  BaseRead(<<token>>, v, row)
  <2>1. ASSUME NEW f, Ready(f), NEW g, g = Fed(f, <<token>>, row)
        PROVE  /\ SamePart(f, g) /\ g.relation = f.relation /\ g.sum = f.sum /\ g.sign = f.sign
               /\ g.product = f.product /\ g.negative = f.negative /\ g.atom # <<>> /\ g.atom[1] = v
               /\ ~g.raised /\ DOMAIN g = FrameFields
    <3>1. g = [f EXCEPT !.atom = <<v>>, !.raised = FALSE]
      <4>1. g = Feed(f, token, row)
        BY <2>1, FedToken
      <4>2. g = Operand(f, v, FALSE)
        BY <1>1, <2>1, <4>1
      <4> QED
        BY <2>1, <4>2 DEF Operand, Ready
    <3>2. /\ SamePart(f, g) /\ g.relation = f.relation /\ g.sum = f.sum /\ g.sign = f.sign
          /\ g.product = f.product /\ g.negative = f.negative /\ g.atom = <<v>>
          /\ g.raised = FALSE /\ DOMAIN g = FrameFields
      BY <2>1, <3>1 DEF SamePart, Ready, FrameFields
    <3> QED
      BY <3>2
  <2> QED
    BY <2>1, TokenIsText DEF BaseRead
<1>2. \A f : Ready(f) => Feed(f, Sym(n), row) = Operand(f, row[n], FALSE)
  BY DEF Feed, Sym, Ready
<1>3. \A f : Ready(f) => Feed(f, Num(n), row) = Operand(f, Number(n), FALSE)
  BY DEF Feed, Num, Ready
<1> QED
  BY <1>1, <1>2, <1>3

LEMMA GroupReads ==
  ASSUME NEW w, NEW v, NEW row, WholeRead(w, v, row)
  PROVE  BaseRead(One("group", w), v, row)
<1> DEFINE values == <<v>>
           kind == "group"
<1>1. kind \in Delimiters /\ ~Raises(kind) /\ Closed(kind, values) = v
  BY DEF Delimiters, Raises, Closed
<1>2. values = <<v>>
  OBVIOUS
<1> HIDE DEF kind, values
<1>3. AtomRead(One(kind, w), Closed(kind, values), Raises(kind), row)
  BY <1>1, <1>2, OneReads
<1>4. AtomRead(One(kind, w), v, Raises(kind), row)
  BY <1>1, <1>3
<1>5. BaseRead(One(kind, w), v, row)
  BY <1>1, <1>4, AtomIsBase
<1> QED
  BY <1>5 DEF kind

\* A factor is read wherever its parent leaves it.
LEMMA FactorReads ==
  ASSUME NEW w, NEW v \in Values, NEW row, FactorRead(w, v, row)
  PROVE  ProductRead(w, v, row) /\ SumRead(w, v, row) /\ WholeRead(w, v, row)
BY FactorIsProduct, ProductIsSum, SumIsWhole

LEMMA NegatedNumber ==
  ASSUME NEW x \in Int
  PROVE  Number(-x) \in Values /\ Number(x) = Applied("neg", Number(-x))
<1> DEFINE r == Residue(-x)
<1>1. -x \in Int /\ 0 \in Int /\ 0 - (-x) = x
  OBVIOUS
<1>2. Number(-x) = <<r>> /\ r \in Residues /\ Number(-x) \in Values
  BY <1>1, Residual, NumberIsValue
<1>3. Residue(0 - r) = Residue(0 - (-x))
  BY <1>1, ResidueOfSum
<1>4. r \in Int
  BY <1>2, OwnResidue
<1> HIDE DEF r
<1>5. -r = 0 - r /\ -r \in Int
  BY <1>4
<1>6. Applied("neg", <<r>>) = Number(-r)
  <2>1. IsNumber(<<r>>) /\ <<r>>[1] = r
    BY DEF IsNumber
  <2> QED
    BY <2>1 DEF Applied
<1>7. Number(-r) = <<Residue(-r)>> /\ Number(x) = <<Residue(x)>>
  BY <1>5, Residual
<1> QED
  BY <1>1, <1>2, <1>3, <1>5, <1>6, <1>7

-----------------------------------------------------------------------------
(* A node whose args are read as their values is read as its own.            *)
\* A node that may be the base of a power.
IsBase(e) == ~(e[1] \in {"neg", "exp", "pow"} \/ (e[1] = "lit" /\ e[2] < 0))

\* The text of a tree is read as its value, below parents of each precedence as
\* what their operators expect of an operand.
Readable(e, row) ==
  LET text == Render(e)
      v == Numeric(e, row)
  IN  /\ v \in Values
      /\ IsBase(e) => BaseRead(text[4], v, row)
      /\ FactorRead(text[3], v, row)
      /\ ProductRead(text[2], v, row)
      /\ e[1] \notin Comparison => SumRead(text[1], v, row)
      /\ e[1] \notin {"add", "sub"} \cup Comparison => ProductRead(text[1], v, row)
      /\ WholeRead(text[0], v, row)

LEMMA FactorNode ==
  ASSUME NEW e, NEW row, NEW v \in Values, v = Numeric(e, row),
         NEW w, \A p \in Precedence : Render(e)[p] = w,
         FactorRead(w, v, row), IsBase(e) => BaseRead(w, v, row)
  PROVE  Readable(e, row)
<1>1. ProductRead(w, v, row) /\ SumRead(w, v, row) /\ WholeRead(w, v, row)
  BY FactorReads
<1>2. \A p \in 0..4 : Render(e)[p] = w
  BY DEF Precedence
<1>3. Render(e)[0] = w /\ Render(e)[1] = w /\ Render(e)[2] = w /\ Render(e)[3] = w /\ Render(e)[4] = w
  BY <1>2
<1> QED
  BY <1>1, <1>3 DEF Readable

LEMMA BaseNode ==
  ASSUME NEW e, NEW row, NEW v \in Values, v = Numeric(e, row),
         NEW w, \A p \in Precedence : Render(e)[p] = w, BaseRead(w, v, row)
  PROVE  Readable(e, row)
BY BaseIsFactor, FactorNode

\* What one delimiter encloses is a factor, and a base unless it is an exponent.
LEMMA DelimitedNode ==
  ASSUME NEW e, NEW row, NEW v \in Values, v = Numeric(e, row),
         NEW w, \A p \in Precedence : Render(e)[p] = w,
         NEW kind, kind = e[1], AtomRead(w, v, Raises(kind), row)
  PROVE  Readable(e, row)
<1>1. FactorRead(w, v, row)
  BY AtomIsFactor
<1>2. ASSUME IsBase(e) PROVE BaseRead(w, v, row)
  <2>1. ~Raises(kind)
    BY <1>2 DEF IsBase, Raises
  <2> QED
    BY <2>1, AtomIsBase
<1> QED
  BY <1>1, <1>2, FactorNode

LEMMA ProductNode ==
  ASSUME NEW e, NEW row, NEW v \in Values, v = Numeric(e, row), NEW left, NEW op, NEW right,
         \A p \in Precedence : Render(e)[p] = Infix(left, op, right, p, 2),
         ProductRead(left \o <<Sign(op)>> \o right, v, row)
  PROVE  Readable(e, row)
<1> DEFINE inner == left \o <<Sign(op)>> \o right
           group == One("group", inner)
<1>1. Render(e)[0] = inner /\ Render(e)[1] = inner /\ Render(e)[2] = inner
      /\ Render(e)[3] = group /\ Render(e)[4] = group
  <2>1. \A p \in 0..4 : (~(p > 2) => Render(e)[p] = inner) /\ (p > 2 => Render(e)[p] = group)
    BY DEF Infix, Precedence
  <2> HIDE DEF inner, group
  <2> QED
    BY <2>1
<1>2. ProductRead(inner, v, row)
  OBVIOUS
<1> HIDE DEF inner
<1>3. SumRead(inner, v, row) /\ WholeRead(inner, v, row)
  BY <1>2, ProductIsSum, SumIsWhole
<1>4. BaseRead(group, v, row) /\ FactorRead(group, v, row)
  BY <1>3, GroupReads, BaseIsFactor
<1> HIDE DEF group
<1> QED
  BY <1>1, <1>2, <1>3, <1>4 DEF Readable

LEMMA SumNode ==
  ASSUME NEW e, NEW row, NEW v \in Values, v = Numeric(e, row), NEW left, NEW op, NEW right,
         \A p \in Precedence : Render(e)[p] = Infix(left, op, right, p, 1),
         e[1] \in {"add", "sub"} \cup Comparison,
         e[1] \notin Comparison => SumRead(left \o <<Sign(op)>> \o right, v, row),
         WholeRead(left \o <<Sign(op)>> \o right, v, row)
  PROVE  Readable(e, row)
<1> DEFINE inner == left \o <<Sign(op)>> \o right
           group == One("group", inner)
<1>1. Render(e)[0] = inner /\ Render(e)[1] = inner /\ Render(e)[2] = group
      /\ Render(e)[3] = group /\ Render(e)[4] = group
  <2>1. \A p \in 0..4 : (~(p > 1) => Render(e)[p] = inner) /\ (p > 1 => Render(e)[p] = group)
    BY DEF Infix, Precedence
  <2> HIDE DEF inner, group
  <2> QED
    BY <2>1
<1>2. WholeRead(inner, v, row) /\ (e[1] \notin Comparison => SumRead(inner, v, row))
  OBVIOUS
<1> HIDE DEF inner
<1>3. BaseRead(group, v, row) /\ FactorRead(group, v, row) /\ ProductRead(group, v, row)
  BY <1>2, GroupReads, BaseIsFactor, FactorIsProduct
<1> HIDE DEF group
<1> QED
  BY <1>1, <1>2, <1>3 DEF Readable

LEMMA PairOfTokens ==
  ASSUME NEW a, NEW b
  PROVE  <<a>> \o <<b>> = <<a, b>>
<1> DEFINE S == {a, b}
           x == <<a>>
           y == <<b>>
           w == x \o y
           z == <<a, b>>
<1>1. x \in Seq(S) /\ Len(x) = 1 /\ x[1] = a /\ y \in Seq(S) /\ Len(y) = 1 /\ y[1] = b
      /\ z \in Seq(S) /\ Len(z) = 2 /\ z[1] = a /\ z[2] = b
  OBVIOUS
<1> HIDE DEF x, y, S, z, w
<1>2. /\ w \in Seq(S)
         /\ Len(w) = Len(x) + Len(y)
         /\ \A i \in 1 .. Len(x) + Len(y) : w[i] =
                     IF i <= Len(x) THEN x[i] ELSE y[i - Len(x)]
  BY <1>1, ConcatProperties DEF w
<1>3. w[1] = a /\ w[2] = b /\ Len(w) = 2
  BY <1>1, <1>2
<1>4. w = z
  <2>1. \A i \in 1..2 : w[i] = z[i]
    BY <1>1, <1>3
  <2> QED
  BY <1>1, <1>2, <2>1, SeqEqual
<1> QED
  BY <1>4 DEF w, x, y, z

\* By the operator of the node: each parent reads its operands as it must,
\* unless the node is one of those Misreads names.
LEMMA NodeReads ==
  ASSUME NEW e, IsTree(e, Height), NEW row, NEW v \in Values, v = Numeric(e, row),
         \A c \in Children(e) : Readable(c, row), ~MisreadsNode(e)
  PROVE  Readable(e, row)
<1>1. IsNode(e)
  BY SubtreesClosed DEF IsTree, Low
<1>2. ASSUME e[1] \notin {"var", "lit"}
      PROVE  /\ Readable(e[2], row)
             /\ e[1] \in Comparison \cup Arithmetic \cup {"where"} => Readable(e[3], row)
             /\ e[1] = "where" => Readable(e[4], row)
  <2>1. /\ e[2] \in Children(e)
        /\ e[1] \in Comparison \cup Arithmetic \cup {"where"} => e[3] \in Children(e)
        /\ e[1] = "where" => e[4] \in Children(e)
    <3>1. 1 + 1 = 2 /\ 2 + 1 = 3 /\ 3 + 1 = 4
      OBVIOUS
    <3> QED
      BY <1>1, <1>2, <3>1, ArgsAreChildren, Arities
  <2> QED
    BY <2>1
<1> DEFINE v2 == Numeric(e[2], row)
           v3 == Numeric(e[3], row)
           v4 == Numeric(e[4], row)
           t2 == Render(e[2])
           t3 == Render(e[3])
           t4 == Render(e[4])
<1>3. CASE e[1] = "var"
  <2>1. v = row[e[2]] /\ \A p \in Precedence : Render(e)[p] = <<Sym(e[2])>>
    <3>1. v = row[e[2]]
      BY <1>3, ValuedArgs
    <3>2. \A p \in Precedence : Render(e)[p] = <<Sym(e[2])>>
      BY <1>3, RenderedArgs
    <3> QED
      BY <3>1, <3>2
  <2>2. BaseRead(<<Sym(e[2])>>, v, row)
    BY <2>1, TokenReads
  <2> QED
    BY <2>1, <2>2, BaseNode
<1>4. CASE e[1] = "lit"
  <2> DEFINE x == e[2]
  <2>1. x \in Int
    BY <1>1, <1>4 DEF IsNode, Unary, Comparison, Arithmetic
  <2>2. /\ v = Number(x)
        /\ \A p \in Precedence :
             Render(e)[p] = IF x < 0 THEN <<Sign("sub"), Num(-x)>> ELSE <<Num(x)>>
    BY <1>4, RenderedArgs, ValuedArgs
  <2>3. CASE x < 0
    <3> DEFINE w == <<Sign("sub")>> \o <<Num(-x)>>
               u == Number(-x)
    <3>1. w = <<Sign("sub"), Num(-x)>>
      <4> DEFINE sign == Sign("sub")
                 num == Num(-x)
      <4> HIDE DEF sign, num
      <4>1. <<sign>> \o <<num>> = <<sign, num>>
        BY PairOfTokens
      <4> QED
        BY <4>1 DEF sign, num
    <3>2. BaseRead(<<Num(-x)>>, u, row)
      BY TokenReads
    <3>3. u \in Values /\ v = Applied("neg", u)
      BY <2>1, <2>2, NegatedNumber
    <3>4. FactorRead(<<Num(-x)>>, u, row)
      BY <3>2, BaseIsFactor
    <3>5. FactorRead(w, v, row)
      <4> HIDE DEF u
      <4> QED
        BY <3>3, <3>4, SignReads
    <3>6. ~IsBase(e) /\ \A p \in Precedence : Render(e)[p] = w
      BY <1>4, <2>2, <2>3, <3>1 DEF IsBase
    <3> HIDE DEF w, x
    <3> QED
      BY <3>5, <3>6, FactorNode
  <2>4. CASE ~(x < 0)
    <3>1. \A p \in Precedence : Render(e)[p] = <<Num(x)>>
      BY <2>2, <2>4
    <3>2. BaseRead(<<Num(x)>>, v, row)
      BY <2>2, TokenReads
    <3> HIDE DEF x
    <3> QED
      BY <3>1, <3>2, BaseNode
  <2> QED
    BY <2>3, <2>4
<1>5. CASE e[1] = "neg"
  <2>1. Readable(e[2], row)
    BY <1>2, <1>5
  <2>2. v2 \in Values /\ FactorRead(t2[3], v2, row)
    BY <2>1 DEF Readable
  <2>3. v = Applied("neg", v2) /\ \A p \in Precedence : Render(e)[p] = <<Sign("sub")>> \o t2[3]
    <3>1. v = Applied("neg", v2)
      BY <1>5, ValuedArgs
    <3>2. \A p \in Precedence : Render(e)[p] = <<Sign("sub")>> \o t2[3]
      BY <1>5, RenderedArgs
    <3> QED
      BY <3>1, <3>2
  <2> HIDE DEF t2, v2
  <2>4. FactorRead(<<Sign("sub")>> \o t2[3], v, row)
    BY <2>2, <2>3, SignReads
  <2>5. ~IsBase(e)
    BY <1>5 DEF IsBase
  <2> QED
    BY <2>3, <2>4, <2>5, FactorNode
<1>6. CASE e[1] \in Unary \ {"neg"}
  <2> DEFINE given == <<v2>>
             kind == e[1]
  <2>1. Readable(e[2], row)
    <3>1. e[1] \notin {"var", "lit"}
      BY <1>6 DEF Unary
    <3> QED
      BY <1>2, <3>1
  <2>2. WholeRead(t2[0], v2, row)
    BY <2>1 DEF Readable
  <2>3. v = Closed(kind, given) /\ \A p \in Precedence : Render(e)[p] = One(kind, t2[0])
    <3>1. v = Closed(kind, given)
      BY <1>6, ValuedArgs
    <3>2. \A p \in Precedence : Render(e)[p] = One(kind, t2[0])
      BY <1>6, RenderedArgs
    <3> QED
      BY <3>1, <3>2
  <2>4. kind \in Delimiters /\ given = <<v2>> /\ kind = e[1]
    BY <1>6 DEF Delimiters
  <2> HIDE DEF t2, v2, given, kind
  <2>5. AtomRead(One(kind, t2[0]), Closed(kind, given), Raises(kind), row)
    BY <2>2, <2>4, OneReads
  <2> QED
    BY <2>3, <2>4, <2>5, DelimitedNode
<1>7. CASE e[1] = "div"
  <2> DEFINE given == <<v2, v3>>
             kind == e[1]
  <2>1. Readable(e[2], row) /\ Readable(e[3], row)
    BY <1>2, <1>7 DEF Arithmetic
  <2>2. WholeRead(t2[0], v2, row) /\ WholeRead(t3[0], v3, row)
    BY <2>1 DEF Readable
  <2>3. v = Closed(kind, given) /\ \A p \in Precedence : Render(e)[p] = Two(kind, t2[0], t3[0])
    <3>1. v = Closed(kind, given)
      BY <1>7, ValuedArgs
    <3>2. \A p \in Precedence : Render(e)[p] = Two(kind, t2[0], t3[0])
      BY <1>7, RenderedArgs
    <3> QED
      BY <3>1, <3>2
  <2>4. kind \in Delimiters /\ given = <<v2, v3>> /\ kind = e[1]
    BY <1>7 DEF Delimiters
  <2> HIDE DEF t2, v2, t3, v3, given, kind
  <2>5. AtomRead(Two(kind, t2[0], t3[0]), Closed(kind, given), Raises(kind), row)
    BY <2>2, <2>4, TwoReads
  <2> QED
    BY <2>3, <2>4, <2>5, DelimitedNode
<1>8. CASE e[1] = "where"
  <2> DEFINE given == <<v2, v3, v4>>
             kind == e[1]
  <2>1. Readable(e[2], row) /\ Readable(e[3], row) /\ Readable(e[4], row)
    BY <1>2, <1>8
  <2>2. WholeRead(t2[0], v2, row) /\ WholeRead(t3[0], v3, row) /\ WholeRead(t4[0], v4, row)
    BY <2>1 DEF Readable
  <2>3. /\ v = Closed(kind, given)
        /\ \A p \in Precedence : Render(e)[p] = Three(kind, t2[0], t3[0], t4[0])
    <3>1. v = Closed(kind, given)
      BY <1>8, ValuedArgs
    <3>2. \A p \in Precedence : Render(e)[p] = Three(kind, t2[0], t3[0], t4[0])
      BY <1>8, RenderedArgs
    <3> QED
      BY <3>1, <3>2
  <2>4. kind \in Delimiters /\ given = <<v2, v3, v4>> /\ kind = e[1]
    BY <1>8 DEF Delimiters
  <2> HIDE DEF t2, v2, t3, v3, t4, v4, given, kind
  <2>5. AtomRead(Three(kind, t2[0], t3[0], t4[0]), Closed(kind, given), Raises(kind), row)
    BY <2>2, <2>4, ThreeReads
  <2> QED
    BY <2>3, <2>4, <2>5, DelimitedNode
<1>9. CASE e[1] = "pow"
  <2>1. Readable(e[2], row) /\ Readable(e[3], row)
    BY <1>2, <1>9 DEF Arithmetic
  <2>2. IsBase(e[2])
    BY <1>9 DEF MisreadsNode, IsBase
  <2>3. BaseRead(t2[4], v2, row) /\ WholeRead(t3[0], v3, row)
    BY <2>1, <2>2 DEF Readable
  <2>4. v = Arith("pow", v2, v3) /\ \A p \in Precedence : Render(e)[p] = t2[4] \o One("pow", t3[0])
    <3>1. v = Arith("pow", v2, v3)
      BY <1>9, ValuedArgs
    <3>2. \A p \in Precedence : Render(e)[p] = t2[4] \o One("pow", t3[0])
      BY <1>9, RenderedArgs
    <3> QED
      BY <3>1, <3>2
  <2> HIDE DEF t2, v2, t3, v3
  <2>5. FactorRead(t2[4] \o One("pow", t3[0]), v, row)
    BY <2>3, <2>4, PowReads
  <2>6. ~IsBase(e)
    BY <1>9 DEF IsBase
  <2> QED
    BY <2>4, <2>5, <2>6, FactorNode
<1>10. CASE e[1] = "mul"
  <2>1. Readable(e[2], row) /\ Readable(e[3], row)
    BY <1>2, <1>10 DEF Arithmetic
  <2>2. v2 \in Values /\ v3 \in Values /\ ProductRead(t2[2], v2, row) /\ ProductRead(t3[2], v3, row)
    BY <2>1 DEF Readable
  <2>3. v = Arith("mul", v2, v3) /\ \A p \in Precedence : Render(e)[p] = Infix(t2[2], "mul", t3[2], p, 2)
    <3>1. v = Arith("mul", v2, v3)
      BY <1>10, ValuedArgs
    <3>2. \A p \in Precedence : Render(e)[p] = Infix(t2[2], "mul", t3[2], p, 2)
      BY <1>10, RenderedArgs
    <3> QED
      BY <3>1, <3>2
  <2> HIDE DEF t2, v2, t3, v3
  <2>4. ProductRead(t2[2] \o <<Sign("mul")>> \o t3[2], v, row)
    BY <2>2, <2>3, MulReads
  <2> QED
    BY <2>3, <2>4, ProductNode
<1>11. ASSUME e[1] \in Comparison \cup {"add", "sub"}
       PROVE  e[2][1] \notin Comparison /\ e[3][1] \notin Comparison
  BY <1>11 DEF MisreadsNode
<1>12. CASE e[1] \in {"add", "sub"} \cup Comparison
  <2> DEFINE op == e[1]
             inner == t2[1] \o <<Sign(op)>> \o t3[1]
  <2>1. Readable(e[2], row) /\ Readable(e[3], row)
    <3>1. e[1] \notin {"var", "lit"} /\ e[1] \in Comparison \cup Arithmetic \cup {"where"}
      BY <1>12 DEF Comparison, Arithmetic
    <3> QED
      BY <1>2, <3>1
  <2>2. v2 \in Values /\ v3 \in Values /\ SumRead(t2[1], v2, row) /\ SumRead(t3[1], v3, row)
    BY <1>11, <1>12, <2>1 DEF Readable
  <2>3. op = "sub" => ProductRead(t3[1], v3, row)
    <3>1. e[1] = "sub" => e[3][1] \notin {"add", "sub"} \cup Comparison
      BY DEF MisreadsNode
    <3> QED
      BY <2>1, <3>1 DEF Readable
  <2>4. /\ op \in {"add", "sub"} => v = Arith(op, v2, v3)
        /\ op \in Comparison => v = Truth(NumericCompares(op, v2, v3))
        /\ \A p \in Precedence : Render(e)[p] = Infix(t2[1], op, t3[1], p, 1)
    BY <1>12, RenderedArgs, ValuedArgs
  <2> HIDE DEF t2, v2, t3, v3
  <2>5. CASE op \in Comparison
    <3>1. WholeRead(inner, v, row)
      <4> HIDE DEF op
      <4> QED
        BY <2>2, <2>4, <2>5, CompareReads
    <3> QED
      BY <2>4, <2>5, <3>1, SumNode
  <2>6. CASE op = "add"
    <3>1. SumRead(inner, v, row)
      <4> HIDE DEF op
      <4> QED
        BY <2>2, <2>4, <2>6, AddReads
    <3> HIDE DEF inner
    <3>2. WholeRead(inner, v, row)
      BY <3>1, SumIsWhole
    <3> QED
      BY <1>12, <2>4, <3>1, <3>2, SumNode DEF inner
  <2>7. CASE op = "sub"
    <3>1. SumRead(inner, v, row)
      <4> HIDE DEF op
      <4> QED
        BY <2>2, <2>3, <2>4, <2>7, SubReads
    <3> HIDE DEF inner
    <3>2. WholeRead(inner, v, row)
      BY <3>1, SumIsWhole
    <3> QED
      BY <1>12, <2>4, <3>1, <3>2, SumNode DEF inner
  <2> QED
    BY <1>12, <2>5, <2>6, <2>7
<1> QED
  BY <1>1, <1>3, <1>4, <1>5, <1>6, <1>7, <1>8, <1>9, <1>10, <1>12, Arities DEF Arithmetic

-----------------------------------------------------------------------------
(* Every tree without the places Misreads names is read as its value.        *)
\* By induction on the tree.
LEMMA TreeReads ==
  ASSUME NEW e, IsTree(e, Height), ~Misreads(e), NEW row, \A n \in VarNames(e) : row[n] \in Values
  PROVE  Readable(e, row)
<1> DEFINE Q == {t \in Subtrees(e) : Readable(t, row)}
<1>1. Low(e, Height)
  BY DEF IsTree, Low
<1>2. ASSUME NEW t \in Subtrees(e), Children(t) \subseteq Q PROVE t \in Q
  <2> DEFINE v == Numeric(t, row)
  <2>1. IsTree(t, Height)
    BY TreeParts
  <2>2. v \in Values
    BY NumericIsValue
  <2>3. ~MisreadsNode(t)
    BY DEF Misreads
  <2>4. \A c \in Children(t) : Readable(c, row)
    BY <1>2
  <2> HIDE DEF v
  <2>5. v \in Values /\ v = Numeric(t, row)
    BY <2>2 DEF v
  <2>6. Readable(t, row)
    BY <2>1, <2>3, <2>4, <2>5, NodeReads
  <2> QED
    BY <2>6
<1>3. Subtrees(e) \subseteq Q
  <2> HIDE DEF Q
  <2> QED
    BY <1>1, <1>2, TreeInduction
<1>4. e \in Subtrees(e)
  BY <1>1, SubtreesClosed
<1> QED
  BY <1>3, <1>4

\* The text of a tree, read from an empty frame, is its value.
LEMMA TextIsRead ==
  ASSUME NEW e, IsTree(e, Height), ~Misreads(e), NEW row, \A n \in VarNames(e) : row[n] \in Values
  PROVE  Read(ToLatex(e), row) = Numeric(e, row)
<1> DEFINE w == Render(e)[0]
           v == Numeric(e, row)
           f == Frame("text", <<>>, <<>>)
           g == Fed(f, w, row)
<1>1. WholeRead(w, v, row)
  BY TreeReads DEF Readable
<1>2. f.kind = "text"
  BY DEF Frame
<1> HIDE DEF w, v
<1>3. SamePart(f, g) /\ g.atom # <<>> /\ Whole(g) = v
  <2>1. "text" # "unread"
    OBVIOUS
  <2> QED
    BY <1>1, <2>1 DEF WholeRead
<1>4. g.kind = "text"
  BY <1>2, <1>3 DEF SamePart
<1>5. Read(w, row) = IF g.kind = "text" /\ g.atom # <<>> THEN Whole(g) ELSE Unreadable
  BY DEF Read
<1> HIDE DEF f, g
<1>6. Read(w, row) = v
  BY <1>3, <1>4, <1>5
<1> QED
  BY <1>6 DEF ToLatex, w, v

-----------------------------------------------------------------------------
\* The names an inlined tree reads.

LEMMA ReplacedVarNames ==
  ASSUME NEW e, NEW env, Fits(e, env), NEW X, \A m \in VarNames(e) : VarNames(env[m]) \subseteq X
  PROVE  VarNames(Replaced(e, env)) \subseteq X
<1> DEFINE Q == {t \in Subtrees(e) : VarNames(Replaced(t, env)) \subseteq X}
<1>1. IsTree(e, Height) /\ Low(e, Height)
  BY DEF Fits, IsTree, Low
<1>2. ASSUME NEW t \in Subtrees(e), Children(t) \subseteq Q PROVE t \in Q
  <2> DEFINE r == Replaced(t, env)
  <2>1. IsTree(t, Height) /\ IsNode(t) /\ IsTree(r, Height)
    BY <1>1, TreeParts DEF Fits
  <2>2. CASE t[1] = "var"
    <3>1. t[2] \in VarNames(e)
      BY <2>2 DEF VarNames
    <3>2. r = env[t[2]]
      BY <2>1, <2>2, ReplacedLeaf
    <3> QED
      BY <3>1, <3>2
  <2>3. CASE t[1] = "lit"
    <3>1. r = t
      BY <2>1, <2>3, ReplacedLeaf
    <3>2. Height \in 0..Height
      BY ExpressionAssumption
    <3>3. Subtrees(t) = {t}
      BY <2>1, <2>3, <3>2, LeafTree
    <3>4. VarNames(t) = {}
      BY <2>3, <3>3 DEF VarNames
    <3> QED
      BY <3>1, <3>4
  <2>4. CASE t[1] \notin {"var", "lit"}
    <3>1. r[1] = t[1] /\ Children(r) = {Replaced(c, env) : c \in Children(t)}
      BY <2>1, <2>4, ReplacedInner
    <3>2. Low(r, Height)
      BY <2>1 DEF IsTree, Low
    <3>3. \A c \in Children(t) : VarNames(Replaced(c, env)) \subseteq X
      BY <1>2
    <3> HIDE DEF r
    <3>4. Subtrees(r) = {r} \cup UNION {Subtrees(c) : c \in Children(r)}
      BY <3>2, SubtreesUnfold
    <3>5. ASSUME NEW s \in Subtrees(r), s[1] = "var" PROVE s[2] \in X
      <4>1. PICK c \in Children(t) : s \in Subtrees(Replaced(c, env))
        BY <2>4, <3>1, <3>4, <3>5
      <4>2. s[2] \in VarNames(Replaced(c, env))
        BY <3>5, <4>1 DEF VarNames
      <4> QED
        BY <3>3, <4>2
    <3>6. VarNames(r) \subseteq X
      BY <3>5 DEF VarNames
    <3> QED
      BY <3>6 DEF r
  <2> QED
    BY <2>2, <2>3, <2>4
<1>3. Subtrees(e) \subseteq Q
  <2> HIDE DEF Q
  <2> QED
    BY <1>1, <1>2, TreeInduction
<1>4. e \in Subtrees(e)
  BY <1>1, SubtreesClosed
<1> QED
  BY <1>3, <1>4

\* Inlining leaves names.
LEMMA SubstVarNames ==
  ASSUME NEW T, IsTerms(T), NEW B, NEW h, Bodies(T, B, h), NEW stack \in SUBSET Name, NEW n \in Name
  PROVE  VarNames(Subst(T, B)[stack][n]) \subseteq Name
<1> DEFINE P == [m \in DOMAIN T |->
                   {st \in SUBSET Name : VarNames(Subst(T, B)[st][m]) \subseteq Name}]
<1>1. ASSUME NEW S \in SUBSET Name, NEW m \in Name, m \notin DOMAIN T \/ m \in S
      PROVE  VarNames(Subst(T, B)[S][m]) \subseteq Name
  <2>1. Subst(T, B)[S][m] = Variable(m)
    BY <1>1, SubstLeaf
  <2>2. 0 \in 0..Height
    BY ExpressionAssumption
  <2>3. VarNames(Variable(m)) = {m}
    BY <2>2, VariableTree
  <2> QED
    BY <2>1, <2>3
<1>2. ASSUME NEW a \in DOMAIN T, NEW S \in SUBSET Name,
             a \notin S => \A m \in DOMAIN T : S \cup {a} \in P[m]
      PROVE  S \in P[a]
  <2> DEFINE env == Subst(T, B)[S \cup {a}]
             e == B[a]
  <2>1. a \in Name /\ T[a] \in Seq(Name) /\ S \cup {a} \in SUBSET Name
    BY DEF IsTerms
  <2>2. CASE a \in S
    BY <1>1, <2>1, <2>2
  <2>3. CASE a \notin S
    <3>1. Subst(T, B)[S][a] = Replaced(e, env)
      <4>1. a \in Name /\ a \in DOMAIN T /\ a \notin S
        BY <2>1, <2>3
      <4> QED
        BY <4>1, SubstTerm
    <3>2. IsTree(e, h) /\ VarNames(e) \subseteq ToSet(T[a])
      <4>1. IsTree(e, h) /\ h \in 0..Height /\ Height \in 0..Height /\ h <= Height
            /\ IterVars(e) = T[a]
        BY ExpressionAssumption DEF Bodies
      <4> QED
        BY <4>1, LowerTree, IterVarsYieldsAll
    <3>3. VarNames(e) \subseteq Name
      BY <2>1, <3>2 DEF ToSet
    <3>4. Fits(e, env)
      BY <2>1, <3>2, <3>3, SubstFits
    <3>5. ASSUME NEW m \in VarNames(e) PROVE VarNames(env[m]) \subseteq Name
      <4>1. m \in Name
        BY <3>3
      <4>2. CASE m \in DOMAIN T
        BY <1>2, <2>3, <4>2
      <4>3. CASE m \notin DOMAIN T
        BY <1>1, <2>1, <4>1, <4>3
      <4> QED
        BY <4>2, <4>3
    <3> HIDE DEF env, e
    <3>6. VarNames(Replaced(e, env)) \subseteq Name
      BY <3>4, <3>5, ReplacedVarNames
    <3> QED
      BY <3>1, <3>6
  <2> QED
    BY <2>2, <2>3
<1> HIDE DEF P
<1>3. n \in DOMAIN T => stack \in P[n]
  BY <1>2, StackInduction DEF IsTerms
<1> QED
  BY <1>1, <1>3 DEF P

\* The formulas of a graph are trees over its names.
LEMMA FormulasAreTrees ==
  ASSUME IInv, Facade, NEW e \in Formulas
  PROVE  IsTree(e, Height) /\ VarNames(e) \subseteq Name
<1>1. PICK h \in 0..Height : Bodies(terms, body, h)
  BY FacadeBodies
<1>2. IsTerms(terms) /\ {} \in SUBSET Name
  BY FacadeBodies
<1>3. ASSUME NEW t \in DOMAIN terms
      PROVE  /\ IsTree(body[t], h) /\ IsTree(body[t], Height)
             /\ VarNames(body[t]) \subseteq Name
  <2>1. terms[t] \in Seq(Name) /\ VarNames(body[t]) \subseteq ToSet(terms[t])
    BY FacadeBodies DEF IsTerms
  <2>2. IsTree(body[t], h) /\ IsTree(body[t], Height)
    BY <1>1, FacadeBodies DEF Bodies
  <2> QED
    BY <2>1, <2>2 DEF ToSet
<1>4. ASSUME NEW t \in DOMAIN terms
      PROVE  /\ IsTree(Substituted(body[t]), Height)
             /\ VarNames(Substituted(body[t])) \subseteq Name
  <2> DEFINE env == Subst(terms, body)[{}]
  <2>1. Fits(body[t], env) /\ IsTree(Replaced(body[t], env), Height)
    BY <1>1, <1>2, <1>3, SubstFits
  <2>2. \A m \in VarNames(body[t]) : VarNames(env[m]) \subseteq Name
    BY <1>1, <1>2, <1>3, SubstVarNames
  <2> HIDE DEF env
  <2>3. VarNames(Replaced(body[t], env)) \subseteq Name
    BY <2>1, <2>2, ReplacedVarNames
  <2> QED
    BY <2>1, <2>3, SubstitutedIsSubst DEF env
<1> QED
  BY <1>3, <1>4 DEF Formulas, Facade

\* Where no operand lacks its parentheses, what is printed is what is computed.
THEOREM TextsAreRead == FormulaSpec => []MisreadOnlyThere
<1>1. IInv /\ Facade => MisreadOnlyThere
  <2> SUFFICES ASSUME IInv, Facade, NEW e \in Formulas, ~Misreads(e), NEW row \in Rows
               PROVE  Read(ToLatex(e), row) = Numeric(e, row)
    BY DEF MisreadOnlyThere
  <2>1. IsTree(e, Height) /\ VarNames(e) \subseteq Name
    BY FormulasAreTrees
  <2>2. \A n \in Name : row[n] \in Values
    BY PricingFormulaAssumption DEF Values, Residues
  <2> QED
    BY <2>1, <2>2, TextIsRead
<1> QED
  BY <1>1, Invariance, FacadeInvariance, PTL
=============================================================================
