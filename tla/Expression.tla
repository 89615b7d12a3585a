------------------------------ MODULE Expression ------------------------------
(***************************************************************************)
(* The expression IR (schenberg/core/expr.py): one tree with three readers, *)
(* compile_polars, _eval_numeric and to_latex.                              *)
(*                                                                          *)
(* A tree is a tuple of its op and its children: <<"var", name>>,           *)
(* <<"lit", number>>, <<"neg", tree>>, <<"sub", tree, tree>>, ...           *)
(* Floating-point numbers are abstracted to the residues -Half..Half of     *)
(* the integers modulo 2*Half+1, which keep the laws a reader of a formula  *)
(* relies on: sums and products associate, signs move out of a product.     *)
(* A number is <<x>>; NaN is the empty tuple.                               *)
(***************************************************************************)
EXTENDS Integers, Sequences

CONSTANTS Half,   \* numbers are the residues -Half..Half
          Height  \* how many levels trees may have below their root, with
                  \* the terms that are inlined into them

ASSUME ExpressionAssumption == Half \in Nat /\ Half >= 2 /\ Height \in Nat

Modulus == 2 * Half + 1
Number(x) == <<((x + Half) % Modulus) - Half>>
NaN == <<>>
IsNumber(v) == Len(v) = 1

Unary == {"neg", "exp", "log", "abs", "sqrt", "normal_cdf", "normal_pdf"}
Comparison == {"gt", "ge", "lt", "le", "eq"}
Arithmetic == {"add", "sub", "mul", "div", "pow"}

-----------------------------------------------------------------------------
\* What polars, numpy and JAX have in common, the arithmetic of IEEE doubles.
\* Columns and the arrays of an env are taken to be of floats, and comparisons
\* to be used "for where" (expr.py:73): no truth value is added up, and the
\* condition of a where is one.

Exponent(y) == y % Modulus

PowerOf(x, y) ==
  LET power[n \in 0..Exponent(y)] == IF n = 0 THEN 1 ELSE (x * power[n - 1]) % Modulus
  IN  power[Exponent(y)]

\* A quotient is NaN when the divisor is zero, a logarithm or a root when its
\* argument is not positive or negative; infinities are left out, they
\* compare alike everywhere.
Quotients(x, y) == {q \in -Half..Half : (q * y) % Modulus = x % Modulus}

\* The modulus is a prime.
ASSUME FieldAssumption ==
  \A x, y \in -Half..Half : y # 0 => Quotients(x, y) # {}

Ordered(op, x, y) ==
  CASE op = "gt" -> x > y [] op = "ge" -> x >= y [] op = "lt" -> x < y
    [] op = "le" -> x <= y [] op = "eq" -> x = y

Truth(b) == IF b THEN Number(1) ELSE Number(0)
Chosen(cond, a, b) == IF cond = Number(1) THEN a ELSE b

-----------------------------------------------------------------------------
\* The Polars backend: the entries of _POLARS_BINARY and the cases of
\* compile_polars, each written out once more in the numeric backend.

PolarsArith(op, a, b) ==
  LET x == a[1]  y == b[1]
  IN  IF ~IsNumber(a) \/ ~IsNumber(b) THEN NaN
      ELSE CASE op = "add" -> Number(x + y)
             [] op = "sub" -> Number(x - y)
             [] op = "mul" -> Number(x * y)
             [] op = "div" -> IF y = 0 THEN NaN
                              ELSE Number(CHOOSE q \in Quotients(x, y) : TRUE)
             [] op = "pow" -> Number(PowerOf(x, y))

\* polars orders NaN above every number and equal to itself.
PolarsCompares(op, a, b) ==
  IF IsNumber(a) /\ IsNumber(b) THEN Ordered(op, a[1], b[1])
  ELSE Ordered(op, IF IsNumber(a) THEN 0 ELSE 1, IF IsNumber(b) THEN 0 ELSE 1)

PolarsApplied(op, a) ==
  LET x == a[1]
  IN  IF ~IsNumber(a) THEN NaN
      ELSE CASE op = "neg" -> Number(-x)
             [] op = "exp" -> Number(PowerOf(2, x))
             [] op = "log" -> IF x > 0 THEN Number(x * x + 2) ELSE NaN
             [] op = "abs" -> Number(IF x < 0 THEN -x ELSE x)
             [] op = "sqrt" -> IF x >= 0 THEN Number(x * x + 3) ELSE NaN
             [] op = "normal_pdf" -> Number(x * x + 1)

\* The case of normal_cdf; approx_pos is a polynomial of the absolute value.
PolarsCdf(z) ==
  LET a == PolarsApplied("abs", z)
      approx_pos == PolarsArith("add", PolarsArith("mul", a, a), Number(2))
  IN  IF PolarsCompares("ge", z, Number(0)) THEN approx_pos
      ELSE PolarsArith("sub", Number(1), approx_pos)

-----------------------------------------------------------------------------
\* The numeric backend: _NUMERIC_BINARY and the cases of _eval_numeric.

Arith(op, a, b) ==
  LET x == a[1]  y == b[1]
  IN  IF ~IsNumber(a) \/ ~IsNumber(b) THEN NaN
      ELSE CASE op = "add" -> Number(x + y)
             [] op = "sub" -> Number(x - y)
             [] op = "mul" -> Number(x * y)
             [] op = "div" -> IF y = 0 THEN NaN
                              ELSE Number(CHOOSE q \in Quotients(x, y) : TRUE)
             [] op = "pow" -> Number(PowerOf(x, y))

\* IEEE comparison, as in numpy and JAX: false wherever NaN takes part.
NumericCompares(op, a, b) ==
  IsNumber(a) /\ IsNumber(b) /\ Ordered(op, a[1], b[1])

Applied(op, a) ==
  LET x == a[1]
  IN  IF ~IsNumber(a) THEN NaN
      ELSE CASE op = "neg" -> Number(-x)
             [] op = "exp" -> Number(PowerOf(2, x))
             [] op = "log" -> IF x > 0 THEN Number(x * x + 2) ELSE NaN
             [] op = "abs" -> Number(IF x < 0 THEN -x ELSE x)
             [] op = "sqrt" -> IF x >= 0 THEN Number(x * x + 3) ELSE NaN
             [] op = "normal_pdf" -> Number(x * x + 1)

\* approx_pos, a polynomial of the absolute value.
Approximation(a) == Arith("add", Arith("mul", a, a), Number(2))
Symmetric(positive, tail) == IF positive THEN tail ELSE Arith("sub", Number(1), tail)

-----------------------------------------------------------------------------
\* Trees.  What they contain is found level by level, so that their readers are
\* functions on the subtrees.

Arity(op) == IF op \in Unary THEN 1 ELSE IF op = "where" THEN 3 ELSE 2

\* The args that are trees.
Children(e) == IF e[1] \in {"var", "lit"} THEN {} ELSE {e[i] : i \in DOMAIN e \ {1}}

AtDepth(e) ==
  LET level[n \in 0..(Height + 1)] ==
        IF n = 0 THEN {e} ELSE UNION {Children(t) : t \in level[n - 1]}
  IN  level

Subtrees(e) == UNION {AtDepth(e)[n] : n \in 0..Height}

\* What the constructors of expr.py build, at most h levels deep.
IsNode(e) ==
  \/ e[1] = "var" /\ e = <<"var", e[2]>>
  \/ e[1] = "lit" /\ e = <<"lit", e[2]>> /\ e[2] \in Int
  \/ /\ e[1] \in Unary \cup Comparison \cup Arithmetic \cup {"where"}
     /\ DOMAIN e = 1..(Arity(e[1]) + 1)

IsTree(e, h) == AtDepth(e)[h + 1] = {} /\ \A t \in Subtrees(e) : IsNode(t)

\* compile_polars(e), as what the compiled column computes over a row: a node,
\* given the values of its subtrees.
PolarsNode(e, value, row) ==
  LET op == e[1]
      arg(i) == value[e[i + 1]]
  IN  CASE op = "var" -> row[e[2]]
        [] op = "lit" -> Number(e[2])
        [] op = "normal_cdf" -> PolarsCdf(arg(1))
        [] op = "where" -> Chosen(arg(1), arg(2), arg(3))
        [] op \in Comparison -> Truth(PolarsCompares(op, arg(1), arg(2)))
        [] op \in Arithmetic -> PolarsArith(op, arg(1), arg(2))
        [] op \in Unary \ {"normal_cdf"} -> PolarsApplied(op, arg(1))

Polars(e, row) ==
  LET value[t \in Subtrees(e)] == PolarsNode(t, value, row) IN value[e]

\* _eval_numeric(e, env, xp)
NumericNode(e, value, env) ==
  LET op == e[1]
      arg(i) == value[e[i + 1]]
  IN  CASE op = "var" -> env[e[2]]
        [] op = "lit" -> Number(e[2])
        [] op = "normal_cdf" ->
             LET z == arg(1)
             IN  Symmetric(NumericCompares("ge", z, Number(0)), Approximation(Applied("abs", z)))
        [] op = "where" -> Chosen(arg(1), arg(2), arg(3))
        [] op \in Comparison -> Truth(NumericCompares(op, arg(1), arg(2)))
        [] op \in Arithmetic -> Arith(op, arg(1), arg(2))
        [] op \in Unary \ {"normal_cdf"} -> Applied(op, arg(1))

Numeric(e, env) ==
  LET value[t \in Subtrees(e)] == NumericNode(t, value, env) IN value[e]

\* Some comparison in e is given NaN.
ComparesNaN(e, env) ==
  \E t \in Subtrees(e) : t[1] \in Comparison /\
    \E i \in {2, 3} : ~IsNumber(Numeric(t[i], env))

\* _iter_vars(e)
VarsNode(e, found) ==
  LET arg(i) == IF i + 1 \in DOMAIN e THEN found[e[i + 1]] ELSE <<>>
  IN  CASE e[1] = "var" -> <<e[2]>>
        [] e[1] = "lit" -> <<>>
        [] OTHER -> arg(1) \o arg(2) \o arg(3)

IterVars(e) ==
  LET found[t \in Subtrees(e)] == VarsNode(t, found) IN found[e]

\* The tree with each variable replaced by what env has for it.
ReplacedNode(e, new, env) ==
  CASE e[1] = "var" -> env[e[2]]
    [] e[1] = "lit" -> e
    [] OTHER -> [i \in DOMAIN e |-> IF i = 1 THEN e[1] ELSE new[e[i]]]

Replaced(e, env) ==
  LET new[t \in Subtrees(e)] == ReplacedNode(t, new, env) IN new[e]
=============================================================================
