----------------------------- MODULE FormulaText -----------------------------
(***************************************************************************)
(* to_latex (schenberg/core/expr.py): the text of the formulas of a graph,  *)
(* and how mathematics reads it.                                            *)
(*                                                                          *)
(* A text is a sequence of tokens: names, numbers, infix signs, and what    *)
(* LaTeX delimits, from an opening to a close with its parts in between.    *)
(***************************************************************************)
EXTENDS PricingFormula

Sym(name) == <<"sym", name>>
Num(number) == <<"num", number>>
Sign(op) == <<"op", op>>
Opening(kind) == <<"open", kind>>
Break == <<"break">>
Closing == <<"close">>

\* Parentheses, functions, roots, fractions, exponents, branches, with their
\* parts in the order of the args.
One(kind, a) == <<Opening(kind)>> \o a \o <<Closing>>
Two(kind, a, b) == <<Opening(kind)>> \o a \o <<Break>> \o b \o <<Closing>>
Three(kind, a, b, c) ==
  <<Opening(kind)>> \o a \o <<Break>> \o b \o <<Break>> \o c \o <<Closing>>

\* Mutant: an operand keeps its parentheses two levels down only.
InfixBare(left, op, right, parent, prec) ==
  LET inner == left \o <<Sign(op)>> \o right
  IN  IF parent > prec + 1 THEN One("group", inner) ELSE inner

\* go(node, parent_prec) for an infix operator of the given precedence.
Infix(left, op, right, parent, prec) ==
  LET inner == left \o <<Sign(op)>> \o right
  IN  IF parent > prec THEN One("group", inner) ELSE inner

Precedence == 0..4

\* go(node, parent_prec), given the texts of the node's subtrees.
RenderBelow(e, text, parent) ==
  LET op == e[1]
      go(i, prec) == text[e[i + 1]][prec]
  IN  CASE op = "var" -> <<Sym(e[2])>>
        [] op = "lit" -> IF e[2] < 0 THEN <<Sign("sub"), Num(-e[2])>> ELSE <<Num(e[2])>>
        [] op = "neg" -> <<Sign("sub")>> \o go(1, 3)
        [] op \in Unary \ {"neg"} -> One(op, go(1, 0))
        [] op = "div" -> Two(op, go(1, 0), go(2, 0))
        [] op = "mul" -> Infix(go(1, 2), op, go(2, 2), parent, 2)
        [] op = "pow" -> go(1, 4) \o One(op, go(2, 0))
        [] op = "where" -> Three(op, go(1, 0), go(2, 0), go(3, 0))
        [] op \in {"add", "sub"} \cup Comparison -> Infix(go(1, 1), op, go(2, 1), parent, 1)

\* The text of a node below every parent.
RenderNode(e, text) == [parent \in Precedence |-> RenderBelow(e, text, parent)]

Render(e) ==
  LET text[t \in Subtrees(e)] == RenderNode(t, text) IN text[e]

ToLatex(e) == Render(e)[0]

-----------------------------------------------------------------------------
\* How mathematics is read, from the left: a relation between sums, a sum of
\* products, a product of signed powers, one exponent to an atom.  What has been
\* read of a text, or of the part of it that is open, is a frame.

\* A frame before its first operand.
Frame(kind, parts, outer) ==
  [kind |-> kind,        \* "text", or what the opening opened
   parts |-> parts,      \* the values of its parts before a break
   outer |-> outer,      \* the frame it was opened in
   relation |-> <<>>,    \* a comparison with its left side
   sum |-> Number(0), sign |-> "add",  \* the sum so far, and how it goes on
   product |-> Number(1),              \* the product so far
   negative |-> FALSE,   \* whether a sign stands before the factor
   atom |-> <<>>,        \* the value of the factor, without its sign
   raised |-> FALSE]     \* whether it has an exponent

\* Not a text of mathematics.
Unread == Frame("unread", <<>>, <<>>)

Factor(f) == IF f.negative THEN Applied("neg", f.atom[1]) ELSE f.atom[1]
Product(f) == Arith("mul", f.product, Factor(f))
Total(f) == Arith(f.sign, f.sum, Product(f))
Whole(f) ==
  IF f.relation = <<>> THEN Total(f)
  ELSE Truth(NumericCompares(f.relation[1], f.relation[2], Total(f)))

Operand(f, value, raised) ==
  IF f.atom # <<>> THEN Unread ELSE [f EXCEPT !.atom = <<value>>, !.raised = raised]

\* A sign where an operand is due belongs to the operand.
Operator(f, op) ==
  IF f.atom = <<>>
  THEN IF op = "sub" THEN [f EXCEPT !.negative = ~@] ELSE Unread
  ELSE LET next == Frame(f.kind, f.parts, f.outer)
       IN  CASE op = "mul" ->
                  [next EXCEPT !.relation = f.relation, !.sum = f.sum, !.sign = f.sign,
                               !.product = Product(f)]
             [] op \in {"add", "sub"} ->
                  [next EXCEPT !.relation = f.relation, !.sum = Total(f), !.sign = op]
             [] op \in Comparison -> [next EXCEPT !.relation = <<op, Whole(f)>>]

\* An exponent follows an atom that has none; LaTeX refuses a second one.
Open(f, kind) ==
  IF kind = "pow" => f.atom # <<>> /\ ~f.raised THEN Frame(kind, <<>>, f) ELSE Unread

Close(f) ==
  LET parts == Append(f.parts, Whole(f))
      outer == f.outer
  IN  IF f.atom = <<>> \/ f.kind = "text" THEN Unread
      ELSE CASE f.kind = "group" -> Operand(outer, parts[1], FALSE)
             [] f.kind = "pow" ->
                  [outer EXCEPT !.atom = <<Arith("pow", outer.atom[1], parts[1])>>,
                                !.raised = TRUE]
             [] OTHER -> Operand(outer, NumericNode(<<f.kind, 1, 2, 3>>, parts, <<>>),
                                 f.kind = "exp")

Feed(f, token, row) ==
  IF f.kind = "unread" THEN f
  ELSE CASE token[1] = "sym" -> Operand(f, row[token[2]], FALSE)
         [] token[1] = "num" -> Operand(f, Number(token[2]), FALSE)
         [] token[1] = "op" -> Operator(f, token[2])
         [] token[1] = "open" -> Open(f, token[2])
         [] token[1] = "break" ->
              IF f.atom = <<>> THEN Unread ELSE Frame(f.kind, Append(f.parts, Whole(f)), f.outer)
         [] token[1] = "close" -> Close(f)

Fed(f, text, row) ==
  LET after[i \in 0..Len(text)] ==
        IF i = 0 THEN f ELSE Feed(after[i - 1], text[i], row)
  IN  after[Len(text)]

Unreadable == <<0, 0>>

Read(text, row) ==
  LET f == Fed(Frame("text", <<>>, <<>>), text, row)
  IN  IF f.kind = "text" /\ f.atom # <<>> THEN Whole(f) ELSE Unreadable

\* The renderings that mathematics reads otherwise than the tree computes: a
\* sum subtracted without parentheses, a power whose base has a sign or an
\* exponent already, a comparison among the operands of another or of a sum.
MisreadsNode(s) ==
  \/ s[1] = "sub" /\ s[3][1] \in {"add", "sub"} \cup Comparison
  \/ /\ s[1] = "pow"
     /\ s[2][1] \in {"neg", "exp", "pow"} \/ (s[2][1] = "lit" /\ s[2][2] < 0)
  \/ /\ s[1] \in Comparison \cup {"add", "sub"}
     /\ \E i \in {2, 3} : s[i][1] \in Comparison

Misreads(e) == \E s \in Subtrees(e) : MisreadsNode(s)

-----------------------------------------------------------------------------
\* Properties.

\* The text of a formula, as declared or inlined, is read as what the formula
\* computes, except where an operand of a difference, the base of a power or a
\* comparison lacks its parentheses.
MisreadOnlyThere ==
  \A e \in Formulas : ~Misreads(e) =>
    LET text == ToLatex(e)
    IN  \A row \in Rows : Read(text, row) = Numeric(e, row)

\* expr.py:10: "LaTeX derived from the formula itself, so the rendered math can
\* never drift from what runs".
NeverDrifts ==
  \A t \in DOMAIN body : \A row \in Rows :
    Read(ToLatex(body[t]), row) = Numeric(body[t], row)
=============================================================================
