---------------------------- MODULE MCFormulaGraph ----------------------------
(* Three terms over one input column, with that column declared or not.      *)
EXTENDS FormulaText, TLC

MCName == {"T", "DF", "PV", "rate"}
MCSchemas == {{"rate"}}

V(n) == <<"var", n>>
Lit2 == <<"lit", 2>>

\* At most two variables, each pair in one order only: with the names in a
\* cycle, dependencies of every shape are still met in either order.  The
\* operators are such that inlining nests each kind inside most others.
MCTrees ==
  {<<"neg", V("rate")>>,
   <<"exp", <<"mul", <<"lit", -1>>, V("T")>>>>,
   <<"pow", V("DF"), Lit2>>,
   <<"sub", V("rate"), V("T")>>,
   <<"div", V("T"), V("DF")>>,
   <<"where", <<"gt", V("DF"), V("PV")>>, <<"log", V("DF")>>, <<"normal_cdf", V("PV")>>>>,
   <<"mul", V("PV"), V("T")>>,
   <<"add", V("PV"), V("rate")>>}

MCExprs == {IterVars(e) : e \in MCTrees}

\* A sum subtracted in one expression.
SpreadTrees == MCTrees \cup {<<"sub", V("PV"), <<"add", V("T"), V("rate")>>>>}
SpreadExprs == {IterVars(e) : e \in SpreadTrees}

MCOutputSchemas == {{"PV"}, {"DF", "rate"}}
MCMappings == {NoMapping, [c \in {"PV"} |-> "T"]}
MCViewTerms == {{"PV"}, {"DF", "rate"}, {"T"}}

MCRows ==
  {[n \in MCName |-> Number(CASE n = "T" -> 2 [] n = "DF" -> -3 [] n = "PV" -> 4 [] n = "rate" -> 5)],
   [n \in MCName |-> Number(CASE n = "T" -> -4 [] n = "DF" -> 3 [] n = "PV" -> 2 [] n = "rate" -> -1)]}
=============================================================================
