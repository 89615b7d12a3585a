------------------------------- MODULE MCRouter -------------------------------
(* Routing on two columns of two values and a third that when() may test,    *)
(* with computations that meet the contract, lack a field of its view,       *)
(* declare no schema for it or have no such view.                            *)
EXTENDS Router, TLC

CONSTANTS forward, option, loose, other

MCProvides == (forward :> {"pv"} @@ option :> {"pv", "delta"}
               @@ loose :> AnySchema @@ other :> NoView)
MCContract == {{"pv", "delta"}, AnySchema}

\* Two cases that differ in one column, and None for one column and for both.
MCCaseKeys ==
  {("kind" :> k @@ "side" :> s) : k, s \in {"call", Null}}
  \cup {("kind" :> "put" @@ "side" :> "call")}

\* No predicate at all, one on a further column, and one on each kind.
MCWhenPredicates ==
  {{}, {<<"flag", "call">>}, {<<"kind", "call">>, <<"flag", "put">>}}
===============================================================================
