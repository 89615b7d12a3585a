----------------------------- MODULE MCLiveEngine -----------------------------
(* A book priced from positions and curves, and a curve report that position *)
(* events do not affect; one engine for each, sharing a cache.               *)
EXTENDS LiveEngine, TLC

CONSTANTS v1, v2, v3, c1, c2

MCGraph ==
  [node |-> {"positions", "market", "priced", "book", "report"},
   edge |-> {<<"positions", "priced">>, <<"market", "priced">>,
             <<"priced", "book">>, <<"market", "report">>}]

MCMarketSources == ("priced" :> {"curves"} @@ "report" :> {"curves"} @@ "book" :> {})

\* Both engines behind one thread, and one engine called by two, with unique
\* labels and with any, those that are unique for each feed among them.
MCDeployments ==
  [callers : {{c1}, {c2}}, engines : {{"book", "report"}}, labels : {"global", "any"}]
  \cup
  [callers : {{c1, c2}}, engines : {{"book"}}, labels : {"global", "any"}]

MCOneThread == {[callers |-> {c1}, engines |-> {"book"}, labels |-> "by feed"]}

MCVersion == {v1, v2, v3}
MCCaller == {c1, c2}
MCSymmetry == Permutations(MCVersion) \cup Permutations(MCCaller)
=============================================================================
