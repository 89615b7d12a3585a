----------------------------- MODULE MCExecutors -----------------------------
(* A diamond joined by a concat, over two inputs of every kind, and a chain  *)
(* with an unrelated branch whose nodes a target must not run.               *)
EXTENDS Executors, TLC

Diamond(trades, market) ==
  [graph |-> [node |-> {"trades", "market", "fwd", "opt", "book"},
              edge |-> {<<"trades", "fwd">>, <<"trades", "opt">>,
                        <<"market", "opt">>, <<"fwd", "book">>, <<"opt", "book">>}],
   inputs |-> ("trades" :> trades @@ "market" :> market),
   concats |-> {"book"}]

Chain(trades) ==
  [graph |-> [node |-> {"trades", "enriched", "priced", "audit"},
              edge |-> {<<"trades", "enriched">>, <<"enriched", "priced">>,
                        <<"trades", "audit">>}],
   inputs |-> ("trades" :> trades),
   concats |-> {}]

MCPlans == {Diamond(t, m) : t, m \in ValueKind} \cup {Chain(t) : t \in ValueKind}
=============================================================================
