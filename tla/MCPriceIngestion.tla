-------------------------- MODULE MCPriceIngestion --------------------------
(* Instances of PriceIngestion for TLC.                                    *)
EXTENDS PriceIngestion

CONSTANTS live, fill, odd, t1, t2

\* A live batch and a backfill a worker runs, over the same tickers in
\* opposite orders: they can wait for each other.
MCJobs == {live, fill}
MCKind == [j \in MCJobs |-> IF j = live THEN "fetch" ELSE "backfill"]
MCBatch == [j \in MCJobs |-> IF j = live THEN <<t1, t2>> ELSE <<t2, t1>>]
MCAllOk == [j \in MCJobs |-> TRUE]

\* With a third job: the backfill called from a Python shell, with a range no
\* provider offers and settings that name no provider.
MCAllJobs == MCJobs \cup {odd}
MCAllKind == [j \in MCAllJobs |-> IF j = live THEN "fetch" ELSE "backfill"]
MCAllBatch == [j \in MCAllJobs |-> IF j = live THEN <<t1, t2>> ELSE <<t2, t1>>]
MCUsual == [j \in MCAllJobs |-> j # odd]

\* Two stamps of one second, with different prices; a chart may be empty.
MCIndexAnswers == {[stamp |-> 0, price |-> 1], [stamp |-> 1, price |-> 2]}
MCChartAnswers ==
  {<<>>, <<[stamp |-> 0, price |-> 1], [stamp |-> 1, price |-> 2]>>}
=============================================================================
