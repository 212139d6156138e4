-------------------------- MODULE MCReconciliation --------------------------
(* Reconciliation of two tickers for TLC.                                  *)
EXTENDS Reconciliation, TLC

CONSTANTS t1, t2

MCSelected == <<t1, t2>>

\* One ticker by hand, over a shorter window.
MCByHand == {[tickers |-> <<t2>>, lookback |-> 1]}

\* Charts that reach to their threshold and no further.
MCCovers == 1 :> 1 @@ 4 :> 4
=============================================================================
