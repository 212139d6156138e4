---------------------------- MODULE MCPriceReads ----------------------------
EXTENDS PriceReads

CONSTANTS btc, eth

MCKeys == {btc} \X (0 .. 4) \cup {eth} \X {2}
MCWindows == {<<NoBound, NoBound>>, <<1, 3>>}

=============================================================================
