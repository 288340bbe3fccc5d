------------------------------ MODULE MCRecords ------------------------------
EXTENDS TraceRecords

MCTiles == {<<0, 1>>, <<2, 0>>}
MCHeader == [id |-> 0, frame |-> 0, jobs |-> <<>>]
=============================================================================
