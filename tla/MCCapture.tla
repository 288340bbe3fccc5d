------------------------------ MODULE MCCapture ------------------------------
EXTENDS CaptureProperties, TLC

Acc(cmd, addr, len) == [cmd |-> cmd, addr |-> addr, len |-> len]

\* With blocks of half a line: reads and writes of the first blocks of two lines
\* of resources and of one of none, a read of a second block, one of both blocks,
\* a write across two lines, and one of 256 bytes, which is a packet of length 0.
MCAccesses ==
    {Acc(cmd, addr, 1) : cmd \in Cmd, addr \in {128, 192, 256}} \cup
    {Acc("READ", 160, 1), Acc("READ", 128, 40), Acc("WRITE", 191, 2), Acc("WRITE", 128, 256)}

Symmetric == Permutations(Inst)

Blocks(first, last) == Blk(first) .. Blk(last)
MCRsc == [r1 |-> Blocks(128, 255), r2 |-> Blocks(192, 200)]
=============================================================================
