-------------------------- MODULE CaptureProperties --------------------------
(***************************************************************************)
(* What the capture of one thread's accesses has to get right.             *)
(***************************************************************************)
EXTENDS Capture

Packets == [cmd : Cmd, inst : Inst, addr : Nat, len : Nat]
AlignedPackets == [cmd : Cmd, inst : Inst, blk : Nat, last : Nat]

TypeOK ==
    /\ fetch \in BOOLEAN /\ newCode \in BOOLEAN
    /\ known \subseteq Inst
    /\ inst \in [Inst -> [filter : BOOLEAN, misses : Nat, hit : BOOLEAN]]
    /\ start \in Nat /\ job \in Dev \cup {"none"}
    /\ lineBuffer \in [line : Nat, dirty : BOOLEAN]
    /\ front \in Seq(Packets) /\ back \in Seq(AlignedPackets)
    /\ alive \subseteq DOMAIN Rsc /\ unborn \subseteq DOMAIN Rsc
    /\ lines \subseteq [dev : Dev, blk : Nat, rsc : DOMAIN Rsc, dirty : BOOLEAN]

InTrace(w) == \E p \in trace : p.blk = w.blk /\ (w.cmd = "WRITE" => p.cmd = "WRITE")

\* A job's trace file is complete when the job has ended: every block of a live
\* resource it read is in it, every block it wrote is written back in it, whatever
\* was buffered, evicted or flushed meanwhile.  Three kinds of blocks get lost:
\*   - "pruned": of an instruction that is filtered;
\*   - "cut": the end of an access that reaches into a next block, and what a
\*     length of 256 bytes or more loses of its eight bits;
\*   - "swallowed": an access to the line buffer's line, if the access that filled
\*     it did so for another job, before the resource was created, or did not
\*     reach into the block, of which a line may have several.
\* Accesses of frames that are fast forwarded are not wanted.
TraceCoversJob == job = "none" => \A w \in wanted : w.gap = "none" => InTrace(w)

\* README.md:64: "the memory accesses of the render threads are captured".
EveryAccessIsCaptured == job = "none" => \A w \in wanted : InTrace(w)

\* gltracesim-generate:155 "Auto filter memory instructions that are not to GPU
\* resources", of the accesses the filter threads get to see: when an instruction
\* is pruned, no access it handed on had a block on a resource, those still in a
\* buffer included.  Accesses the line buffer swallows and blocks that are cut are
\* not seen: an instruction may be pruned that used a resource only by these.
NoBufferedUseIsPruned == \A i \in Inst : inst[i].filter => i \notin users

\* resource.hh:81-87: what the cores touched and what went past the filter caches
\* are two views of one frame.  A block is in both or in none, and in both as
\* written or in none: no line is carried from one frame's report to the next.
\* dump_stats() relies on it when it overwrites gpu_touched_blks (resource.cc:175).
Marks(r, b) == {m \in {"coreRead", "coreWrite", "gpuRead", "gpuWrite"} : <<r, b, m>> \in report}

ReportsAgree ==
    \A r \in DOMAIN Rsc : \A b \in Rsc[r] :
        /\ "coreWrite" \in Marks(r, b) <=> "gpuWrite" \in Marks(r, b)
        /\ {"coreRead", "coreWrite"} \cap Marks(r, b) # {} <=>
           {"gpuRead", "gpuWrite"} \cap Marks(r, b) # {}
=============================================================================
