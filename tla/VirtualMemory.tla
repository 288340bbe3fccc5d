---------------------------- MODULE VirtualMemory ----------------------------
(***************************************************************************)
(* VirtualMemoryManager (vmemory.cc): gives the pages of a resource fake   *)
(* physical pages.  A page is known by its number; an address differs from *)
(* its page by an offset that translation keeps.                           *)
(*                                                                         *)
(* alloc() and free() are loops over the pages of a range.  One iteration  *)
(* is one step, and the caller does nothing else until the loop is over.   *)
(***************************************************************************)
EXTENDS Integers

CONSTANTS
    VPage,          \* the virtual page numbers
    ChunkSize,      \* STATE_T_SIZE
    InitChunks,     \* free_list.size() to begin with, init-size / chunk bytes
    Fragmented      \* the "fragmented" parameter

ASSUME VirtualMemoryAssumption ==
    /\ VPage \subseteq Nat
    /\ ChunkSize \in Nat \ {0}
    /\ InitChunks \in Nat
    /\ Fragmented \in BOOLEAN

VARIABLES
    chunks,         \* free_list.size()
    used,           \* the pages whose bit in free_list is set
    allocated,      \* allocated, in pages
    translation,    \* translation[v]: the page of virtual page v
    loop            \* the loop of alloc() or free() in progress

vmVars == <<chunks, used, allocated, translation, loop>>

NoPage == -1
Idle == [op |-> "none", vpage |-> 0, last |-> 0]
Loops == [op : {"none", "alloc", "free"}, vpage : Nat, last : Nat]

VmInit ==
    /\ chunks = InitChunks
    /\ used = {}
    /\ allocated = 0
    /\ translation = [v \in VPage |-> NoPage]
    /\ loop = Idle

\* Mutant: alloc() takes the end of the range for the first page after it.
RunningHalfOpen(op, first, last) ==
    [op |-> op, vpage |-> first,
     last |-> IF op = "alloc" /\ first < last THEN last - 1 ELSE last]
Running(op, first, last) == [op |-> op, vpage |-> first, last |-> last]

\* for (vpage = start_vpage; vpage <= end_vpage; vpage += page_size)
NextIteration ==
    IF loop.vpage < loop.last THEN [loop EXCEPT !.vpage = @ + 1] ELSE Idle

\* "Grow free list if we run out of memory"
NumFreePages == chunks * ChunkSize - allocated
\* Mutant: grows one page late.
ChunksLate == IF NumFreePages < 0 THEN chunks + 1 ELSE chunks
Chunks == IF NumFreePages = 0 THEN chunks + 1 ELSE chunks

Pages(n) == 0 .. n * ChunkSize - 1

\* find_free_page() from chunk i: the first page not in use, in the cyclic order
\* that begins with chunk i.
Found(i, n) ==
    LET distance(p) == (p - i * ChunkSize) % (n * ChunkSize)
        free == Pages(n) \ used
    IN {p \in free : \A q \in free : distance(p) <= distance(q)}

StartChunks(n) == IF Fragmented THEN 0 .. n - 1 ELSE {0}

\* Mutant: keeps an old translation.
MappedOnce(v, p) == IF translation[v] = NoPage THEN [translation EXCEPT ![v] = p] ELSE translation
Mapped(v, p) == [translation EXCEPT ![v] = p]

AllocPage ==
    /\ loop.op = "alloc"
    /\ chunks' = Chunks
    /\ \E i \in StartChunks(Chunks) : \E p \in Found(i, Chunks) :
           /\ used' = used \cup {p}
           /\ translation' = Mapped(loop.vpage, p)
    /\ allocated' = allocated + 1
    /\ loop' = NextIteration

\* "Leave tlb unmodified in case of overlapping textures".  Nor is the page
\* taken off allocated.
FreePage ==
    /\ loop.op = "free"
    /\ used' = used \ {translation[loop.vpage]}
    /\ loop' = NextIteration
    /\ UNCHANGED <<chunks, allocated, translation>>

VmTypeOK ==
    /\ chunks \in Nat
    /\ used \subseteq Pages(chunks)
    /\ allocated \in Nat
    /\ translation \in [VPage -> Nat \cup {NoPage}]
    /\ loop \in Loops

\* find_free_page() has no way to give up: whenever alloc() searches, a page is
\* free, however textures overlapped before.
SearchEnds == loop.op = "alloc" => Pages(Chunks) \ used # {}

\* assert(it != translation.end()) in translate(), as free() calls it.
FreesWhatIsMapped == loop.op = "free" => translation[loop.vpage] # NoPage
=============================================================================
