---------------------------- MODULE ResourceProofs ----------------------------
(***************************************************************************)
(* Proofs about resources and their memory, for every set of ranges, page  *)
(* size, chunk size, number of cache lines and number of resources.        *)
(*                                                                         *)
(* The argument.  allocated only grows and bounds the pages in use, and    *)
(* alloc() keeps it below the free list: hence a free page.  A loop of     *)
(* alloc() works on pages of a live resource, a loop of free() on those of *)
(* the resource just destroyed; until resources overlap neither meets a    *)
(* page somebody else holds.  Live ranges are disjoint, so an address is   *)
(* hit for one resource only; and the filter cache is empty from the call  *)
(* that creates or destroys a resource until its loop over pages is done,  *)
(* so that no line outlives its resource or a translation.                 *)
(***************************************************************************)
EXTENDS ResourceProperties, FiniteSetTheorems, TLAPS

\* Ids are handed out in order.
Numbered == \E n \in Nat : Created = 1 .. n

\* Pages in use never outnumber allocations, nor allocations the free list.
Room ==
    /\ IsFiniteSet(used)
    /\ Cardinality(used) <= allocated
    /\ allocated <= chunks * ChunkSize

LivePages == UNION {PagesOf(r) : r \in alive}

Looping ==
    /\ loop.op # "none" => loop.vpage <= loop.last /\ Remaining \subseteq VPage
    /\ loop.op = "alloc" => Remaining \subseteq LivePages
    /\ loop.op = "free" => \A v \in Remaining : translation[v] # NoPage

Translated ==
    \A v \in LivePages : translation[v] # NoPage \/ (loop.op = "alloc" /\ v \in Remaining)

\* Until resources overlap, no page belongs to two of them.
Apart ==
    ~ overlapped =>
        /\ \A r, s \in alive : r # s => PagesOf(r) \cap PagesOf(s) = {}
        /\ loop.op = "free" => LivePages \cap Remaining = {}

\* Live resources have disjoint ranges.
Separate ==
    \A r, s \in alive :
        r # s => range[r].last < range[s].first \/ range[s].last < range[r].first

\* The filter cache is empty while pages are mapped or freed.
Flushed == loop.op # "none" => lines = {}

-----------------------------------------------------------------------------
LEMMA PageOrder ==
    ASSUME NEW a \in Nat, NEW b \in Nat, a <= b
    PROVE  /\ Page(a) \in Nat
           /\ Page(b) \in Nat
           /\ Page(a) <= Page(b)
<1>1. PageBlocks \in Nat /\ PageBlocks > 0
  BY ResourceAssumption
<1>2. Page(a) \in Nat /\ Page(b) \in Nat
  BY <1>1 DEF Page
<1>3. Page(a) <= Page(b)
  BY <1>1, <1>2 DEF Page
<1> QED
  BY <1>2, <1>3

LEMMA RangeFacts ==
    ASSUME NEW rng \in Ranges
    PROVE  /\ rng.first \in Nat /\ rng.last \in Nat /\ rng.first <= rng.last
           /\ Page(rng.first) \in Nat /\ Page(rng.last) \in Nat
           /\ Page(rng.first) <= Page(rng.last)
           /\ Page(rng.first) .. Page(rng.last) \subseteq VPage
<1>1. rng.first \in Nat /\ rng.last \in Nat /\ rng.first <= rng.last
  BY ResourceAssumption
<1>2. Page(rng.first) .. Page(rng.last) \subseteq VPage
  BY ResourceAssumption DEF Page
<1> QED
  BY <1>1, <1>2, PageOrder

LEMMA IdFacts ==
    ASSUME Numbered
    PROVE  /\ Cardinality(Created) \in Nat
           /\ Created = 1 .. Cardinality(Created)
<1>1. PICK n \in Nat : Created = 1 .. n
  BY DEF Numbered
<1>2. Cardinality(Created) = n
  BY <1>1, FS_Interval
<1> QED
  BY <1>1, <1>2

LEMMA RoomAhead ==
    ASSUME VmTypeOK, Room
    PROVE  /\ Chunks \in Nat
           /\ chunks <= Chunks
           /\ allocated < Chunks * ChunkSize
           /\ Pages(Chunks) \ used # {}
           /\ Pages(chunks) \subseteq Pages(Chunks)
<1>1. ChunkSize \in Nat /\ ChunkSize > 0
  BY VirtualMemoryAssumption
<1>2. chunks \in Nat /\ allocated \in Nat
  BY DEF VmTypeOK
<1>3. /\ Chunks \in Nat
      /\ chunks <= Chunks
      /\ allocated < Chunks * ChunkSize
  BY <1>1, <1>2 DEF Room, Chunks, NumFreePages
<1>4. Chunks * ChunkSize \in Nat /\ chunks * ChunkSize \in Nat /\ chunks * ChunkSize <= Chunks * ChunkSize
  BY <1>1, <1>2, <1>3
<1>5. Pages(chunks) \subseteq Pages(Chunks)
  BY <1>4 DEF Pages
<1>6. Cardinality(Pages(Chunks)) = Chunks * ChunkSize
  <2> DEFINE top == Chunks * ChunkSize - 1
  <2>1. top \in Int /\ top >= 0
    BY <1>2, <1>3, <1>4
  <2>2. Cardinality(0 .. top) = top - 0 + 1
    BY <2>1, FS_Interval
  <2> QED
    BY <2>1, <2>2, <1>4 DEF Pages
<1>7. ASSUME Pages(Chunks) \subseteq used
      PROVE  FALSE
  <2>1. Cardinality(Pages(Chunks)) <= Cardinality(used)
    BY <1>7, FS_Subset DEF Room
  <2>2. Cardinality(used) \in Nat
    BY FS_CardinalityType DEF Room
  <2> QED
    BY <2>1, <2>2, <1>2, <1>3, <1>4, <1>6 DEF Room
<1> QED
  BY <1>3, <1>5, <1>7

LEMMA StepOfAlloc ==
    ASSUME VmTypeOK, Room, AllocPage
    PROVE  /\ VmTypeOK'
           /\ \E p \in Nat : /\ p \notin used
                            /\ used' = used \cup {p}
                            /\ translation' = [translation EXCEPT ![loop.vpage] = p]
           /\ allocated' = allocated + 1
           /\ chunks' = Chunks
           /\ loop' = NextIteration
<1>1. PICK i \in StartChunks(Chunks) : \E p \in Found(i, Chunks) :
          /\ used' = used \cup {p}
          /\ translation' = Mapped(loop.vpage, p)
  BY DEF AllocPage
<1>0. PICK p \in Found(i, Chunks) :
          /\ used' = used \cup {p}
          /\ translation' = Mapped(loop.vpage, p)
  BY <1>1
<1>2. p \in Pages(Chunks) \ used
  BY DEF Found
<1>3. p \in Nat
  BY <1>2 DEF Pages
<1>4. /\ allocated' = allocated + 1
      /\ chunks' = Chunks
      /\ loop' = NextIteration
  BY DEF AllocPage
<1>5. chunks' \in Nat /\ allocated' \in Nat
  BY <1>4, RoomAhead DEF VmTypeOK
<1>6. used' \subseteq Pages(chunks')
  BY <1>0, <1>2, <1>4, RoomAhead DEF VmTypeOK
<1>7. translation' \in [VPage -> Nat \cup {NoPage}]
  BY <1>0, <1>3 DEF VmTypeOK, Mapped
<1>8. loop' \in Loops
  BY <1>4 DEF VmTypeOK, NextIteration, Loops, Idle
<1> QED
  BY <1>0, <1>2, <1>3, <1>4, <1>5, <1>6, <1>7, <1>8 DEF VmTypeOK, Pages, Mapped

LEMMA StepOfFree ==
    ASSUME VmTypeOK, FreePage
    PROVE  VmTypeOK'
<1>1. loop' \in Loops
  BY DEF FreePage, VmTypeOK, NextIteration, Loops, Idle
<1> QED
  BY <1>1 DEF FreePage, VmTypeOK, Pages

\* What create does to the tracker.
LEMMA NewId ==
    ASSUME TypeOK, Numbered, NEW rng \in Ranges, Create(rng)
    PROVE  \E id \in Nat \ {0} :
              /\ id = Cardinality(Created) + 1
              /\ id \notin Created
              /\ Created' = Created \cup {id}
              /\ Created' = 1 .. id
              /\ range' \in [1 .. id -> Ranges]
              /\ range'[id] = rng
              /\ \A r \in Created : range'[r] = range[r]
              /\ alive' = alive \cup {id}
<1>1. Cardinality(Created) \in Nat /\ Created = 1 .. Cardinality(Created)
  BY IdFacts
<1> DEFINE id == Cardinality(Created) + 1
<1>2. id \in Nat \ {0} /\ Created = 1 .. id - 1
  BY <1>1
<1>3. range' = [r \in 1 .. id |-> IF r = id THEN rng ELSE range[r]] /\ alive' = alive \cup {id}
  BY DEF Create, Add
<1>4. \A r \in 1 .. id - 1 : range[r] \in Ranges
  BY <1>1 DEF TypeOK
<1> HIDE DEF id
<1>5. Created' = 1 .. id
  BY <1>3 DEF Created
<1>6. range' \in [1 .. id -> Ranges]
  BY <1>2, <1>3, <1>4
<1>7. range'[id] = rng /\ \A r \in Created : range'[r] = range[r]
  BY <1>2, <1>3
<1>8. id \notin Created /\ Created' = Created \cup {id}
  BY <1>2, <1>5
<1>9. id = Cardinality(Created) + 1
  BY DEF id
<1> WITNESS id \in Nat \ {0}
<1> QED
  BY <1>3, <1>5, <1>6, <1>7, <1>8, <1>9

LEMMA AccessedFacts ==
    ASSUME TypeOK, Numbered, lastResource \in alive \cup {0}, NEW a, NEW r \in Accessed(a)
    PROVE  r \in alive /\ r \in Created /\ Contains(r, a) /\ r \in Nat \ {0}
<1>1. r \in alive /\ Contains(r, a)
  BY DEF Accessed, FindAddr
<1>2. r \in Created
  BY <1>1 DEF TypeOK
<1>3. r \in Nat \ {0}
  BY <1>2, IdFacts
<1> QED
  BY <1>1, <1>2, <1>3

LineAfterHit(l, r, write) ==
    [l EXCEPT !.dirty = @ \/ write, !.writer = IF write THEN r ELSE @]

LEMMA HitFacts ==
    ASSUME NEW l \in LineStates, NEW r \in Nat, NEW write \in BOOLEAN
    PROVE  LET m == LineAfterHit(l, r, write)
           IN /\ m \in LineStates
              /\ m.addr = l.addr /\ m.rsc = l.rsc /\ m.page = l.page
              /\ m.dirty => l.dirty \/ write
              /\ m.writer = IF write THEN r ELSE l.writer
<1> DEFINE d == l.dirty \/ write
           w == IF write THEN r ELSE l.writer
<1>1. l.dirty \in BOOLEAN /\ l.writer \in Nat
  BY DEF LineStates
<1>2. d \in BOOLEAN /\ w \in Nat
  BY <1>1
<1> DEFINE m == LineAfterHit(l, r, write)
<1>3. m = [l EXCEPT !.dirty = d, !.writer = w]
  BY DEF LineAfterHit
<1> HIDE DEF d, w, m
<1>4. /\ m \in LineStates
      /\ m.addr = l.addr /\ m.rsc = l.rsc /\ m.page = l.page
      /\ m.dirty = d /\ m.writer = w
  BY <1>2, <1>3 DEF LineStates
<1>5. m.dirty => l.dirty \/ write
  BY <1>4 DEF d
<1>6. m.writer = IF write THEN r ELSE l.writer
  BY <1>4 DEF w
<1> QED
  BY <1>4, <1>5, <1>6 DEF m

LEMMA AddressFacts ==
    ASSUME NEW a \in Addresses
    PROVE  a \in Nat /\ Page(a) \in Nat /\ Page(a) \in VPage
<1>0. \A rng \in Ranges : rng.first \in Nat /\ rng.last \in Nat
  BY RangeFacts
<1>1. PICK rng \in Ranges : a \in rng.first .. rng.last
  BY DEF Addresses
<1>2. a \in Nat /\ rng.first <= a /\ a <= rng.last
  BY <1>0, <1>1
<1>3. Page(rng.first) <= Page(a) /\ Page(a) <= Page(rng.last) /\ Page(a) \in Nat
  BY <1>2, RangeFacts, PageOrder
<1> QED
  BY <1>2, <1>3, RangeFacts

-----------------------------------------------------------------------------
(* Types and the order of ids.                                             *)
Typed ==
    /\ TypeOK
    /\ Numbered
    /\ lastResource \in alive \cup {0}
    /\ \A l \in lines : l.rsc \in Created

\* What a flush leaves.
LEMMA FlushFacts ==
    ASSUME Typed, FlushFilterCache
    PROVE  lines' = {} /\ zombies' \subseteq gone /\ unreported' \subseteq Created
BY DEF FlushFilterCache, WriteBack, Resurrected, Dirty, Typed, TypeOK

LEMMA TypedCreate ==
    ASSUME Typed, NEW rng \in Ranges, Create(rng)
    PROVE  Typed'
<1> USE DEF Typed
<1>1. PICK id \in Nat \ {0} :
          /\ id = Cardinality(Created) + 1
          /\ id \notin Created
          /\ Created' = Created \cup {id}
          /\ Created' = 1 .. id
          /\ range' \in [1 .. id -> Ranges]
          /\ range'[id] = rng
          /\ \A r \in Created : range'[r] = range[r]
          /\ alive' = alive \cup {id}
  BY NewId
<1>2. Numbered'
  BY <1>1 DEF Numbered
<1>3. Cardinality(Created)' = id
  <2>1. Cardinality(1 .. id) = id
    BY FS_Interval
  <2> QED
    BY <1>1, <2>1
<1>4. loop' \in Loops
  BY RangeFacts DEF Create, Add, Running, Loops
<1>5. VmTypeOK'
  BY <1>4 DEF Create, Add, TypeOK, VmTypeOK, Pages
<1>6. (range \in [1 .. Cardinality(Created) -> Ranges])'
  BY <1>1, <1>3
<1>7. /\ alive' \subseteq Created' /\ dead' \subseteq gone' /\ zombies' \subseteq gone'
      /\ gone' = Created' \ alive'
      /\ lastResource' \in alive' \cup {0}
      /\ lastResource' \in Created' \cup {0}
      /\ lines' \subseteq LineStates
      /\ unreported' \subseteq Created'
  <2>1. UNCHANGED <<dead, gone, lastResource>>
    BY DEF Create, Add
  <2>2. lines' = {} /\ zombies' \subseteq gone /\ unreported' \subseteq Created
    BY FlushFacts DEF Create
  <2> QED
    BY <1>1, <2>1, <2>2 DEF TypeOK
<1>8. (overlapped \in BOOLEAN)'
  BY DEF Create, Add, TypeOK
<1>9. \A l \in lines' : l.rsc \in Created'
  BY FlushFacts DEF Create
<1> QED
  BY <1>2, <1>5, <1>6, <1>7, <1>8, <1>9 DEF TypeOK

LEMMA TypedDestroy ==
    ASSUME Typed, NEW a, Destroy(a)
    PROVE  Typed'
<1> USE DEF Typed
<1>1. PICK r \in FindAddr(a) :
          /\ alive' = alive \ {r}
          /\ gone' = gone \cup {r}
          /\ dead' = dead \cup {r}
          /\ lastResource' = IF lastResource = r THEN 0 ELSE lastResource
          /\ loop' = Running("free", Page(range[r].first), Page(range[r].last))
          /\ UNCHANGED <<chunks, used, allocated, translation, range, overlapped>>
  BY DEF Destroy, Remove
<1>2. r \in alive /\ r \in Created
  BY DEF FindAddr, TypeOK
<1>3. range[r] \in Ranges
  BY <1>2, IdFacts DEF TypeOK
<1>4. loop' \in Loops
  BY <1>1, <1>3, RangeFacts DEF Running, Loops
<1>5. VmTypeOK'
  BY <1>1, <1>4 DEF TypeOK, VmTypeOK, Pages
<1>6. Created' = Created
  BY <1>1 DEF Created
<1>7. Numbered'
  BY <1>6 DEF Numbered
<1>8. (range \in [1 .. Cardinality(Created) -> Ranges])'
  BY <1>1, <1>6 DEF TypeOK
<1>9. lines' = {} /\ zombies' \subseteq gone /\ unreported' \subseteq Created
  BY FlushFacts DEF Destroy
<1> QED
  BY <1>1, <1>2, <1>5, <1>6, <1>7, <1>8, <1>9 DEF TypeOK

\* What does not touch the ids nor the resources that live.
LEMMA TypedKept ==
    ASSUME Typed, UNCHANGED <<range, alive, gone, overlapped>>, VmTypeOK',
           dead' \subseteq gone, zombies' \subseteq gone,
           lastResource' \in alive \cup {0},
           lines' \subseteq LineStates, \A l \in lines' : l.rsc \in Created,
           unreported' \subseteq Created
    PROVE  Typed'
<1> USE DEF Typed
<1>1. Created' = Created
  BY DEF Created
<1>2. Numbered'
  BY <1>1 DEF Numbered
<1>3. (range \in [1 .. Cardinality(Created) -> Ranges])'
  BY <1>1 DEF TypeOK
<1> QED
  BY <1>1, <1>2, <1>3 DEF TypeOK

LEMMA TypedAccess ==
    ASSUME Typed, NEW a \in Addresses, NEW write \in BOOLEAN, Access(a, write)
    PROVE  Typed'
<1> USE DEF Typed
<1>1. VmTypeOK' /\ UNCHANGED <<range, alive, gone, dead, overlapped>>
  BY DEF Access, TypeOK, VmTypeOK, vmVars, Pages
<1>2. \A l \in lines : l \in LineStates /\ l.rsc \in Created
  BY DEF TypeOK
<1>3. CASE Hit(a, write)
  <2>1. PICK r \in Accessed(a), l \in lines :
            /\ lines' = (lines \ {l}) \cup
                        {[l EXCEPT !.dirty = @ \/ write, !.writer = IF write THEN r ELSE @]}
            /\ lastResource' = r
            /\ unreported' = unreported \cup {r}
            /\ UNCHANGED zombies
    BY <1>3 DEF Hit
  <2>2. r \in alive /\ r \in Created /\ r \in Nat \ {0}
    BY AccessedFacts
  <2>3. LineAfterHit(l, r, write) \in LineStates /\ LineAfterHit(l, r, write).rsc = l.rsc
    BY <1>2, <2>2, HitFacts
  <2>4. lines' = (lines \ {l}) \cup {LineAfterHit(l, r, write)}
    BY <2>1 DEF LineAfterHit
  <2>5. lines' \subseteq LineStates /\ \A m \in lines' : m.rsc \in Created
    BY <1>2, <2>3, <2>4
  <2> QED
    BY <1>1, <2>1, <2>2, <2>5, TypedKept DEF TypeOK
<1>4. CASE Miss(a, write)
  <2>1. PICK r \in Accessed(a), victims \in SUBSET lines :
            /\ lines' = (lines \ victims) \cup {Filled(a, r, write)}
            /\ lastResource' = r
            /\ WriteBack({l \in victims : l.dirty}, {r})
    BY <1>4 DEF Miss
  <2>2. r \in alive /\ r \in Created /\ r \in Nat \ {0}
    BY AccessedFacts
  <2>3. a \in Nat /\ translation[Page(a)] \in Nat \cup {NoPage}
    BY AddressFacts DEF TypeOK, VmTypeOK
  <2>4. Filled(a, r, write) \in LineStates /\ Filled(a, r, write).rsc = r
    BY <2>2, <2>3 DEF Filled, LineStates
  <2>5. lines' \subseteq LineStates /\ \A m \in lines' : m.rsc \in Created
    BY <1>2, <2>1, <2>2, <2>4
  <2>6. zombies' \subseteq gone /\ unreported' \subseteq Created
    BY <1>2, <2>1, <2>2 DEF WriteBack, Resurrected, TypeOK
  <2> QED
    BY <1>1, <2>1, <2>2, <2>5, <2>6, TypedKept DEF TypeOK
<1> QED
  BY <1>3, <1>4 DEF Access

LEMMA TypedStep ==
    ASSUME Typed, Room, [Next]_vars
    PROVE  Typed'
<1> USE DEF Typed
<1>1. ASSUME NEW rng \in Ranges, Create(rng) PROVE Typed'
  BY <1>1, TypedCreate
<1>2. ASSUME NEW r \in alive, Destroy(range[r].first) PROVE Typed'
  BY <1>2, TypedDestroy
<1>3. CASE VmStep
  <2>1. VmTypeOK'
    BY <1>3, StepOfAlloc, StepOfFree DEF VmStep, TypeOK
  <2> QED
    BY <1>3, <2>1, TypedKept DEF VmStep, trackerVars, TypeOK
<1>4. ASSUME NEW a \in Addresses, NEW write \in BOOLEAN, Access(a, write) PROVE Typed'
  BY <1>4, TypedAccess
<1>5. CASE EndJob
  <2>1. VmTypeOK'
    BY <1>5 DEF EndJob, TypeOK, VmTypeOK, vmVars, Pages
  <2> QED
    BY <1>5, <2>1, FlushFacts, TypedKept DEF EndJob, TypeOK
<1>6. CASE EndFrame
  <2>1. VmTypeOK'
    BY <1>6 DEF EndFrame, TypeOK, VmTypeOK, vmVars, Pages
  <2>2. unreported' \subseteq Created
    BY <1>6 DEF EndFrame, Dirty, TypeOK
  <2> QED
    BY <1>6, <2>1, <2>2, TypedKept DEF EndFrame, TypeOK
<1>7. CASE UNCHANGED vars
  <2>1. VmTypeOK'
    BY <1>7 DEF vars, TypeOK, VmTypeOK, vmVars, Pages
  <2> QED
    BY <1>7, <2>1, TypedKept DEF vars, trackerVars, TypeOK
<1> QED
  BY <1>1, <1>2, <1>3, <1>4, <1>5, <1>6, <1>7 DEF Next

LEMMA RoomStep ==
    ASSUME VmTypeOK, Room, [Next]_vars
    PROVE  Room'
<1>1. CASE VmStep /\ AllocPage
  <2>1. PICK p \in Nat : p \notin used /\ used' = used \cup {p}
    BY <1>1, StepOfAlloc
  <2>2. allocated' = allocated + 1 /\ chunks' = Chunks
    BY <1>1, StepOfAlloc
  <2>3. IsFiniteSet(used') /\ Cardinality(used') = Cardinality(used) + 1
    BY <2>1, FS_AddElement DEF Room
  <2>4. Cardinality(used) \in Nat
    BY FS_CardinalityType DEF Room
  <2>5. allocated + 1 <= Chunks * ChunkSize
    <3>1. Chunks * ChunkSize \in Nat /\ allocated \in Nat
      BY RoomAhead, VirtualMemoryAssumption DEF VmTypeOK
    <3> QED
      BY <3>1, RoomAhead
  <2> QED
    BY <2>2, <2>3, <2>4, <2>5 DEF Room, VmTypeOK
<1>2. CASE VmStep /\ FreePage
  <2> DEFINE page == translation[loop.vpage]
  <2>1. used' = used \ {page} /\ UNCHANGED <<chunks, allocated>>
    BY <1>2 DEF FreePage
  <2> HIDE DEF page
  <2>2. used' \in SUBSET used
    BY <2>1
  <2>3. IsFiniteSet(used') /\ Cardinality(used') <= Cardinality(used)
    BY <2>2, FS_Subset DEF Room
  <2>4. Cardinality(used) \in Nat /\ Cardinality(used') \in Nat
    BY <2>3, FS_CardinalityType DEF Room
  <2> QED
    BY <2>1, <2>3, <2>4 DEF Room, VmTypeOK
<1>3. ASSUME ~ VmStep PROVE UNCHANGED <<chunks, used, allocated>>
  BY <1>3 DEF Next, Create, Add, Destroy, Remove, Access, EndJob, EndFrame, vars, vmVars
<1> QED
  BY <1>1, <1>2, <1>3 DEF VmStep, Room

-----------------------------------------------------------------------------
(* The loops over pages.                                                   *)
LEMMA Advance ==
    ASSUME VmTypeOK, loop.op # "none", loop.vpage <= loop.last, loop' = NextIteration
    PROVE  /\ loop.vpage \in Remaining
           /\ loop'.op = loop.op \/ loop'.op = "none"
           /\ loop'.op # "none" => loop'.vpage <= loop'.last /\ Remaining' = Remaining \ {loop.vpage}
           /\ loop'.op = "none" => Remaining = {loop.vpage}
<1>1. loop.vpage \in Nat /\ loop.last \in Nat
  BY DEF VmTypeOK, Loops
<1>2. loop.vpage \in Remaining
  BY <1>1 DEF Remaining
<1>3. CASE loop.vpage < loop.last
  <2>1. /\ loop'.op = loop.op
        /\ loop'.vpage = loop.vpage + 1
        /\ loop'.last = loop.last
    BY <1>3 DEF NextIteration, VmTypeOK, Loops
  <2>2. loop'.vpage <= loop'.last
    BY <1>1, <1>3, <2>1
  <2>3. Remaining' = Remaining \ {loop.vpage}
    BY <1>1, <2>1 DEF Remaining
  <2> QED
    BY <1>2, <2>1, <2>2, <2>3
<1>4. CASE ~ (loop.vpage < loop.last)
  <2>1. loop'.op = "none"
    BY <1>4 DEF NextIteration, Idle
  <2>2. loop.vpage = loop.last
    BY <1>1, <1>4
  <2>3. Remaining = {loop.vpage}
    BY <1>1, <2>2 DEF Remaining
  <2> QED
    BY <1>2, <2>1, <2>3
<1> QED
  BY <1>3, <1>4

LEMMA LivePagesMapped ==
    ASSUME Typed
    PROVE  /\ LivePages \subseteq VPage
           /\ \A r \in alive : range[r] \in Ranges /\ PagesOf(r) \subseteq VPage
<1>1. \A r \in alive : range[r] \in Ranges
  BY IdFacts DEF Typed, TypeOK
<1>2. \A r \in alive : PagesOf(r) \subseteq VPage
  BY <1>1, RangeFacts DEF PagesOf
<1> QED
  BY <1>1, <1>2 DEF LivePages

LEMMA CreateLoop ==
    ASSUME Typed, NEW rng \in Ranges, Create(rng)
    PROVE  /\ loop.op = "none"
           /\ loop'.op = "alloc"
           /\ loop'.vpage <= loop'.last
           /\ Remaining' = Page(rng.first) .. Page(rng.last)
           /\ Remaining' \subseteq VPage
           /\ LivePages' = LivePages \cup Remaining'
           /\ \A r \in alive : PagesOf(r)' = PagesOf(r)
           /\ \A r \in alive' \ alive : PagesOf(r)' = Remaining'
<1>1. PICK id \in Nat \ {0} :
          /\ id \notin Created
          /\ range'[id] = rng
          /\ \A r \in Created : range'[r] = range[r]
          /\ alive' = alive \cup {id}
  BY NewId DEF Typed
<1>2. loop = Idle /\ loop' = Running("alloc", Page(rng.first), Page(rng.last))
  BY DEF Create, Add
<1>3. loop.op = "none" /\ loop'.op = "alloc" /\ loop'.vpage = Page(rng.first)
      /\ loop'.last = Page(rng.last)
  BY <1>2 DEF Idle, Running
<1>4. Remaining' = Page(rng.first) .. Page(rng.last) /\ loop'.vpage <= loop'.last
  BY <1>3, RangeFacts DEF Remaining
<1>5. Remaining' \subseteq VPage
  BY <1>4, RangeFacts
<1>6. \A r \in alive : r \in Created /\ PagesOf(r)' = PagesOf(r)
  BY <1>1 DEF PagesOf, Typed, TypeOK
<1>7. PagesOf(id)' = Remaining'
  BY <1>1, <1>4 DEF PagesOf
<1>8. LivePages' = LivePages \cup Remaining'
  BY <1>1, <1>6, <1>7 DEF LivePages
<1> QED
  BY <1>1, <1>3, <1>4, <1>5, <1>6, <1>7, <1>8

LEMMA DestroyLoop ==
    ASSUME Typed, NEW a, Destroy(a)
    PROVE  \E r \in alive :
              /\ loop.op = "none"
              /\ loop'.op = "free"
              /\ loop'.vpage <= loop'.last
              /\ Remaining' = PagesOf(r)
              /\ alive' = alive \ {r}
              /\ range' = range
              /\ UNCHANGED <<translation, used, overlapped>>
              /\ LivePages = LivePages' \cup PagesOf(r)
              /\ \A s \in alive : PagesOf(s)' = PagesOf(s)
<1>1. PICK r \in FindAddr(a) :
          /\ loop = Idle
          /\ alive' = alive \ {r}
          /\ loop' = Running("free", Page(range[r].first), Page(range[r].last))
          /\ UNCHANGED <<translation, used, range, overlapped>>
  BY DEF Destroy, Remove
<1>2. r \in alive
  BY DEF FindAddr
<1>3. range[r] \in Ranges
  BY <1>2, LivePagesMapped
<1>4. loop.op = "none" /\ loop'.op = "free" /\ loop'.vpage = Page(range[r].first)
      /\ loop'.last = Page(range[r].last)
  BY <1>1 DEF Idle, Running
<1>5. Remaining' = PagesOf(r) /\ loop'.vpage <= loop'.last
  BY <1>3, <1>4, RangeFacts DEF Remaining, PagesOf
<1>6. \A s \in alive : PagesOf(s)' = PagesOf(s)
  BY <1>1 DEF PagesOf
<1>7. LivePages = LivePages' \cup PagesOf(r)
  BY <1>1, <1>2, <1>6 DEF LivePages
<1> QED
  BY <1>1, <1>2, <1>4, <1>5, <1>6, <1>7

\* The steps that leave memory and the set of live resources alone.
Elsewhere ==
    UNCHANGED <<vmVars, range, alive, overlapped>>

LEMMA StepKinds ==
    ASSUME [Next]_vars
    PROVE  \/ \E rng \in Ranges : Create(rng)
           \/ \E r \in alive : Destroy(range[r].first)
           \/ VmStep
           \/ Elsewhere
BY DEF Next, Access, EndJob, EndFrame, vars, trackerVars, vmVars, Elsewhere

LEMMA MappingStep ==
    ASSUME Typed, Room, Looping, Translated, [Next]_vars
    PROVE  Looping' /\ Translated'
<1>0. VmTypeOK
  BY DEF Typed, TypeOK
<1>1. ASSUME NEW rng \in Ranges, Create(rng) PROVE Looping' /\ Translated'
  <2>1. UNCHANGED translation
    BY <1>1 DEF Create, Add
  <2> QED
    BY <1>1, <2>1, CreateLoop DEF Looping, Translated
<1>2. ASSUME NEW a \in alive, Destroy(range[a].first) PROVE Looping' /\ Translated'
  <2>1. PICK r \in alive :
              /\ loop.op = "none"
              /\ loop'.op = "free"
              /\ loop'.vpage <= loop'.last
              /\ Remaining' = PagesOf(r)
              /\ UNCHANGED <<translation>>
              /\ LivePages = LivePages' \cup PagesOf(r)
    BY <1>2, DestroyLoop
  <2>2. PagesOf(r) \subseteq VPage
    BY LivePagesMapped
  <2> QED
    BY <2>1, <2>2 DEF Looping, Translated
<1>3. CASE VmStep /\ AllocPage
  <2>1. PICK p \in Nat : translation' = [translation EXCEPT ![loop.vpage] = p]
    BY <1>0, <1>3, StepOfAlloc
  <2>2. loop.op = "alloc" /\ loop' = NextIteration /\ LivePages' = LivePages
    BY <1>3 DEF AllocPage, VmStep, trackerVars, LivePages, PagesOf
  <2>3. /\ loop.vpage \in Remaining
        /\ loop'.op = loop.op \/ loop'.op = "none"
        /\ loop'.op # "none" => loop'.vpage <= loop'.last /\ Remaining' = Remaining \ {loop.vpage}
        /\ loop'.op = "none" => Remaining = {loop.vpage}
    BY <1>0, <2>2, Advance DEF Looping
  <2>4. Looping'
    BY <2>2, <2>3 DEF Looping
  <2>5. p # NoPage
    BY DEF NoPage
  <2>6. loop.vpage \in VPage
    BY <2>2, <2>3 DEF Looping
  <2>7. translation'[loop.vpage] = p /\ \A v \in VPage \ {loop.vpage} : translation'[v] = translation[v]
    BY <1>0, <2>1, <2>6 DEF VmTypeOK
  <2>8. Translated'
    BY <2>2, <2>3, <2>5, <2>7, LivePagesMapped DEF Translated
  <2> QED
    BY <2>4, <2>8
<1>4. CASE VmStep /\ FreePage
  <2>1. loop.op = "free" /\ loop' = NextIteration /\ LivePages' = LivePages /\ UNCHANGED translation
    BY <1>4 DEF FreePage, VmStep, trackerVars, LivePages, PagesOf
  <2>2. /\ loop'.op = loop.op \/ loop'.op = "none"
        /\ loop'.op # "none" => loop'.vpage <= loop'.last /\ Remaining' = Remaining \ {loop.vpage}
    BY <1>0, <2>1, Advance DEF Looping
  <2> QED
    BY <2>1, <2>2 DEF Looping, Translated
<1>5. CASE Elsewhere
  BY <1>5 DEF Elsewhere, vmVars, Looping, Translated, Remaining, LivePages, PagesOf
<1> QED
  BY <1>1, <1>2, <1>3, <1>4, <1>5, StepKinds DEF VmStep

-----------------------------------------------------------------------------
(* Pages stay private.                                                     *)
LEMMA CreateOverlap ==
    ASSUME Typed, NEW rng \in Ranges, Create(rng), ~ overlapped'
    PROVE  /\ ~ overlapped
           /\ \A r \in alive : PagesOf(r) \cap Remaining' = {}
<1>1. Remaining' = Page(rng.first) .. Page(rng.last)
  BY CreateLoop
<1>2. overlapped' = (overlapped \/ \E r \in alive : PagesOf(r) \cap (Page(rng.first) .. Page(rng.last)) # {})
  BY DEF Create, Add
<1> QED
  BY <1>1, <1>2

LEMMA ApartStep ==
    ASSUME Typed, Looping, Apart, [Next]_vars
    PROVE  Apart'
<1>0. VmTypeOK
  BY DEF Typed, TypeOK
<1>1. ASSUME NEW rng \in Ranges, Create(rng), ~ overlapped' PROVE Apart'
  <2>1. /\ loop'.op = "alloc"
        /\ \A r \in alive : PagesOf(r)' = PagesOf(r)
        /\ \A r \in alive' \ alive : PagesOf(r)' = Remaining'
    BY <1>1, CreateLoop
  <2>2. ~ overlapped /\ \A r \in alive : PagesOf(r) \cap Remaining' = {}
    BY <1>1, CreateOverlap
  <2>3. PICK id : alive' = alive \cup {id}
    BY <1>1 DEF Create, Add
  <2>4. ASSUME NEW r \in alive', NEW s \in alive', r # s
        PROVE  PagesOf(r)' \cap PagesOf(s)' = {}
    BY <2>1, <2>2, <2>3, <2>4 DEF Apart
  <2> QED
    BY <2>1, <2>4 DEF Apart
<1>2. ASSUME NEW a \in alive, Destroy(range[a].first), ~ overlapped' PROVE Apart'
  <2>1. PICK r \in alive :
              /\ Remaining' = PagesOf(r)
              /\ alive' = alive \ {r}
              /\ UNCHANGED overlapped
              /\ \A s \in alive : PagesOf(s)' = PagesOf(s)
    BY <1>2, DestroyLoop
  <2>2. \A s \in alive' : PagesOf(s)' \cap Remaining' = {}
    BY <1>2, <2>1 DEF Apart
  <2>3. LivePages' \cap Remaining' = {}
    BY <2>2 DEF LivePages
  <2> QED
    BY <1>2, <2>1, <2>3 DEF Apart
<1>3. CASE VmStep
  <2>1. /\ UNCHANGED <<overlapped, alive>>
        /\ LivePages' = LivePages
        /\ \A r : PagesOf(r)' = PagesOf(r)
    BY <1>3 DEF VmStep, trackerVars, LivePages, PagesOf
  <2>2. loop.op # "none" /\ loop' = NextIteration
    BY <1>3 DEF VmStep, AllocPage, FreePage
  <2>3. /\ loop'.op = loop.op \/ loop'.op = "none"
        /\ loop'.op # "none" => Remaining' = Remaining \ {loop.vpage}
    BY <1>0, <2>2, Advance DEF Looping
  <2> QED
    BY <2>1, <2>3 DEF Apart
<1>4. CASE Elsewhere
  BY <1>4 DEF Elsewhere, vmVars, Apart, Remaining, LivePages, PagesOf
<1>5. CASE overlapped'
  BY <1>5 DEF Apart
<1> QED
  BY <1>1, <1>2, <1>3, <1>4, <1>5, StepKinds

LEMMA HeldPages ==
    ASSUME Typed, Looping
    PROVE  /\ Held = IF loop.op = "alloc" THEN LivePages \ Remaining
                     ELSE IF loop.op = "free" THEN LivePages \cup Remaining
                     ELSE LivePages
           /\ Held \subseteq VPage
<1>1. Held = IF loop.op = "alloc" THEN LivePages \ Remaining
             ELSE IF loop.op = "free" THEN LivePages \cup Remaining
             ELSE LivePages
  BY DEF Held, LivePages
<1> QED
  BY <1>1, LivePagesMapped DEF Looping

LEMMA PrivateStep ==
    ASSUME Typed, Typed', Room, Looping, Looping', Apart, PagesArePrivate, [Next]_vars
    PROVE  PagesArePrivate'
<1>0. VmTypeOK
  BY DEF Typed, TypeOK
<1> DEFINE HeldOf(op, live, rest) ==
               IF op = "alloc" THEN live \ rest
               ELSE IF op = "free" THEN live \cup rest
               ELSE live
<1>01. Held = HeldOf(loop.op, LivePages, Remaining) /\ Held \subseteq VPage
  BY HeldPages
<1>02. Held' = HeldOf(loop'.op, LivePages', Remaining')
  BY DEF Held, LivePages
<1>03. /\ ~ overlapped => used = {translation[v] : v \in Held}
       /\ ~ overlapped => \A v, w \in Held : translation[v] = translation[w] => v = w
  BY DEF PagesArePrivate
<1>04. ASSUME UNCHANGED <<used, translation, overlapped>>, Held' = Held PROVE PagesArePrivate'
  BY <1>03, <1>04 DEF PagesArePrivate
<1>1. ASSUME NEW rng \in Ranges, Create(rng), ~ overlapped' PROVE PagesArePrivate'
  <2>1. /\ loop.op = "none" /\ loop'.op = "alloc"
        /\ LivePages' = LivePages \cup Remaining'
    BY <1>1, CreateLoop
  <2>2. ~ overlapped /\ LivePages \cap Remaining' = {}
    BY <1>1, CreateOverlap DEF LivePages
  <2>3. UNCHANGED <<used, translation>>
    BY <1>1 DEF Create, Add
  <2>4. Held' = Held
    BY <1>01, <1>02, <2>1, <2>2
  <2> QED
    BY <1>03, <2>2, <2>3, <2>4 DEF PagesArePrivate
<1>2. ASSUME NEW a \in alive, Destroy(range[a].first) PROVE PagesArePrivate'
  <2>1. PICK r \in alive :
              /\ loop.op = "none"
              /\ loop'.op = "free"
              /\ Remaining' = PagesOf(r)
              /\ UNCHANGED <<translation, used, overlapped>>
              /\ LivePages = LivePages' \cup PagesOf(r)
    BY <1>2, DestroyLoop
  <2>2. Held' = Held
    BY <1>01, <1>02, <2>1
  <2> QED
    BY <1>04, <2>1, <2>2
<1>3. ASSUME VmStep, AllocPage, ~ overlapped PROVE PagesArePrivate'
  <2>1. PICK p \in Nat : /\ p \notin used
                        /\ used' = used \cup {p}
                        /\ translation' = [translation EXCEPT ![loop.vpage] = p]
    BY <1>0, <1>3, StepOfAlloc
  <2>2. /\ loop.op = "alloc" /\ loop' = NextIteration /\ LivePages' = LivePages
        /\ UNCHANGED overlapped
    BY <1>3 DEF AllocPage, VmStep, trackerVars, LivePages, PagesOf
  <2>3. /\ loop.vpage \in Remaining
        /\ loop'.op = loop.op \/ loop'.op = "none"
        /\ loop'.op # "none" => Remaining' = Remaining \ {loop.vpage}
        /\ loop'.op = "none" => Remaining = {loop.vpage}
    BY <1>0, <2>2, Advance DEF Looping
  <2>4. Remaining \subseteq LivePages
    BY <2>2 DEF Looping
  <2>5. Held' = Held \cup {loop.vpage} /\ loop.vpage \notin Held
    BY <1>01, <1>02, <2>2, <2>3, <2>4
  <2>6. loop.vpage \in VPage
    BY <2>2, <2>3 DEF Looping
  <2>7. translation'[loop.vpage] = p /\ \A v \in Held : translation'[v] = translation[v]
    BY <1>0, <1>01, <2>1, <2>5, <2>6 DEF VmTypeOK
  <2>8. used' = {translation'[v] : v \in Held'}
    BY <1>3, <1>03, <2>1, <2>5, <2>7
  <2>9. \A v \in Held : translation'[v] # p
    BY <1>3, <1>03, <2>1, <2>7
  <2>10. \A v, w \in Held' : translation'[v] = translation'[w] => v = w
    BY <1>3, <1>03, <2>5, <2>7, <2>9
  <2> QED
    BY <2>8, <2>10 DEF PagesArePrivate
<1>4. ASSUME VmStep, FreePage, ~ overlapped PROVE PagesArePrivate'
  <2>1. /\ loop.op = "free" /\ loop' = NextIteration /\ LivePages' = LivePages
        /\ used' = used \ {translation[loop.vpage]}
        /\ UNCHANGED <<translation, overlapped>>
    BY <1>4 DEF FreePage, VmStep, trackerVars, LivePages, PagesOf
  <2>2. /\ loop.vpage \in Remaining
        /\ loop'.op = loop.op \/ loop'.op = "none"
        /\ loop'.op # "none" => Remaining' = Remaining \ {loop.vpage}
        /\ loop'.op = "none" => Remaining = {loop.vpage}
    BY <1>0, <2>1, Advance DEF Looping
  <2>3. LivePages \cap Remaining = {}
    BY <1>4, <2>1 DEF Apart
  <2>4. Held' = Held \ {loop.vpage} /\ loop.vpage \in Held
    BY <1>01, <1>02, <2>1, <2>2, <2>3
  <2>5. used' = {translation[v] : v \in Held'}
    BY <1>4, <1>03, <2>1, <2>4
  <2> QED
    BY <1>4, <1>03, <2>1, <2>4, <2>5 DEF PagesArePrivate
<1>5. CASE Elsewhere
  <2>1. UNCHANGED <<used, translation, overlapped>>
    BY <1>5 DEF Elsewhere, vmVars
  <2>2. Held' = Held
    BY <1>5 DEF Elsewhere, vmVars, Held, Remaining, PagesOf
  <2> QED
    BY <1>04, <2>1, <2>2
<1>6. CASE overlapped'
  BY <1>6 DEF PagesArePrivate
<1>7. VmStep => UNCHANGED overlapped
  BY DEF VmStep, trackerVars
<1> QED
  BY <1>1, <1>2, <1>3, <1>4, <1>5, <1>6, <1>7, StepKinds DEF VmStep

-----------------------------------------------------------------------------
(* Lines follow their resources.                                           *)
Tracking ==
    /\ Separate
    /\ Flushed
    /\ LinesFollowResources

LEMMA NoLines ==
    ASSUME lines' = {}
    PROVE  Flushed' /\ LinesFollowResources'
BY DEF Flushed, LinesFollowResources

LEMMA TrackingCreate ==
    ASSUME Typed, Tracking, NEW rng \in Ranges, Create(rng)
    PROVE  Tracking'
<1>1. PICK id \in Nat \ {0} :
          /\ id \notin Created
          /\ range'[id] = rng
          /\ \A r \in Created : range'[r] = range[r]
          /\ alive' = alive \cup {id}
  BY NewId DEF Typed
<1>2. \A r \in alive : r \in Created
  BY DEF Typed, TypeOK
<1>3. \A r \in alive : range[r].last < rng.first \/ rng.last < range[r].first
  BY DEF Create, Add
<1>4. Separate'
  BY <1>1, <1>2, <1>3 DEF Separate, Tracking
<1>5. lines' = {}
  BY DEF Create, FlushFilterCache
<1> QED
  BY <1>4, <1>5, NoLines DEF Tracking

\* Ranges stay; resources may go.
LEMMA SeparateKept ==
    ASSUME Separate, range' = range, alive' \subseteq alive
    PROVE  Separate'
BY DEF Separate

LEMMA TrackingAccess ==
    ASSUME Typed, Tracking, NEW a \in Addresses, NEW write \in BOOLEAN, Access(a, write)
    PROVE  Tracking'
<1>1. /\ UNCHANGED <<loop, translation, range, alive>>
      /\ loop = Idle
  BY DEF Access, vmVars
<1>2. Separate' /\ Flushed'
  BY <1>1, SeparateKept DEF Flushed, Idle, Tracking
<1>3. \A r, b : Contains(r, b)' <=> Contains(r, b)
  BY <1>1 DEF Contains
<1>4. ASSUME NEW new, lines' \subseteq lines \cup {new},
             new.rsc \in alive, Contains(new.rsc, new.addr),
             new.page = translation[Page(new.addr)],
             new.dirty => new.writer = new.rsc
      PROVE  LinesFollowResources'
  BY <1>1, <1>3, <1>4 DEF LinesFollowResources, Page, Tracking
<1>5. CASE Hit(a, write)
  <2>1. PICK r \in Accessed(a), l \in lines :
            /\ l.addr = a
            /\ lines' = (lines \ {l}) \cup {LineAfterHit(l, r, write)}
    BY <1>5 DEF Hit, LineAfterHit
  <2>2. r \in alive /\ r \in Nat \ {0} /\ Contains(r, a)
    BY AccessedFacts DEF Typed
  <2>3. l \in LineStates
    BY DEF Typed, TypeOK
  <2> DEFINE new == LineAfterHit(l, r, write)
  <2>4. /\ new.addr = l.addr /\ new.rsc = l.rsc /\ new.page = l.page
        /\ new.dirty => l.dirty \/ write
        /\ new.writer = IF write THEN r ELSE l.writer
    BY <2>2, <2>3, HitFacts
  <2>5. lines' \subseteq lines \cup {new}
    BY <2>1
  <2> HIDE DEF new
  <2>6. /\ l.rsc \in alive /\ Contains(l.rsc, a)
        /\ l.page = translation[Page(l.addr)]
        /\ l.dirty => l.writer = l.rsc
    BY <2>1 DEF LinesFollowResources, Tracking
  <2>7. \A s \in alive : range[s].first \in Nat /\ range[s].last \in Nat
    BY LivePagesMapped, RangeFacts
  <2>8. r = l.rsc
    <3>1. range[r].first <= a /\ a <= range[r].last
      BY <2>2 DEF Contains
    <3>2. range[l.rsc].first <= a /\ a <= range[l.rsc].last
      BY <2>6 DEF Contains
    <3>3. ~ (range[r].last < range[l.rsc].first) /\ ~ (range[l.rsc].last < range[r].first)
      <4>1. a \in Nat
        BY AddressFacts
      <4>2. /\ range[r].first \in Nat /\ range[r].last \in Nat
            /\ range[l.rsc].first \in Nat /\ range[l.rsc].last \in Nat
        BY <2>2, <2>6, <2>7
      <4> QED
        BY <3>1, <3>2, <4>1, <4>2
    <3> QED
      BY <2>2, <2>6, <3>3 DEF Separate, Tracking
  <2>9. new.dirty => new.writer = new.rsc
    BY <2>4, <2>6, <2>8
  <2> QED
    BY <1>4, <1>2, <2>1, <2>4, <2>5, <2>6, <2>9 DEF Tracking
<1>6. CASE Miss(a, write)
  <2>1. PICK r \in Accessed(a), victims \in SUBSET lines :
            lines' = (lines \ victims) \cup {Filled(a, r, write)}
    BY <1>6 DEF Miss
  <2>2. r \in alive /\ Contains(r, a)
    BY AccessedFacts DEF Typed
  <2> DEFINE new == Filled(a, r, write)
  <2>3. /\ new.addr = a /\ new.rsc = r /\ new.page = translation[Page(a)]
        /\ new.dirty = write /\ new.writer = IF write THEN r ELSE 0
    BY DEF Filled
  <2>4. lines' \subseteq lines \cup {new}
    BY <2>1
  <2> HIDE DEF new
  <2> QED
    BY <1>4, <1>2, <2>2, <2>3, <2>4 DEF Tracking
<1> QED
  BY <1>5, <1>6 DEF Access

LEMMA TrackingStep ==
    ASSUME Typed, Tracking, [Next]_vars
    PROVE  Tracking'
<1>1. ASSUME NEW rng \in Ranges, Create(rng) PROVE Tracking'
  BY <1>1, TrackingCreate
<1>2. ASSUME NEW r \in alive, Destroy(range[r].first) PROVE Tracking'
  <2>1. range' = range /\ alive' \subseteq alive /\ lines' = {}
    BY <1>2 DEF Destroy, Remove, FlushFilterCache
  <2> QED
    BY <2>1, SeparateKept, NoLines DEF Tracking
<1>3. CASE VmStep
  <2>1. UNCHANGED <<range, alive, lines>> /\ loop.op # "none"
    BY <1>3 DEF VmStep, AllocPage, FreePage, trackerVars
  <2>2. lines' = {}
    BY <2>1 DEF Flushed, Tracking
  <2> QED
    BY <2>1, <2>2, SeparateKept, NoLines DEF Tracking
<1>4. ASSUME NEW a \in Addresses, NEW write \in BOOLEAN, Access(a, write) PROVE Tracking'
  BY <1>4, TrackingAccess
<1>5. CASE EndJob \/ EndFrame
  <2>1. UNCHANGED <<range, alive>> /\ lines' = {}
    BY <1>5 DEF EndJob, EndFrame, FlushFilterCache
  <2> QED
    BY <2>1, SeparateKept, NoLines DEF Tracking
<1>6. CASE UNCHANGED vars
  <2>1. UNCHANGED <<loop, translation, range, alive, lines>>
    BY <1>6 DEF vars, vmVars, trackerVars
  <2> QED
    BY <2>1 DEF Tracking, Separate, Flushed, LinesFollowResources, Contains, Page
<1> QED
  BY <1>1, <1>2, <1>3, <1>4, <1>5, <1>6 DEF Next

-----------------------------------------------------------------------------
(* Every use is reported.                                                  *)
LEMMA ReportStep ==
    ASSUME Typed, NoUseIsLost, [Next]_vars
    PROVE  NoUseIsLost'
<1> USE DEF NoUseIsLost, Reported
<1>0. /\ \A l \in lines : l.rsc \in Created
      /\ gone = Created \ alive
  BY DEF Typed, TypeOK
<1>3. ASSUME NEW ls \in SUBSET lines, NEW accessed \in SUBSET alive, WriteBack(ls, accessed),
             alive \subseteq alive' \cup dead', dead \subseteq dead'
      PROVE  NoUseIsLost'
  BY <1>0, <1>3 DEF WriteBack, Resurrected
<1>31. ASSUME FlushFilterCache, alive \subseteq alive' \cup dead', dead \subseteq dead'
       PROVE  NoUseIsLost'
  <2>1. WriteBack(Dirty, {}) /\ Dirty \in SUBSET lines /\ {} \in SUBSET alive
    BY <1>31 DEF FlushFilterCache, Dirty
  <2> QED
    BY <1>3, <1>31, <2>1
<1>1. ASSUME NEW rng \in Ranges, Create(rng) PROVE NoUseIsLost'
  <2>1. alive \subseteq alive' /\ dead' = dead
    BY <1>1 DEF Create, Add
  <2> QED
    BY <1>1, <1>31, <2>1 DEF Create
<1>2. ASSUME NEW r \in alive, Destroy(range[r].first) PROVE NoUseIsLost'
  <2>1. alive \subseteq alive' \cup dead' /\ dead \subseteq dead'
    BY <1>2 DEF Destroy, Remove
  <2> QED
    BY <1>2, <1>31, <2>1 DEF Destroy
<1>4. ASSUME NEW a \in Addresses, NEW write \in BOOLEAN, Access(a, write) PROVE NoUseIsLost'
  <2>1. UNCHANGED <<alive, dead>>
    BY <1>4 DEF Access
  <2>2. CASE Hit(a, write)
    <3>1. PICK r \in Accessed(a) : unreported' = unreported \cup {r} /\ UNCHANGED zombies
      BY <2>2 DEF Hit
    <3>2. r \in alive
      BY AccessedFacts DEF Typed
    <3> QED
      BY <2>1, <3>1, <3>2
  <2>3. CASE Miss(a, write)
    <3>1. PICK r \in Accessed(a), victims \in SUBSET lines :
              WriteBack({l \in victims : l.dirty}, {r})
      BY <2>3 DEF Miss
    <3>2. {r} \in SUBSET alive /\ {l \in victims : l.dirty} \in SUBSET lines
      BY AccessedFacts DEF Typed
    <3> QED
      BY <1>3, <2>1, <3>1, <3>2
  <2> QED
    BY <1>4, <2>2, <2>3 DEF Access
<1>5. CASE EndJob
  <2>1. FlushFilterCache /\ UNCHANGED <<alive, dead>>
    BY <1>5 DEF EndJob
  <2> QED
    BY <1>31, <2>1
<1>6. CASE EndFrame
  BY <1>0, <1>6 DEF EndFrame, Resurrected, Dirty
<1>7. CASE VmStep \/ UNCHANGED vars
  BY <1>7 DEF VmStep, vars, trackerVars
<1> QED
  BY <1>1, <1>2, <1>4, <1>5, <1>6, <1>7 DEF Next

-----------------------------------------------------------------------------
(* The inductive invariant and what follows from it.                       *)
IInv ==
    /\ Typed
    /\ Room
    /\ Looping /\ Translated
    /\ Apart /\ PagesArePrivate
    /\ Tracking
    /\ NoUseIsLost

LEMMA InvInit == Init => IInv
<1> SUFFICES ASSUME Init PROVE IInv
  OBVIOUS
<1>1. /\ chunks = InitChunks /\ used = {} /\ allocated = 0 /\ loop = Idle
      /\ translation = [v \in VPage |-> NoPage]
      /\ range = << >> /\ alive = {} /\ dead = {} /\ gone = {} /\ zombies = {}
      /\ lastResource = 0 /\ lines = {} /\ unreported = {}
      /\ overlapped = FALSE
  BY DEF Init, VmInit
<1>2. loop.op = "none" /\ loop \in Loops
  BY <1>1 DEF Idle, Loops
<1>3. VmTypeOK
  BY <1>1, <1>2, VirtualMemoryAssumption DEF VmTypeOK
<1>4. Created = {} /\ Created = 1 .. 0
  BY <1>1 DEF Created
<1>5. Cardinality(Created) = 0
  BY <1>4, FS_EmptySet
<1>6. range \in [1 .. 0 -> Ranges]
  BY <1>1
<1>7. Typed
  <2>1. range \in [1 .. Cardinality(Created) -> Ranges]
    BY <1>5, <1>6
  <2>2. TypeOK
    BY <1>1, <1>3, <1>4, <2>1 DEF TypeOK
  <2>3. Numbered
    BY <1>4 DEF Numbered
  <2> QED
    BY <1>1, <2>2, <2>3 DEF Typed
<1>8. Room
  <2>1. IsFiniteSet({}) /\ Cardinality({}) = 0
    BY FS_EmptySet
  <2>2. 0 <= InitChunks * ChunkSize
    BY VirtualMemoryAssumption
  <2> QED
    BY <1>1, <2>1, <2>2 DEF Room
<1>9. LivePages = {}
  BY <1>1 DEF LivePages
<1>10. Looping /\ Translated
  BY <1>2, <1>9 DEF Looping, Translated
<1>11. Apart /\ PagesArePrivate
  <2>1. Held = {}
    BY <1>2, <1>9 DEF Held, LivePages
  <2> QED
    BY <1>1, <1>2, <1>9, <2>1 DEF Apart, PagesArePrivate
<1>12. Tracking
  BY <1>1 DEF Tracking, Separate, Flushed, LinesFollowResources
<1> QED
  BY <1>1, <1>7, <1>8, <1>10, <1>11, <1>12 DEF IInv, NoUseIsLost

LEMMA InvStep == IInv /\ [Next]_vars => IInv'
<1> SUFFICES ASSUME IInv, [Next]_vars PROVE IInv'
  OBVIOUS
<1> USE DEF IInv
<1>1. Typed'
  BY TypedStep
<1>2. Room'
  BY RoomStep DEF Typed, TypeOK
<1>3. Looping' /\ Translated'
  BY MappingStep
<1>4. Apart'
  BY ApartStep
<1>5. PagesArePrivate'
  BY <1>1, <1>3, PrivateStep
<1>6. Tracking'
  BY TrackingStep
<1>7. NoUseIsLost'
  BY ReportStep
<1> QED
  BY <1>1, <1>2, <1>3, <1>4, <1>5, <1>6, <1>7

LEMMA InvHolds == Spec => []IInv
BY InvInit, InvStep, PTL DEF Spec

\* Every reachable state of memory, tracker and filter cache is well typed: a
\* resource is a zombie only if it was destroyed.
THEOREM ResourceTypeCorrect == Spec => []TypeOK
<1>1. IInv => TypeOK
  BY DEF IInv, Typed
<1> QED
  BY <1>1, InvHolds, PTL

\* find_free_page() always finds a page: the free list is never full when alloc()
\* searches it, whatever was freed or overlapped before.
THEOREM SearchAlwaysEnds == Spec => []SearchEnds
<1>1. IInv => SearchEnds
  BY RoomAhead DEF IInv, Typed, TypeOK, SearchEnds
<1> QED
  BY <1>1, InvHolds, PTL

\* free() never meets a page without a translation: the assertion in translate()
\* holds.
THEOREM FreesMappedPages == Spec => []FreesWhatIsMapped
<1>1. IInv => FreesWhatIsMapped
  <2>1. ASSUME IInv, loop.op = "free" PROVE translation[loop.vpage] # NoPage
    <3>1. loop.vpage \in Nat /\ loop.last \in Nat /\ loop.vpage <= loop.last
      BY <2>1 DEF IInv, Looping, Typed, TypeOK, VmTypeOK, Loops
    <3>2. loop.vpage \in Remaining
      BY <3>1 DEF Remaining
    <3> QED
      BY <2>1, <3>2 DEF IInv, Looping
  <2> QED
    BY <2>1 DEF FreesWhatIsMapped
<1> QED
  BY <1>1, InvHolds, PTL

\* While resources do not meet in a page, the pages in use are exactly those of
\* the live resources, and no two virtual pages share one.
THEOREM PagesStayPrivate == Spec => []PagesArePrivate
<1>1. IInv => PagesArePrivate
  BY DEF IInv
<1> QED
  BY <1>1, InvHolds, PTL

\* A line of the filter cache never outlives its resource, its address range or the
\* translation it was filled with, however addresses and pages are used again.
THEOREM LinesStayWithResources == Spec => []LinesFollowResources
<1>1. IInv => LinesFollowResources
  BY DEF IInv, Tracking
<1> QED
  BY <1>1, InvHolds, PTL

\* Every resource whose statistics changed is in the next frame's report.
THEOREM EveryUseIsReported == Spec => []NoUseIsLost
<1>1. IInv => NoUseIsLost
  BY DEF IInv
<1> QED
  BY <1>1, InvHolds, PTL
=============================================================================
