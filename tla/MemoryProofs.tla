----------------------------- MODULE MemoryProofs -----------------------------
(***************************************************************************)
(* Proofs about the cache models, for every stream of packets, geometry of *)
(* the cache, mask of shared blocks, saturation limit and kind of model.   *)
(*                                                                         *)
(* The argument.  A packet changes at most one line, and afterwards that   *)
(* line alone holds the packet's block: so a block is never in two lines,  *)
(* and what the line keeps about its block (dirty bit, counters) need only *)
(* be compared before and after that one change.  The victim exists since  *)
(* a set has finitely many ways; that it is the least recently used one    *)
(* matters to LruStack only.  What adds up is a sum over accounts, of      *)
(* which a step moves one of each kind by the same amount.                 *)
(***************************************************************************)
EXTENDS MemoryProperties, FiniteSetTheorems, WellFoundedInduction, TLAPS

Set == 0 .. NumSets - 1
LineState == [valid : BOOLEAN, dirty : BOOLEAN, addr : Nat, tsc : Nat,
              nbr : [Kind -> Nat], ctrs : [SubBlock -> Nat]]

Shape ==
    /\ conf \in Configs
    /\ frame \in Nat /\ scene \in Nat /\ tick \in Nat
    /\ lines \in [Set -> [Way -> LineState]]
    /\ touches \in [Blocks -> [SubBlock -> Nat]]
    /\ unwritten \subseteq Blocks

\* A line holds a block of its set, and no other line holds that block.
Placed ==
    /\ \A s \in Set, w \in Way :
        lines[s][w].valid => lines[s][w].addr \in Blocks /\ SetOf(lines[s][w].addr) = s
    /\ \A s \in Set, w, v \in Way :
        lines[s][w].valid /\ Holds(lines[s][v], lines[s][w].addr) => v = w

\* A line that was never used counts nothing, any other the uses of its block.
Counted ==
    \A s \in Set, w \in Way, i \in SubBlock :
        LET l == lines[s][w]
        IN l.ctrs[i] = IF l.valid THEN Clamped(touches[l.addr][i]) ELSE 0

\* The block is dirty in the line that holds it.
DirtyIn(cache, b) == \E w \in Way : Holds(cache[SetOf(b)][w], b) /\ cache[SetOf(b)][w].dirty
Pending ==
    conf.bypassed = {} /\ conf.filters = {} =>
        \A b \in Blocks : b \in unwritten <=> DirtyIn(lines, b)

CacheInv == Shape /\ Placed /\ Counted /\ Pending

-----------------------------------------------------------------------------
\* Every use of the geometry the proofs make.
LEMMA Geometry ==
    /\ NumSets \in Nat \ {0} /\ Ways \in Nat \ {0} /\ SubBlocks \in Nat \ {0}
    /\ CtrMax \in Nat \ {0} /\ NbrRange \in Nat \ {0}
BY MemoryModelAssumption

LEMMA PacketPlace ==
    ASSUME NEW p \in Packets
    PROVE  /\ p.cmd \in Cmd /\ p.job \in Nat /\ p.core \in Nat /\ p.rsc \in Nat
           /\ Block(p) \in Blocks /\ Block(p) \in Nat /\ SubBlockOf(p) \in SubBlock
           /\ SetOf(Block(p)) \in Set
<1>1. p \in [cmd : Cmd, addr : Nat, job : Nat, core : Nat, rsc : Nat]
  BY MemoryModelAssumption
<1>2. Block(p) \in Nat /\ SubBlockOf(p) \in SubBlock
  BY <1>1, Geometry DEF Block, SubBlockOf, SubBlock
<1>3. SetOf(Block(p)) \in Set
  BY <1>2, Geometry DEF SetOf, Set
<1>4. QED  BY <1>1, <1>2, <1>3 DEF Blocks

\* A nonempty set of naturals has a least one: its smallest interval from 0.
LEMMA LeastOf ==
    ASSUME NEW T \in SUBSET Nat, T # {}
    PROVE  \E n \in T : \A m \in T : n <= m
<1>1. PICK top \in T : TRUE
  OBVIOUS
<1> DEFINE U == 0 .. top
           I == {0 .. t : t \in {m \in T : m <= top}}
<1>2. IsFiniteSet(U) /\ FiniteSubsetsOf(U) = SUBSET U
  <2>1. IsFiniteSet(U)
    BY FS_Interval
  <2>2. QED  BY <2>1, FS_FiniteSubsetsOfFinite
<1>3. IsWellFoundedOn(StrictSubsetOrdering(U), SUBSET U)
  BY <1>2, FS_StrictSubsetOrderingWellFounded
<1>4. I \subseteq SUBSET U /\ I # {}
  <2>1. 0 .. top \in I
    OBVIOUS
  <2>2. \A m \in T : m <= top => 0 .. m \subseteq U
    OBVIOUS
  <2>3. QED  BY <2>1, <2>2
<1>5. PICK x \in I : \A y \in I : ~ (<<y, x>> \in StrictSubsetOrdering(U))
  <2> HIDE DEF U, I
  <2>1. QED  BY <1>3, <1>4, WFMin
<1>6. PICK n \in T : n <= top /\ x = 0 .. n
  OBVIOUS
<1>7. \A m \in T : n <= m
  <2>1. SUFFICES ASSUME NEW m \in T, m < n  PROVE FALSE
    OBVIOUS
  <2>2. 0 .. m \in I /\ 0 .. m \subseteq x /\ n \in x /\ n \notin 0 .. m
    BY <1>6, <2>1
  <2>3. <<0 .. m, x>> \in StrictSubsetOrdering(U)
    BY <1>4, <2>2 DEF StrictSubsetOrdering
  <2>4. QED  BY <1>5, <2>2, <2>3
<1>8. QED  BY <1>7

\* A nonempty set of ways has a greatest one.
LEMMA MaxOfWays ==
    ASSUME NEW S \in SUBSET Way, S # {}
    PROVE  Max(S) \in S
<1>1. \A w \in S : w \in Nat /\ Ways - w \in Nat
  BY Geometry DEF Way
<1> DEFINE T == {Ways - w : w \in S}
<1>2. T \in SUBSET Nat /\ T # {}
  BY <1>1
<1>3. PICK n \in T : \A m \in T : n <= m
  BY <1>2, LeastOf
<1>4. PICK x \in S : n = Ways - x
  BY <1>3
<1>5. \A y \in S : x >= y
  <2> TAKE y \in S
  <2>1. n <= Ways - y
    BY <1>3
  <2>2. QED  BY <2>1, <1>1, <1>4, Geometry
<1>6. QED  BY <1>5 DEF Max

\* A set of lines has one that was used least recently.
LEMMA VictimInSet ==
    ASSUME NEW set \in [Way -> LineState]
    PROVE  /\ Victim(set) \in Way
           /\ set[Victim(set)].valid =>
                \A v \in Way : set[v].valid /\ set[Victim(set)].tsc <= set[v].tsc
<1>1. CASE \E w \in Way : ~ set[w].valid
  <2> DEFINE S == {w \in Way : ~ set[w].valid}
  <2>1. S \in SUBSET Way /\ S # {}
    BY <1>1
  <2>2. Max(S) \in S
    BY <2>1, MaxOfWays
  <2>3. QED  BY <1>1, <2>2 DEF Victim
<1>2. CASE ~ \E w \in Way : ~ set[w].valid
  <2> DEFINE T == {set[w].tsc : w \in Way}
  <2>1. \A w \in Way : set[w].tsc \in Nat
    BY DEF LineState
  <2>2. 0 \in Way
    BY Geometry DEF Way
  <2>3. T \in SUBSET Nat /\ T # {}
    BY <2>1, <2>2
  <2>4. PICK n \in T : \A m \in T : n <= m
    BY <2>3, LeastOf
  <2>5. PICK w \in Way : set[w].tsc = n
    BY <2>4
  <2>6. \A v \in Way : set[w].tsc <= set[v].tsc
    BY <2>4, <2>5
  <2>7. QED  BY <1>2, <2>5, <2>6 DEF Victim
<1>3. QED  BY <1>1, <1>2

-----------------------------------------------------------------------------
\* What a use does to a line, and what the line holds after a miss.
LEMMA NumbersType ==
    ASSUME Shape, NEW p \in Packets
    PROVE  Numbers(p) \in [Kind -> Nat] /\ Stored(p) \in [Kind -> Nat]
<1>1. Numbers(p) \in [Kind -> Nat]
  BY PacketPlace DEF Numbers, Kind, Shape
<1>2. \A k \in Kind : Numbers(p)[k] % NbrRange \in Nat
  BY <1>1, Geometry
<1>3. QED  BY <1>1, <1>2 DEF Stored

LEMMA UsedLine ==
    ASSUME Shape, NEW p \in Packets, NEW l \in LineState
    PROVE  /\ Used(l, p) \in LineState
           /\ Used(l, p).valid = l.valid /\ Used(l, p).addr = l.addr
           /\ Used(l, p).tsc = tick + 1
           /\ Used(l, p).dirty = (l.dirty \/ p.cmd = "WRITE")
           /\ Used(l, p).ctrs = [l.ctrs EXCEPT ![SubBlockOf(p)] = Incremented(@)]
           /\ Used(l, p).nbr = IF conf.limitStudy THEN l.nbr ELSE Stored(p)
<1>1. (IF conf.limitStudy THEN l.nbr ELSE Stored(p)) \in [Kind -> Nat]
  BY NumbersType DEF LineState
<1>2. l.ctrs \in [SubBlock -> Nat] /\ [l.ctrs EXCEPT ![SubBlockOf(p)] = Incremented(@)] \in [SubBlock -> Nat]
  BY PacketPlace, Geometry DEF LineState, Incremented
<1>3. tick + 1 \in Nat
  BY DEF Shape
<1>4. QED  BY <1>1, <1>2, <1>3 DEF Used, LineState

LEMMA InstalledLine ==
    ASSUME Shape, NEW p \in Packets, NEW l \in LineState
    PROVE  /\ Installed(l, p) \in LineState
           /\ Installed(l, p).valid /\ Installed(l, p).addr = Block(p)
           /\ Installed(l, p).tsc = tick + 1
           /\ Installed(l, p).dirty = (p.cmd = "WRITE")
           /\ Installed(l, p).nbr = Stored(p)
           /\ Installed(l, p).ctrs =
                [(IF l.valid THEN Untouched ELSE l.ctrs) EXCEPT ![SubBlockOf(p)] = Clamped(1)]
<1>1. [(IF l.valid THEN Untouched ELSE l.ctrs) EXCEPT ![SubBlockOf(p)] = Clamped(1)] \in [SubBlock -> Nat]
  <2>1. l.ctrs \in [SubBlock -> Nat] /\ Untouched \in [SubBlock -> Nat] /\ Clamped(1) \in Nat
    BY Geometry DEF LineState, Untouched, Clamped
  <2>2. QED  BY <2>1
<1>2. tick + 1 \in Nat /\ Block(p) \in Nat /\ (p.cmd = "WRITE") \in BOOLEAN
  BY PacketPlace DEF Shape
<1>3. QED  BY <1>1, <1>2, NumbersType DEF Installed, LineState

\* A packet's block moves into a line, or is in that line already.
LEMMA LineReplaced ==
    ASSUME Shape, Placed, NEW p \in Packets, NEW w \in Way, NEW n \in LineState,
           n.valid, n.addr = Block(p),
           \A v \in Way : Holds(lines[SetOf(Block(p))][v], Block(p)) => v = w,
           lines' = [lines EXCEPT ![SetOf(Block(p))][w] = n]
    PROVE  /\ lines' \in [Set -> [Way -> LineState]]
           /\ lines'[SetOf(Block(p))][w] = n
           /\ \A s \in Set, v \in Way :
                s # SetOf(Block(p)) \/ v # w => lines'[s][v] = lines[s][v]
           /\ Placed'
<1> DEFINE t == SetOf(Block(p))
<1>1. t \in Set
  BY PacketPlace
<1>2. lines' \in [Set -> [Way -> LineState]]
  BY <1>1 DEF Shape
<1>3. /\ lines'[t][w] = n
      /\ \A s \in Set, v \in Way : s # t \/ v # w => lines'[s][v] = lines[s][v]
  BY <1>1 DEF Shape
<1> HIDE DEF t
<1>4. ASSUME NEW s \in Set, NEW v \in Way, lines'[s][v].valid
      PROVE  lines'[s][v].addr \in Blocks /\ SetOf(lines'[s][v].addr) = s
  <2>1. CASE s = t /\ v = w
    BY <2>1, <1>3, PacketPlace DEF t
  <2>2. CASE ~ (s = t /\ v = w)
    BY <2>2, <1>3, <1>4 DEF Placed
  <2>3. QED  BY <2>1, <2>2
<1>5. ASSUME NEW s \in Set, NEW v \in Way, NEW u \in Way,
             lines'[s][v].valid, Holds(lines'[s][u], lines'[s][v].addr)
      PROVE  u = v
  <2>1. CASE s # t
    BY <2>1, <1>3, <1>5 DEF Placed
  <2>2. CASE s = t /\ v = w
    <3>1. u # w => Holds(lines[t][u], Block(p))
      BY <2>2, <1>3, <1>5
    <3>2. QED  BY <3>1, <2>2 DEF t
  <2>3. CASE s = t /\ v # w /\ u = w
    <3>1. lines[t][v].valid /\ lines[t][v].addr = Block(p)
      BY <2>3, <1>3, <1>5 DEF Holds
    <3>2. QED  BY <3>1, <2>3 DEF t, Holds
  <2>4. CASE s = t /\ v # w /\ u # w
    BY <2>4, <1>3, <1>5 DEF Placed
  <2>5. QED  BY <2>1, <2>2, <2>3, <2>4
<1>6. Placed'
  BY <1>4, <1>5 DEF Placed, Set, Way, Blocks, Holds, SetOf, Block
<1>7. QED  BY <1>2, <1>3, <1>6 DEF t

-----------------------------------------------------------------------------
\* The packets that reach the cache, one lemma for each way through process().
LEMMA HitKeeps ==
    ASSUME CacheInv, NEW p \in Packets, Hit(p), tick' = tick + 1, UNCHANGED replayVars
    PROVE  CacheInv'
<1> DEFINE b == Block(p)
           s == SetOf(b)
           i == SubBlockOf(p)
<1>1. /\ Shape /\ Placed /\ Counted /\ Pending
      /\ b \in Blocks /\ s \in Set /\ i \in SubBlock
  BY PacketPlace DEF CacheInv
<1>2. PICK w \in Hits(b) :
        /\ lines' = [lines EXCEPT ![s][w] = Used(lines[s][w], p)]
        /\ RecordUse(p, touches[b])
        /\ unwritten' = IF p.cmd = "WRITE" THEN unwritten \cup {b} ELSE unwritten
  BY DEF Hit
<1> DEFINE l == lines[s][w]
           n == Used(l, p)
<1>3. w \in Way /\ l \in LineState /\ l.valid /\ l.addr = b
  BY <1>1, <1>2 DEF Hits, Holds, Shape
<1>4. /\ n \in LineState /\ n.valid /\ n.addr = b
      /\ n.dirty = (l.dirty \/ p.cmd = "WRITE")
      /\ n.ctrs = [l.ctrs EXCEPT ![i] = Incremented(@)]
  BY <1>1, <1>3, UsedLine
<1>5. \A v \in Way : Holds(lines[s][v], b) => v = w
  BY <1>1, <1>3 DEF Placed
<1>6. /\ lines' \in [Set -> [Way -> LineState]]
      /\ lines'[s][w] = n
      /\ \A t \in Set, v \in Way : t # s \/ v # w => lines'[t][v] = lines[t][v]
      /\ Placed'
  <2> HIDE DEF n
  <2>1. lines' = [lines EXCEPT ![s][w] = n]
    BY <1>2 DEF n
  <2>2. QED  BY <1>1, <1>3, <1>4, <1>5, <2>1, LineReplaced
<1>7. touches' = [touches EXCEPT ![b][i] = @ + 1]
  BY <1>2, <1>1 DEF RecordUse, Shape
<1> HIDE DEF b, s, i, l, n
<1>8. touches' \in [Blocks -> [SubBlock -> Nat]] /\ unwritten' \subseteq Blocks
  BY <1>1, <1>2, <1>7 DEF Shape, b
<1>9. Shape'
  BY <1>1, <1>6, <1>8 DEF Shape, replayVars, Blocks, Set, LineState, Block, SubBlock, Way, Kind
<1>10. Counted'
  <2>1. SUFFICES ASSUME NEW t \in Set, NEW v \in Way, NEW j \in SubBlock
                 PROVE  lines'[t][v].ctrs[j] =
                          IF lines'[t][v].valid THEN Clamped(touches'[lines'[t][v].addr][j]) ELSE 0
    BY DEF Counted, Set, Way, SubBlock, Clamped
  <2>2. CASE t = s /\ v = w
    <3>1. l.ctrs \in [SubBlock -> Nat] /\ touches[b] \in [SubBlock -> Nat]
      BY <1>1, <1>3 DEF LineState, Shape
    <3>2. l.ctrs[j] = Clamped(touches[b][j])
      BY <1>1, <1>3, <2>2 DEF Counted, l
    <3>3. n.ctrs[j] = IF j = i THEN Incremented(l.ctrs[j]) ELSE l.ctrs[j]
      BY <1>4, <3>1, <1>1
    <3>4. touches'[b][j] = IF j = i THEN touches[b][j] + 1 ELSE touches[b][j]
      BY <1>7, <1>1, <3>1 DEF Shape
    <3>5. touches[b][j] \in Nat
      BY <3>1
    <3>6. Incremented(Clamped(touches[b][j])) = Clamped(touches[b][j] + 1)
      BY <3>5, Geometry DEF Incremented, Clamped
    <3>7. QED  BY <1>4, <1>6, <2>2, <3>2, <3>3, <3>4, <3>6
  <2>3. CASE ~ (t = s /\ v = w)
    <3>1. lines'[t][v] = lines[t][v]
      BY <1>6, <2>3
    <3>2. lines[t][v].valid => lines[t][v].addr \in Blocks /\ lines[t][v].addr # b
      BY <1>1, <1>5, <2>3 DEF Placed, Holds, s
    <3>3. lines[t][v].valid => touches'[lines[t][v].addr] = touches[lines[t][v].addr]
      BY <1>1, <1>7, <3>2 DEF Shape
    <3>4. QED  BY <1>1, <3>1, <3>3 DEF Counted
  <2>4. QED  BY <2>2, <2>3
<1>11. Pending'
  <2>1. SUFFICES ASSUME conf.bypassed = {}, conf.filters = {}, NEW c \in Blocks
                 PROVE  c \in unwritten' <=> DirtyIn(lines', c)
    BY DEF Pending, replayVars, Blocks, Block, DirtyIn, Way, SetOf, Holds
  <2>2. c \in unwritten <=> DirtyIn(lines, c)
    BY <1>1, <2>1 DEF Pending
  <2>3. CASE c = b
    <3>1. DirtyIn(lines, b) <=> l.dirty
      BY <1>3, <1>5 DEF DirtyIn, Holds, s, l
    <3>2. \A v \in Way : Holds(lines'[s][v], b) => v = w
      BY <1>1, <1>5, <1>6
    <3>3. DirtyIn(lines', b) <=> n.dirty
      BY <1>3, <1>4, <1>6, <3>2 DEF DirtyIn, Holds, s
    <3>4. QED  BY <1>2, <1>4, <2>2, <2>3, <3>1, <3>3 DEF b
  <2>4. CASE c # b
    <3>1. SetOf(c) \in Set => (DirtyIn(lines', c) <=> DirtyIn(lines, c))
      BY <1>3, <1>4, <1>6, <2>4 DEF DirtyIn, Holds, l
    <3>2. SetOf(c) \in Set
      BY PacketPlace DEF Blocks
    <3>3. QED  BY <1>2, <2>2, <2>4, <3>1, <3>2 DEF b
  <2>5. QED  BY <2>3, <2>4
<1>12. QED  BY <1>6, <1>9, <1>10, <1>11 DEF CacheInv

\* No line changes, and no model that loses no write goes this way.
LEMMA PassedKeeps ==
    ASSUME CacheInv, NEW p \in Packets, tick' = tick + 1, UNCHANGED replayVars,
           UNCHANGED <<lines, touches>>,
           unwritten' = IF p.cmd = "WRITE" THEN unwritten \cup {Block(p)} ELSE unwritten,
           ~ (conf.bypassed = {} /\ conf.filters = {})
    PROVE  CacheInv'
<1>1. Shape'
  <2>1. Shape /\ Block(p) \in Blocks
    BY PacketPlace DEF CacheInv
  <2>2. tick' \in Nat /\ unwritten' \subseteq Blocks
    BY <2>1 DEF Shape
  <2>3. conf' = conf /\ frame' = frame /\ scene' = scene
    BY DEF replayVars
  <2>4. QED
    BY <2>1, <2>2, <2>3 DEF Shape, Blocks, Set, LineState, Block, SubBlock, Way, Kind
<1>2. Placed'
  BY DEF CacheInv, Placed, Holds, SetOf, Block, Blocks, Set, Way
<1>3. Counted'
  BY DEF CacheInv, Counted, Clamped, Set, Way, SubBlock
<1>4. Pending'
  BY DEF Pending, replayVars
<1>5. QED  BY <1>1, <1>2, <1>3, <1>4 DEF CacheInv

LEMMA InstallKeeps ==
    ASSUME CacheInv, NEW p \in Packets, Hits(Block(p)) = {}, Install(p),
           tick' = tick + 1, UNCHANGED replayVars
    PROVE  CacheInv'
<1> DEFINE b == Block(p)
           s == SetOf(b)
           i == SubBlockOf(p)
           w == Victim(lines[s])
           l == lines[s][w]
           n == Installed(l, p)
<1>1. /\ Shape /\ Placed /\ Counted /\ Pending
      /\ b \in Blocks /\ s \in Set /\ i \in SubBlock
  BY PacketPlace DEF CacheInv
<1>2. /\ lines' = [lines EXCEPT ![s][w] = n]
      /\ RecordUse(p, Untouched)
      /\ unwritten' = (unwritten \ (IF l.valid /\ l.dirty THEN {l.addr} ELSE {}))
                        \cup (IF p.cmd = "WRITE" THEN {b} ELSE {})
  BY DEF Install
<1>3. w \in Way /\ l \in LineState
  <2>1. lines[s] \in [Way -> LineState]
    BY <1>1 DEF Shape
  <2>2. w \in Way
    <3> HIDE DEF s
    <3>1. QED  BY <2>1, VictimInSet
  <2>3. QED  BY <2>1, <2>2
<1>4. /\ n \in LineState /\ n.valid /\ n.addr = b
      /\ n.dirty = (p.cmd = "WRITE")
      /\ n.ctrs = [(IF l.valid THEN Untouched ELSE l.ctrs) EXCEPT ![i] = Clamped(1)]
  BY <1>1, <1>3, InstalledLine
<1>5. \A v \in Way : ~ Holds(lines[s][v], b)
  BY DEF Hits
<1>6. /\ lines' \in [Set -> [Way -> LineState]]
      /\ lines'[s][w] = n
      /\ \A t \in Set, v \in Way : t # s \/ v # w => lines'[t][v] = lines[t][v]
      /\ Placed'
  <2> HIDE DEF n, w
  <2>1. QED  BY <1>1, <1>2, <1>3, <1>4, <1>5, LineReplaced
<1>7. touches' = [touches EXCEPT ![b] = [Untouched EXCEPT ![i] = 1]]
  <2>1. [Untouched EXCEPT ![i] = @ + 1] = [Untouched EXCEPT ![i] = 1]
    BY <1>1 DEF Untouched
  <2>2. touches' = [touches EXCEPT ![b] = [Untouched EXCEPT ![i] = @ + 1]]
    BY <1>2 DEF RecordUse
  <2>3. QED  BY <2>1, <2>2
<1> HIDE DEF b, s, i, w, l, n
<1>8. touches' \in [Blocks -> [SubBlock -> Nat]] /\ unwritten' \subseteq Blocks
  <2>1. [Untouched EXCEPT ![i] = 1] \in [SubBlock -> Nat]
    BY DEF Untouched
  <2>2. QED  BY <1>1, <1>2, <1>7, <2>1 DEF Shape
<1>9. Shape'
  BY <1>1, <1>6, <1>8 DEF Shape, replayVars, Blocks, Set, LineState, Block, SubBlock, Way, Kind
<1>10. Counted'
  <2>1. SUFFICES ASSUME NEW t \in Set, NEW v \in Way, NEW j \in SubBlock
                 PROVE  lines'[t][v].ctrs[j] =
                          IF lines'[t][v].valid THEN Clamped(touches'[lines'[t][v].addr][j]) ELSE 0
    BY DEF Counted, Set, Way, SubBlock, Clamped
  <2>2. CASE t = s /\ v = w
    <3>1. l.ctrs \in [SubBlock -> Nat] /\ Untouched \in [SubBlock -> Nat]
      BY <1>3 DEF LineState, Untouched
    <3>2. ~ l.valid => l.ctrs[j] = 0
      BY <1>1, <1>3, <2>2 DEF Counted, l
    <3>3. n.ctrs[j] = IF j = i THEN Clamped(1) ELSE 0
      BY <1>4, <3>1, <3>2 DEF Untouched
    <3>4. touches'[b][j] = IF j = i THEN 1 ELSE 0
      BY <1>1, <1>7 DEF Shape, Untouched
    <3>5. Clamped(0) = 0
      BY Geometry DEF Clamped
    <3>6. QED  BY <1>4, <1>6, <2>2, <3>3, <3>4, <3>5
  <2>3. CASE ~ (t = s /\ v = w)
    <3>1. lines'[t][v] = lines[t][v]
      BY <1>6, <2>3
    <3>2. lines[t][v].valid => lines[t][v].addr \in Blocks /\ lines[t][v].addr # b
      BY <1>1, <1>5, <2>3 DEF Placed, Holds, s
    <3>3. lines[t][v].valid => touches'[lines[t][v].addr] = touches[lines[t][v].addr]
      BY <1>1, <1>7, <3>2 DEF Shape
    <3>4. QED  BY <1>1, <3>1, <3>3 DEF Counted
  <2>4. QED  BY <2>2, <2>3
<1>11. Pending'
  <2>1. SUFFICES ASSUME conf.bypassed = {}, conf.filters = {}, NEW c \in Blocks
                 PROVE  c \in unwritten' <=> DirtyIn(lines', c)
    BY DEF Pending, replayVars, Blocks, Block, DirtyIn, Way, SetOf, Holds
  <2>2. c \in unwritten <=> DirtyIn(lines, c)
    BY <1>1, <2>1 DEF Pending
  <2>3. SetOf(c) \in Set
    BY PacketPlace DEF Blocks
  <2>4. CASE c = b
    <3>1. ~ DirtyIn(lines, b)
      BY <1>5 DEF DirtyIn, s
    <3>2. \A v \in Way : Holds(lines'[s][v], b) => v = w
      BY <1>1, <1>5, <1>6
    <3>3. DirtyIn(lines', b) <=> n.dirty
      BY <1>3, <1>4, <1>6, <3>2 DEF DirtyIn, Holds, s
    <3>4. QED  BY <1>2, <1>4, <2>2, <2>4, <3>1, <3>3
  <2>5. CASE c # b /\ Holds(l, c)
    <3>1. \A v \in Way : Holds(lines[s][v], c) => v = w
      BY <1>1, <1>3, <2>5 DEF Placed, Holds, l
    <3>2. s = SetOf(c)
      BY <1>1, <1>3, <2>5 DEF Placed, Holds, l
    <3>3. DirtyIn(lines, c) => l.dirty
      BY <3>1, <3>2 DEF DirtyIn, l
    <3>4. ~ DirtyIn(lines', c)
      BY <1>1, <1>4, <1>6, <2>5, <3>1, <3>2 DEF DirtyIn, Holds
    <3>5. QED  BY <1>2, <2>2, <2>5, <3>3, <3>4 DEF Holds
  <2>6. CASE c # b /\ ~ Holds(l, c)
    <3>1. DirtyIn(lines', c) <=> DirtyIn(lines, c)
      BY <1>3, <1>4, <1>6, <2>3, <2>6 DEF DirtyIn, Holds, l
    <3>2. QED  BY <1>2, <2>2, <2>6, <3>1 DEF Holds
  <2>7. QED  BY <2>4, <2>5, <2>6
<1>12. QED  BY <1>6, <1>9, <1>10, <1>11 DEF CacheInv

-----------------------------------------------------------------------------
LEMMA CacheInvHolds == Spec => []CacheInv
<1>1. Init => CacheInv
  <2> SUFFICES ASSUME Init  PROVE CacheInv
    OBVIOUS
  <2>1. Invalid \in LineState /\ Untouched \in [SubBlock -> Nat]
    <3>1. NoIntra \in [Kind -> Nat] /\ Untouched \in [SubBlock -> Nat]
      BY DEF NoIntra, Untouched
    <3>2. QED  BY <3>1 DEF Invalid, LineState
  <2>2. \A s \in Set, w \in Way : lines[s][w] = Invalid
    BY DEF Init, Set
  <2>3. Shape
    BY <2>1 DEF Init, Shape, Set
  <2>4. ~ Invalid.valid /\ \A i \in SubBlock : Invalid.ctrs[i] = 0
    BY DEF Invalid, Untouched
  <2>5. Placed /\ Counted
    BY <2>2, <2>4 DEF Placed, Counted
  <2>6. Pending
    <3>1. \A b \in Blocks : SetOf(b) \in Set
      BY PacketPlace DEF Blocks
    <3>2. unwritten = {}
      BY DEF Init
    <3>3. QED  BY <2>2, <2>4, <3>1, <3>2 DEF Pending, DirtyIn, Holds
  <2>7. QED  BY <2>3, <2>5, <2>6 DEF CacheInv
<1>2. CacheInv /\ [Next]_vars => CacheInv'
  <2> SUFFICES ASSUME CacheInv, [Next]_vars  PROVE CacheInv'
    OBVIOUS
  <2>1. ASSUME NEW p \in Packets, Process(p)  PROVE CacheInv'
    <3>1. tick' = tick + 1 /\ UNCHANGED replayVars
      BY <2>1 DEF Process
    <3>2. CASE Hit(p)
      BY <3>1, <3>2, HitKeeps
    <3>3. CASE FilteredHit(p)
      <4>1. conf.filters # {}
        BY <3>3 DEF FilteredHit, FilterHit, Watched
      <4>2. QED  BY <3>1, <3>3, <4>1, PassedKeeps DEF FilteredHit
    <3>4. CASE Miss(p) /\ Bypass(p)
      <4>1. conf.bypassed # {}
        BY <3>4 DEF Bypass
      <4>2. QED  BY <3>1, <3>4, <4>1, PassedKeeps DEF Bypass
    <3>5. CASE Miss(p) /\ Install(p)
      BY <3>1, <3>5, InstallKeeps DEF Miss
    <3>6. QED  BY <2>1, <3>2, <3>3, <3>4, <3>5 DEF Process, Miss
  <2>2. ASSUME conf' = conf, UNCHANGED cacheVars, frame' \in Nat, scene' \in Nat  PROVE CacheInv'
    <3>1. Shape'
      BY <2>2 DEF CacheInv, Shape, cacheVars, Blocks, Set, LineState, Block, SubBlock, Way, Kind
    <3>2. Placed'
      BY <2>2 DEF CacheInv, cacheVars, Placed, Holds, SetOf, Block, Blocks, Set, Way
    <3>3. Counted'
      BY <2>2 DEF CacheInv, cacheVars, Counted, Clamped, Set, Way, SubBlock
    <3>4. Pending'
      BY <2>2 DEF CacheInv, cacheVars, Pending, DirtyIn, Holds, SetOf, Block, Blocks, Way
    <3>5. QED  BY <3>1, <3>2, <3>3, <3>4 DEF CacheInv
  <2>3. frame \in Nat /\ scene \in Nat
    BY DEF CacheInv, Shape
  <2>4. CASE StartNewFrame \/ StartNewScene \/ Abort
    BY <2>2, <2>3, <2>4 DEF StartNewFrame, StartNewScene, Abort, MaskNotUsedUp, UnknownResource
  <2>5. CASE EndScene
    BY <2>2, <2>3, <2>5 DEF EndScene
  <2>6. CASE EndFrame
    BY <2>2, <2>3, <2>6 DEF EndFrame
  <2>7. CASE UNCHANGED vars
    BY <2>2, <2>3, <2>7 DEF vars, replayVars
  <2>8. QED  BY <2>1, <2>4, <2>5, <2>6, <2>7 DEF Next
<1>3. QED  BY <1>1, <1>2, PTL DEF Spec

LEMMA MinOfTwo ==
    ASSUME NEW m \in Nat, NEW n \in Nat
    PROVE  Min({m, n}) = IF m <= n THEN m ELSE n
<1> DEFINE least == IF m <= n THEN m ELSE n
<1>1. least \in {m, n} /\ \A y \in {m, n} : least <= y
  OBVIOUS
<1>2. \A x \in {m, n} : (\A y \in {m, n} : x <= y) => x = least
  OBVIOUS
<1>3. QED  BY <1>1, <1>2 DEF Min

\* The counters of a line count the uses of the block it holds, none of a block it
\* held before, up to where they saturate (base_cache.cc:206, 258).
THEOREM CountersNeverLag == Spec => []CountersFollowBlock
<1>1. CacheInv => CountersFollowBlock
  <2> SUFFICES ASSUME CacheInv, NEW s \in DOMAIN lines, NEW w \in Way, lines[s][w].valid,
                      NEW i \in SubBlock
               PROVE  lines[s][w].ctrs[i] = Min({touches[lines[s][w].addr][i], CtrMax})
    BY DEF CountersFollowBlock, Line
  <2>1. s \in Set /\ lines[s][w].addr \in Blocks
    BY DEF CacheInv, Shape, Placed
  <2>2. lines[s][w].ctrs[i] = Clamped(touches[lines[s][w].addr][i])
    BY <2>1 DEF CacheInv, Counted
  <2>3. touches[lines[s][w].addr][i] \in Nat
    BY <2>1 DEF CacheInv, Shape
  <2>4. \A n \in Nat : Clamped(n) = Min({n, CtrMax})
    BY MinOfTwo, Geometry DEF Clamped
  <2>5. QED  BY <2>2, <2>3, <2>4
<1>2. QED  BY <1>1, CacheInvHolds, PTL

\* A model that neither bypasses nor filters loses no write: the blocks with a write
\* that was not sent on are the dirty ones it holds (base_cache.cc:99, 217).
THEOREM NoWriteIsLost == Spec => []WritesReachMemory
<1>1. CacheInv => WritesReachMemory
  <2> SUFFICES ASSUME CacheInv, conf.bypassed = {}, conf.filters = {}
               PROVE  unwritten = {l.addr : l \in {k \in Line : k.valid /\ k.dirty}}
    BY DEF WritesReachMemory
  <2>1. \A b \in Blocks : SetOf(b) \in Set
    BY PacketPlace DEF Blocks
  <2>2. DOMAIN lines = Set /\ unwritten \subseteq Blocks
    BY DEF CacheInv, Shape
  <2>3. \A b \in Blocks : b \in unwritten <=> DirtyIn(lines, b)
    BY DEF CacheInv, Pending
  <2>4. ASSUME NEW b \in unwritten
        PROVE  b \in {l.addr : l \in {k \in Line : k.valid /\ k.dirty}}
    <3>1. PICK w \in Way : Holds(lines[SetOf(b)][w], b) /\ lines[SetOf(b)][w].dirty
      BY <2>2, <2>3 DEF DirtyIn
    <3>2. lines[SetOf(b)][w] \in Line
      BY <2>1, <2>2 DEF Line
    <3>3. QED  BY <3>1, <3>2 DEF Holds
  <2>5. ASSUME NEW l \in Line, l.valid, l.dirty
        PROVE  l.addr \in unwritten
    <3>1. PICK s \in Set, w \in Way : l = lines[s][w]
      BY <2>2 DEF Line
    <3>2. l.addr \in Blocks /\ SetOf(l.addr) = s
      BY <2>5, <3>1 DEF CacheInv, Placed
    <3>3. QED  BY <2>3, <2>5, <3>1, <3>2 DEF DirtyIn, Holds
  <2>6. QED  BY <2>4, <2>5
<1>2. QED  BY <1>1, CacheInvHolds, PTL

-----------------------------------------------------------------------------
\* A shared block that missed in this frame is remembered until the frame ends.
Shared(b) == [filter |-> "inter", job |-> 0, block |-> b]
SharedInv ==
    /\ mask \in [{"inter", "intra"} -> Masks \cup {{}}]
    /\ refetched \in [Blocks -> Nat]
    /\ "inter" \in conf.filters =>
        \A b \in mask["inter"] \cap Blocks :
            refetched[b] <= 1 /\ (refetched[b] = 1 => Shared(b) \in seen)

\* Whatever the scenes of a frame share is read from memory once in the frame, in
\* the limit study with the inter mask (ls_cache.cc:207).
THEOREM SharedBlocksMissNoMore == Spec => []SharedBlocksMissOnce
<1>1. Init => SharedInv
  BY DEF Init, SharedInv
<1>2. SharedInv /\ [Next]_vars => SharedInv'
  <2> SUFFICES ASSUME SharedInv, [Next]_vars  PROVE SharedInv'
    OBVIOUS
  <2>1. ASSUME NEW p \in Packets, Process(p)  PROVE SharedInv'
    <3>1. conf' = conf /\ mask' = mask /\ seen \subseteq seen'
      BY <2>1 DEF Process, Remember, replayVars
    <3>2. CASE Hit(p) \/ FilteredHit(p)
      BY <3>1, <3>2 DEF SharedInv, Hit, FilteredHit, Shared, Blocks, Block
    <3>3. CASE Miss(p)
      <4>1. refetched' = [refetched EXCEPT ![Block(p)] = @ + 1] /\ ~ FilterHit(p)
        BY <3>3 DEF Miss
      <4>2. refetched' \in [Blocks -> Nat]
        <5>1. refetched \in [Blocks -> Nat]
          BY DEF SharedInv
        <5>2. QED  BY <4>1, <5>1, PacketPlace
      <4>3. ASSUME "inter" \in conf.filters, NEW b \in mask["inter"] \cap Blocks
            PROVE  refetched'[b] <= 1 /\ (refetched'[b] = 1 => Shared(b) \in seen')
        <5>1. CASE b # Block(p)
          BY <3>1, <4>1, <4>3, <5>1 DEF SharedInv
        <5>2. CASE b = Block(p)
          <6>1. Watched("inter", p) /\ Key("inter", p) = Shared(b) /\ "inter" \in Filter
            BY <4>3, <5>2 DEF Watched, Key, Shared, Filter
          <6>2. Shared(b) \notin seen
            BY <4>1, <6>1 DEF FilterHit
          <6>3. refetched[b] = 0
            BY <4>3, <6>2 DEF SharedInv
          <6>4. Shared(b) \in seen'
            BY <2>1, <6>1 DEF Process, Remember
          <6>5. refetched'[b] = 1
            BY <4>1, <5>2, <6>3, PacketPlace DEF SharedInv
          <6>6. QED  BY <6>4, <6>5
        <5>3. QED  BY <5>1, <5>2
      <4>4. QED  BY <3>1, <4>2, <4>3 DEF SharedInv, Shared, Blocks, Block
    <3>4. QED  BY <2>1, <3>2, <3>3 DEF Process
  <2>2. CASE StartNewFrame
    <3>1. conf' = conf /\ refetched' = [b \in Blocks |-> 0]
      BY <2>2 DEF StartNewFrame
    <3>2. mask' \in [{"inter", "intra"} -> Masks \cup {{}}]
      <4>1. mask' = mask \/ \E m \in Masks \cup {{}} : Reload("inter", m)
        BY <2>2 DEF StartNewFrame, LoadInter, filterVars
      <4>2. QED  BY <4>1 DEF Reload, SharedInv
    <3>3. QED  BY <3>1, <3>2 DEF SharedInv, Blocks, Block
  <2>3. CASE StartNewScene
    <3>1. conf' = conf /\ refetched' = refetched /\ mask'["inter"] = mask["inter"]
      BY <2>3 DEF StartNewScene, Reload, SharedInv
    <3>2. mask' \in [{"inter", "intra"} -> Masks \cup {{}}]
      BY <2>3 DEF StartNewScene, Reload, SharedInv
    <3>3. \A b \in Blocks : Shared(b) \in seen => Shared(b) \in seen'
      BY <2>3 DEF StartNewScene, Forget, Shared
    <3>4. QED  BY <3>1, <3>2, <3>3 DEF SharedInv, Shared, Blocks, Block
  <2>4. CASE Abort \/ EndScene \/ EndFrame \/ UNCHANGED vars
    <3>1. conf' = conf /\ mask' = mask /\ seen' = seen /\ refetched' = refetched
      BY <2>4 DEF Abort, MaskNotUsedUp, UnknownResource, EndScene, EndFrame, vars, replayVars, filterVars
    <3>2. QED  BY <3>1 DEF SharedInv, Shared, Blocks, Block
  <2>5. QED  BY <2>1, <2>2, <2>3, <2>4 DEF Next
<1>3. SharedInv => SharedBlocksMissOnce
  BY DEF SharedInv, SharedBlocksMissOnce
<1>4. QED  BY <1>1, <1>2, <1>3, PTL DEF Spec

-----------------------------------------------------------------------------
\* What the packets that use the cache have in common: one line gets the packet's
\* block, its numbers and a new timestamp, the line that held it or the victim.
UsesLine(p, w) ==
    LET s == SetOf(Block(p))
    IN /\ lines'[s][w].valid /\ lines'[s][w].addr = Block(p) /\ lines'[s][w].tsc = tick + 1
       /\ ~ conf.limitStudy => lines'[s][w].nbr = Stored(p)
       /\ \A t \in Set, v \in Way : t # s \/ v # w => lines'[t][v] = lines[t][v]
       /\ \A v \in Way : Holds(lines[s][v], Block(p)) => v = w
       /\ \/ Holds(lines[s][w], Block(p))
          \/ lines[s][w].valid =>
                \A v \in Way : lines[s][v].valid /\ lines[s][w].tsc <= lines[s][v].tsc
       /\ last' = [last EXCEPT ![Block(p)] = [tick |-> tick + 1, nbr |-> Numbers(p)]]

LEMMA HitUses ==
    ASSUME Shape, Placed, NEW p \in Packets, Hit(p)
    PROVE  \E w \in Way : UsesLine(p, w)
<1> DEFINE b == Block(p)
           s == SetOf(b)
<1>1. Shape /\ Placed /\ b \in Blocks /\ s \in Set
  BY PacketPlace
<1>2. PICK w \in Hits(b) :
        /\ lines' = [lines EXCEPT ![s][w] = Used(lines[s][w], p)]
        /\ RecordUse(p, touches[b])
  BY DEF Hit
<1> DEFINE l == lines[s][w]
           n == Used(l, p)
<1>3. w \in Way /\ l \in LineState /\ Holds(l, b) /\ l.valid /\ l.addr = b
  BY <1>1, <1>2 DEF Hits, Holds, Shape
<1>4. /\ n \in LineState /\ n.valid /\ n.addr = b /\ n.tsc = tick + 1
      /\ ~ conf.limitStudy => n.nbr = Stored(p)
  <2>1. Shape /\ l \in LineState /\ l.valid /\ l.addr = b
    BY <1>1, <1>3
  <2> HIDE DEF l
  <2>2. QED  BY <2>1, UsedLine
<1>5. \A v \in Way : Holds(lines[s][v], b) => v = w
  BY <1>1, <1>3 DEF Placed
<1>6. lines'[s][w] = n /\ \A t \in Set, v \in Way : t # s \/ v # w => lines'[t][v] = lines[t][v]
  <2> HIDE DEF n
  <2>1. lines' = [lines EXCEPT ![s][w] = n]
    BY <1>2 DEF n
  <2>2. /\ lines' \in [Set -> [Way -> LineState]]
        /\ lines'[s][w] = n
        /\ \A t \in Set, v \in Way : t # s \/ v # w => lines'[t][v] = lines[t][v]
        /\ Placed'
    BY <1>1, <1>3, <1>4, <1>5, <2>1, LineReplaced
  <2>3. QED  BY <2>2
<1>7. last' = [last EXCEPT ![b] = [tick |-> tick + 1, nbr |-> Numbers(p)]]
  BY <1>2 DEF RecordUse
<1> HIDE DEF n
<1>8. UsesLine(p, w)
  BY <1>3, <1>4, <1>5, <1>6, <1>7 DEF UsesLine
<1>9. QED  BY <1>3, <1>8

LEMMA InstallUses ==
    ASSUME Shape, Placed, NEW p \in Packets, Hits(Block(p)) = {}, Install(p)
    PROVE  \E w \in Way : UsesLine(p, w)
<1> DEFINE b == Block(p)
           s == SetOf(b)
           w == Victim(lines[s])
           l == lines[s][w]
           n == Installed(l, p)
<1>1. Shape /\ Placed /\ b \in Blocks /\ s \in Set
  BY PacketPlace
<1>2. lines' = [lines EXCEPT ![s][w] = n] /\ RecordUse(p, Untouched)
  BY DEF Install
<1>3. /\ w \in Way /\ l \in LineState
      /\ l.valid => \A v \in Way : lines[s][v].valid /\ l.tsc <= lines[s][v].tsc
  <2>1. lines[s] \in [Way -> LineState]
    BY <1>1 DEF Shape
  <2>2. /\ w \in Way
        /\ l.valid => \A v \in Way : lines[s][v].valid /\ l.tsc <= lines[s][v].tsc
    <3> HIDE DEF s
    <3>1. QED  BY <2>1, VictimInSet
  <2>3. QED  BY <2>1, <2>2
<1>4. n \in LineState /\ n.valid /\ n.addr = b /\ n.tsc = tick + 1 /\ n.nbr = Stored(p)
  <2>1. Shape /\ l \in LineState
    BY <1>1, <1>3
  <2> HIDE DEF l
  <2>2. QED  BY <2>1, InstalledLine
<1>5. \A v \in Way : ~ Holds(lines[s][v], b)
  BY DEF Hits
<1>6. lines'[s][w] = n /\ \A t \in Set, v \in Way : t # s \/ v # w => lines'[t][v] = lines[t][v]
  <2>1. n \in LineState /\ n.valid /\ n.addr = b
    BY <1>4
  <2> HIDE DEF n, w
  <2>2. QED  BY <1>1, <1>2, <1>3, <1>5, <2>1, LineReplaced
<1>7. last' = [last EXCEPT ![b] = [tick |-> tick + 1, nbr |-> Numbers(p)]]
  BY <1>2 DEF RecordUse
<1> HIDE DEF n, w
<1>8. UsesLine(p, w)
  BY <1>3, <1>4, <1>5, <1>6, <1>7 DEF UsesLine
<1>9. QED  BY <1>3, <1>8

\* Timestamps tell when blocks were used, no two were used at once, and a block
\* that was used and is not in its set is older than everything there.
UsedBlocks == {b \in Blocks : last[b].tick > 0}
LruInv ==
    /\ last \in [Blocks -> [tick : Nat, nbr : [Kind -> Nat]]]
    /\ \A b \in Blocks : last[b].tick <= tick
    /\ \A s \in Set, w \in Way : LET l == lines[s][w]
                                 IN l.valid => l.tsc = last[l.addr].tick /\ l.tsc > 0
    /\ \A b, c \in Blocks : last[b].tick = last[c].tick /\ last[b].tick > 0 => b = c
    /\ \A b \in UsedBlocks, w \in Way :
        \/ \E v \in Way : Holds(lines[SetOf(b)][v], b)
        \/ lines[SetOf(b)][w].valid /\ lines[SetOf(b)][w].tsc > last[b].tick
    /\ IsFiniteSet(UsedBlocks)

LEMMA UseKeepsLru ==
    ASSUME CacheInv, CacheInv', LruInv, NEW p \in Packets, NEW w \in Way, UsesLine(p, w),
           tick' = tick + 1
    PROVE  LruInv'
<1> DEFINE b == Block(p)
           s == SetOf(b)
<1>1. b \in Blocks /\ s \in Set /\ tick \in Nat
  BY PacketPlace DEF CacheInv, Shape
<1>2. \A c \in Blocks : SetOf(c) \in Set
  BY PacketPlace DEF Blocks
<1> HIDE DEF b
<1>3. /\ last' \in [Blocks -> [tick : Nat, nbr : [Kind -> Nat]]]
      /\ \A c \in Blocks : last'[c].tick = IF c = b THEN tick + 1 ELSE last[c].tick
  <2>1. last' = [last EXCEPT ![b] = [tick |-> tick + 1, nbr |-> Numbers(p)]]
    BY DEF UsesLine, b
  <2>2. Numbers(p) \in [Kind -> Nat]
    BY NumbersType DEF CacheInv
  <2>3. QED  BY <1>1, <2>1, <2>2 DEF LruInv
<1>4. \A c \in Blocks : last[c].tick \in Nat /\ last[c].tick <= tick
  BY DEF LruInv
<1>5. \A c \in Blocks : last'[c].tick <= tick'
  BY <1>1, <1>3, <1>4
<1>6. /\ lines'[s][w].valid /\ lines'[s][w].addr = b /\ lines'[s][w].tsc = tick + 1
      /\ \A t \in Set, v \in Way : t # s \/ v # w => lines'[t][v] = lines[t][v]
      /\ \A v \in Way : Holds(lines[s][v], b) => v = w
  BY DEF UsesLine, b
<1>7. ASSUME NEW t \in Set, NEW v \in Way, lines'[t][v].valid
      PROVE  lines'[t][v].tsc = last'[lines'[t][v].addr].tick /\ lines'[t][v].tsc > 0
  <2>1. CASE t = s /\ v = w
    BY <1>1, <1>3, <1>6, <2>1
  <2>2. CASE ~ (t = s /\ v = w)
    <3>1. lines'[t][v] = lines[t][v] /\ lines[t][v].valid
      BY <1>6, <1>7, <2>2
    <3>2. lines[t][v].addr \in Blocks /\ SetOf(lines[t][v].addr) = t
      BY <3>1 DEF CacheInv, Placed
    <3>3. lines[t][v].addr # b
      BY <1>6, <2>2, <3>1, <3>2 DEF Holds
    <3>4. QED  BY <1>3, <3>1, <3>2, <3>3 DEF LruInv
  <2>3. QED  BY <2>1, <2>2
<1>8. ASSUME NEW c \in Blocks, NEW d \in Blocks, last'[c].tick = last'[d].tick, last'[c].tick > 0
      PROVE  c = d
  BY <1>1, <1>3, <1>4, <1>8 DEF LruInv
<1>9. ASSUME NEW c \in Blocks, last'[c].tick > 0, NEW u \in Way,
             \A v \in Way : ~ Holds(lines'[SetOf(c)][v], c)
      PROVE  lines'[SetOf(c)][u].valid /\ lines'[SetOf(c)][u].tsc > last'[c].tick
  <2>1. c # b
    BY <1>6, <1>9 DEF Holds
  <2>2. last'[c].tick = last[c].tick /\ c \in UsedBlocks
    BY <1>3, <1>9, <2>1 DEF UsedBlocks
  <2>3. CASE SetOf(c) # s
    BY <1>2, <1>6, <1>9, <2>2, <2>3 DEF LruInv
  <2>4. CASE SetOf(c) = s /\ u = w
    BY <1>1, <1>4, <1>6, <2>2, <2>4
  <2>5. CASE SetOf(c) = s /\ u # w /\ Holds(lines[s][w], c)
    <3>1. lines[s][w].valid /\ lines[s][w].addr = c /\ ~ Holds(lines[s][w], b)
      BY <2>1, <2>5 DEF Holds
    <3>2. lines[s][u].valid /\ lines[s][w].tsc <= lines[s][u].tsc
      BY <3>1 DEF UsesLine, b
    <3>3. lines[s][u].addr \in Blocks /\ lines[s][u].addr # c
      BY <1>1, <2>5, <3>1, <3>2 DEF CacheInv, Placed, Holds
    <3>4. lines[s][w].tsc = last[c].tick /\ lines[s][u].tsc = last[lines[s][u].addr].tick
      BY <1>1, <3>1, <3>2 DEF LruInv
    <3>5. last[lines[s][u].addr].tick # last[c].tick
      BY <1>9, <2>2, <3>3 DEF LruInv
    <3>6. lines[s][u].tsc > last[c].tick
      BY <1>4, <3>2, <3>3, <3>4, <3>5
    <3>7. QED  BY <1>1, <1>6, <2>2, <2>5, <3>2, <3>6
  <2>6. CASE SetOf(c) = s /\ u # w /\ ~ Holds(lines[s][w], c)
    <3>1. \A v \in Way : ~ Holds(lines[s][v], c)
      BY <1>1, <1>6, <1>9, <2>6
    <3>2. lines[s][u].valid /\ lines[s][u].tsc > last[c].tick
      BY <2>2, <2>6, <3>1 DEF LruInv
    <3>3. QED  BY <1>1, <1>6, <2>2, <2>6, <3>2
  <2>7. QED  BY <2>3, <2>4, <2>5, <2>6
<1>10. IsFiniteSet(UsedBlocks')
  <2>1. UsedBlocks' = UsedBlocks \cup {b}
    <3>1. \A c \in Blocks : last'[c].tick > 0 <=> last[c].tick > 0 \/ c = b
      BY <1>1, <1>3, <1>4
    <3>2. UsedBlocks' = {c \in Blocks : last'[c].tick > 0}
      BY DEF UsedBlocks, Blocks, Block
    <3>3. QED  BY <1>1, <3>1, <3>2 DEF UsedBlocks
  <2>2. QED  BY <2>1, FS_AddElement DEF LruInv
<1>11. \A c \in UsedBlocks', u \in Way :
          \/ \E v \in Way : Holds(lines'[SetOf(c)][v], c)
          \/ lines'[SetOf(c)][u].valid /\ lines'[SetOf(c)][u].tsc > last'[c].tick
  <2>1. UsedBlocks' = {c \in Blocks : last'[c].tick > 0}
    BY DEF UsedBlocks, Blocks, Block
  <2>2. QED  BY <1>9, <2>1
<1>12. QED
  BY <1>3, <1>5, <1>7, <1>8, <1>10, <1>11 DEF LruInv, Blocks, Block, Kind, Set, Way, SetOf, Holds

LEMMA LruInvHolds == Spec => []LruInv
<1>1. Init => LruInv
  <2> SUFFICES ASSUME Init  PROVE LruInv
    OBVIOUS
  <2>1. last = [b \in Blocks |-> Never] /\ Never.tick = 0 /\ tick = 0
    BY DEF Init, Never
  <2>2. Never \in [tick : Nat, nbr : [Kind -> Nat]]
    BY DEF Never, NoIntra
  <2>3. UsedBlocks = {}
    BY <2>1 DEF UsedBlocks
  <2>4. \A s \in Set, w \in Way : ~ lines[s][w].valid
    BY DEF Init, Set, Invalid
  <2>5. QED  BY <2>1, <2>2, <2>3, <2>4, FS_EmptySet DEF LruInv
<1>2. LruInv /\ CacheInv /\ CacheInv' /\ [Next]_vars => LruInv'
  <2> SUFFICES ASSUME LruInv, CacheInv, CacheInv', [Next]_vars  PROVE LruInv'
    OBVIOUS
  <2>1. Shape /\ Placed
    BY DEF CacheInv
  <2>2. ASSUME UNCHANGED <<lines, last>>, tick' \in Nat, tick <= tick'  PROVE LruInv'
    <3>1. \A b \in Blocks : last[b].tick \in Nat /\ last[b].tick <= tick
      BY DEF LruInv
    <3>2. \A b \in Blocks : last'[b].tick <= tick'
      BY <2>1, <2>2, <3>1 DEF Shape
    <3>3. UsedBlocks' = UsedBlocks
      BY <2>2 DEF UsedBlocks, Blocks, Block
    <3>4. QED
      BY <2>2, <3>2, <3>3 DEF LruInv, Blocks, Block, Kind, Set, Way, SetOf, Holds
  <2>3. tick \in Nat /\ tick <= tick
    BY <2>1 DEF Shape
  <2>4. ASSUME NEW p \in Packets, Process(p)  PROVE LruInv'
    <3>1. tick' = tick + 1
      BY <2>4 DEF Process
    <3>2. CASE Hit(p)
      BY <2>1, <3>1, <3>2, HitUses, UseKeepsLru
    <3>3. CASE Miss(p) /\ Install(p)
      BY <2>1, <3>1, <3>3, InstallUses, UseKeepsLru DEF Miss
    <3>4. CASE FilteredHit(p) \/ Bypass(p)
      <4>1. UNCHANGED <<lines, last>>
        BY <3>4 DEF FilteredHit, Bypass
      <4>2. QED  BY <2>2, <2>3, <3>1, <4>1
    <3>5. QED  BY <2>4, <3>2, <3>3, <3>4 DEF Process, Miss
  <2>5. CASE StartNewFrame \/ StartNewScene \/ Abort
    BY <2>2, <2>3, <2>5 DEF StartNewFrame, StartNewScene, Abort, MaskNotUsedUp, UnknownResource, cacheVars
  <2>6. CASE EndScene \/ EndFrame \/ UNCHANGED vars
    BY <2>2, <2>3, <2>6 DEF EndScene, EndFrame, vars, cacheVars
  <2>7. QED  BY <2>4, <2>5, <2>6 DEF Next
<1>3. QED  BY <1>1, <1>2, CacheInvHolds, PTL DEF Spec

\* Each set holds the blocks of it used last, each in one line, and no fewer than it
\* can: a block goes only for want of room, and the one used longest ago goes first
\* (cache_impl.hh:65).
THEOREM ReplacementIsLru == Spec => []LruStack
<1>1. CacheInv /\ LruInv => LruStack
  <2> SUFFICES ASSUME CacheInv, LruInv, NEW s \in Set
               PROVE  LET used == {b \in Blocks : SetOf(b) = s /\ last[b].tick > 0}
                          kept == {b \in used : b \in Resident}
                      IN /\ Cardinality(kept) = Min({Ways, Cardinality(used)})
                         /\ kept = {lines[s][w].addr : w \in {v \in Way : lines[s][v].valid}}
                         /\ \A b \in kept, c \in used \ kept : last[b].tick > last[c].tick
    BY DEF LruStack, CacheInv, Shape
  <2> DEFINE used == {b \in Blocks : SetOf(b) = s /\ last[b].tick > 0}
             kept == {b \in used : b \in Resident}
             full == {v \in Way : lines[s][v].valid}
  <2>1. \A b \in Blocks : last[b].tick \in Nat
    BY DEF LruInv
  <2>2. \A w \in full : /\ lines[s][w].addr \in used
                        /\ lines[s][w].tsc = last[lines[s][w].addr].tick
    BY DEF CacheInv, Placed, LruInv
  <2>3. \A b \in used : b \in Resident <=> \E w \in full : lines[s][w].addr = b
    <3>1. ASSUME NEW b \in used, b \in Resident
          PROVE  \E w \in full : lines[s][w].addr = b
      <4>1. PICK l \in Line : l.valid /\ l.addr = b
        BY <3>1 DEF Resident
      <4>2. PICK t \in Set, w \in Way : l = lines[t][w]
        BY DEF Line, CacheInv, Shape
      <4>3. t = s
        BY <4>1, <4>2 DEF CacheInv, Placed
      <4>4. QED  BY <4>1, <4>2, <4>3
    <3>2. ASSUME NEW w \in full  PROVE lines[s][w].addr \in Resident
      <4>1. lines[s][w] \in Line
        BY DEF Line, CacheInv, Shape
      <4>2. QED  BY <4>1 DEF Resident
    <3>3. QED  BY <3>1, <3>2
  <2>4. kept = {lines[s][w].addr : w \in full}
    BY <2>2, <2>3
  <2>5. ASSUME NEW c \in used \ kept, NEW w \in Way
        PROVE  lines[s][w].valid /\ lines[s][w].tsc > last[c].tick
    <3>1. c \in UsedBlocks /\ SetOf(c) = s
      BY DEF UsedBlocks
    <3>2. \A v \in Way : ~ Holds(lines[s][v], c)
      BY <2>3, <2>5 DEF Holds
    <3>3. QED  BY <3>1, <3>2 DEF LruInv
  <2>6. ASSUME NEW b \in kept, NEW c \in used \ kept  PROVE last[b].tick > last[c].tick
    <3>1. PICK w \in full : lines[s][w].addr = b
      BY <2>4
    <3>2. QED  BY <2>2, <2>5, <3>1
  <2>7. IsFiniteSet(used) /\ IsFiniteSet(kept) /\ Cardinality(kept) <= Cardinality(used)
        /\ Cardinality(used) \in Nat /\ Cardinality(kept) \in Nat
    <3>1. used \in SUBSET UsedBlocks /\ IsFiniteSet(UsedBlocks)
      BY DEF UsedBlocks, LruInv
    <3>2. IsFiniteSet(used) /\ kept \in SUBSET used
      <4> HIDE DEF used
      <4>1. QED  BY <3>1, FS_Subset
    <3>3. QED
      <4> HIDE DEF used, kept
      <4>1. QED  BY <3>2, FS_Subset, FS_CardinalityType
  <2>8. IsFiniteSet(Way) /\ Cardinality(Way) = Ways
    BY Geometry, FS_Interval DEF Way
  <2>9. Cardinality(kept) = Cardinality(full) /\ Cardinality(full) <= Ways
    <3>1. full \in SUBSET Way
      OBVIOUS
    <3>2. IsFiniteSet(full) /\ Cardinality(full) <= Ways
      <4> HIDE DEF full
      <4>1. QED  BY <2>8, <3>1, FS_Subset
    <3> DEFINE f == [w \in full |-> lines[s][w].addr]
    <3>3. f \in [full -> kept] /\ \A b \in kept : \E w \in full : f[w] = b
      BY <2>4
    <3>4. \A w, v \in full : f[w] = f[v] => w = v
      BY DEF CacheInv, Placed, Holds
    <3> HIDE DEF f, full, kept
    <3>5. f \in Surjection(full, kept) /\ f \in Injection(full, kept)
      BY <3>3, <3>4 DEF Surjection, Injection, IsInjective
    <3>6. QED  BY <3>2, <3>5, FS_Surjection
  <2>10. Cardinality(kept) = Min({Ways, Cardinality(used)})
    <3>1. kept # used => Cardinality(kept) = Ways
      <4>1. SUFFICES ASSUME NEW c \in used \ kept  PROVE Cardinality(kept) = Ways
        OBVIOUS
      <4>2. full = Way
        BY <2>5
      <4>3. QED  BY <2>8, <2>9, <4>2
    <3>2. Cardinality(kept) <= Ways /\ Cardinality(kept) \in Nat /\ Cardinality(used) \in Nat
      BY <2>7, <2>9, <2>8
    <3> HIDE DEF used, kept, full
    <3>3. QED  BY <2>7, <3>1, <3>2, MinOfTwo, Geometry
  <2>11. QED  BY <2>4, <2>6, <2>10
<1>2. QED  BY <1>1, CacheInvHolds, LruInvHolds, PTL
-----------------------------------------------------------------------------
\* No two jobs, and no two resources, are taken for each other in the 16 bits a
\* line has for them.  Frames need no such assumption: they only go up, and one
\* that is stored wrapped is below every later frame.
NumbersDiffer ==
    \A p, q \in Packets : /\ q.job % NbrRange = p.job => q.job = p.job
                          /\ q.rsc % NbrRange = p.rsc => q.rsc = p.rsc

\* The use of a block that a line remembers was in a frame that has begun, and by
\* a job and of a resource that packets have.
Known(nbr) ==
    /\ nbr["frame"] <= frame
    /\ \E q \in Packets : q.job = nbr["job"]
    /\ \E q \in Packets : q.rsc = nbr["rsc"]

\* A line stores the numbers of the last use of its block.
Remembered ==
    \A s \in Set, w \in Way :
        LET l == lines[s][w]
        IN l.valid => /\ Known(last[l.addr].nbr)
                      /\ ~ conf.limitStudy =>
                            \A k \in Kind : l.nbr[k] = last[l.addr].nbr[k] % NbrRange

ReuseInv ==
    /\ intra \in [Kind -> Nat] /\ reuse \in [Kind -> Nat]
    /\ Remembered
    /\ IntraHitsAreReuse

\* A stored number equals the current one when the full number does and fits.
LEMMA HitsAreReuse ==
    ASSUME NumbersDiffer, CacheInv, LruInv, Remembered, ~ conf.limitStudy,
           NEW p \in Packets, NEW w \in Hits(Block(p)), NEW k \in Kind \ {"scene"}
    PROVE  k \in IntraHits(lines[SetOf(Block(p))][w], p) <=> k \in Reused(p)
<1> DEFINE b == Block(p)
           l == lines[SetOf(b)][w]
           then == last[b].nbr
           now == Numbers(p)
<1>1. SetOf(b) \in Set /\ b \in Blocks /\ w \in Way /\ l.valid /\ l.addr = b
  BY PacketPlace DEF Hits, Holds
<1>2. Known(then) /\ \A j \in Kind : l.nbr[j] = then[j] % NbrRange
  BY <1>1 DEF Remembered
<1>3. then \in [Kind -> Nat] /\ now \in [Kind -> Nat]
  BY <1>1, NumbersType DEF LruInv, CacheInv
<1>4. now["frame"] = frame /\ now["job"] = p.job /\ now["rsc"] = p.rsc
  BY DEF Numbers, Kind
<1>5. k \in IntraHits(l, p) <=> then[k] % NbrRange = now[k]
  BY <1>2 DEF IntraHits
<1>6. k \in Reused(p) <=> then[k] = now[k] /\ now[k] < NbrRange
  BY DEF Reused
<1> HIDE DEF b, l, then, now
<1>7. then[k] \in Nat /\ now[k] \in Nat /\ NbrRange \in Nat \ {0}
  BY <1>3, Geometry
<1>8. then[k] % NbrRange < NbrRange /\ (then[k] < NbrRange => then[k] % NbrRange = then[k])
  BY <1>7
<1>9. then[k] % NbrRange = now[k] => then[k] = now[k]
  <2>1. CASE k = "frame"
    <3>1. then[k] % NbrRange <= then[k] /\ then[k] <= now[k]
      BY <1>2, <1>4, <1>7, <2>1 DEF Known
    <3>2. QED  BY <1>7, <3>1
  <2>2. CASE k = "job"
    BY <1>2, <1>4, <2>2 DEF Known, NumbersDiffer
  <2>3. CASE k = "rsc"
    BY <1>2, <1>4, <2>3 DEF Known, NumbersDiffer
  <2>4. QED  BY <2>1, <2>2, <2>3 DEF Kind
<1>10. QED  BY <1>5, <1>6, <1>7, <1>8, <1>9 DEF b, l

LEMMA UseIsRemembered ==
    ASSUME CacheInv, LruInv, Remembered, NEW p \in Packets, NEW w \in Way, UsesLine(p, w),
           UNCHANGED replayVars
    PROVE  Remembered'
<1> DEFINE b == Block(p)
           s == SetOf(b)
<1>1. b \in Blocks /\ s \in Set /\ last \in [Blocks -> [tick : Nat, nbr : [Kind -> Nat]]]
  BY PacketPlace DEF LruInv
<1>2. conf' = conf /\ frame' = frame
  BY DEF replayVars
<1>3. /\ last'[b].nbr = Numbers(p)
      /\ \A c \in Blocks : c # b => last'[c] = last[c]
  BY <1>1 DEF UsesLine
<1>4. /\ lines'[s][w].addr = b
      /\ ~ conf.limitStudy => lines'[s][w].nbr = Stored(p)
      /\ \A t \in Set, v \in Way : t # s \/ v # w => lines'[t][v] = lines[t][v]
      /\ \A v \in Way : Holds(lines[s][v], b) => v = w
  BY DEF UsesLine
<1>5. Known(Numbers(p))
  BY DEF Known, Numbers, Kind, CacheInv, Shape
<1>6. \A k \in Kind : Stored(p)[k] = Numbers(p)[k] % NbrRange
  BY DEF Stored
<1> HIDE DEF b
<1>7. ASSUME NEW t \in Set, NEW v \in Way, lines'[t][v].valid
      PROVE  /\ Known(last'[lines'[t][v].addr].nbr)
             /\ ~ conf.limitStudy =>
                    \A k \in Kind : lines'[t][v].nbr[k] = last'[lines'[t][v].addr].nbr[k] % NbrRange
  <2>1. CASE t = s /\ v = w
    BY <1>3, <1>4, <1>5, <1>6, <2>1
  <2>2. CASE ~ (t = s /\ v = w)
    <3>1. lines'[t][v] = lines[t][v] /\ lines[t][v].valid
      BY <1>4, <1>7, <2>2
    <3>2. lines[t][v].addr \in Blocks /\ SetOf(lines[t][v].addr) = t
      BY <3>1 DEF CacheInv, Placed
    <3>3. lines[t][v].addr # b
      BY <1>4, <2>2, <3>1, <3>2 DEF Holds
    <3>4. last'[lines[t][v].addr] = last[lines[t][v].addr]
      BY <1>3, <3>2, <3>3
    <3>5. QED  BY <3>1, <3>4 DEF Remembered
  <2>3. QED  BY <2>1, <2>2
<1>8. QED  BY <1>2, <1>7 DEF Remembered, Known, Set, Way, Kind

LEMMA CountsOn ==
    ASSUME NEW counts \in [Kind -> Nat], NEW kinds
    PROVE  /\ CountIn(counts, kinds) \in [Kind -> Nat]
           /\ \A k \in Kind : CountIn(counts, kinds)[k] = IF k \in kinds THEN counts[k] + 1 ELSE counts[k]
BY DEF CountIn

LEMMA ReuseInvHolds ==
    ASSUME NumbersDiffer
    PROVE  Spec => []ReuseInv
<1>1. Init => ReuseInv
  <2> SUFFICES ASSUME Init  PROVE ReuseInv
    OBVIOUS
  <2>1. NoIntra \in [Kind -> Nat] /\ intra = NoIntra /\ reuse = NoIntra
    BY DEF Init, NoIntra
  <2>2. \A s \in Set, w \in Way : ~ lines[s][w].valid
    BY DEF Init, Set, Invalid
  <2>3. QED  BY <2>1, <2>2 DEF ReuseInv, Remembered, IntraHitsAreReuse
<1>2. ReuseInv /\ CacheInv /\ LruInv /\ [Next]_vars => ReuseInv'
  <2> SUFFICES ASSUME ReuseInv, CacheInv, LruInv, [Next]_vars  PROVE ReuseInv'
    OBVIOUS
  <2>1. Shape /\ Placed /\ Remembered
    BY DEF CacheInv, ReuseInv
  <2>2. ASSUME NEW p \in Packets, Process(p)  PROVE ReuseInv'
    <3>1. UNCHANGED replayVars /\ conf' = conf
      BY <2>2 DEF Process, replayVars
    <3>2. CASE Hit(p)
      <4>1. PICK w \in Hits(Block(p)) :
              /\ intra' = IF conf.limitStudy THEN intra
                          ELSE CountIn(intra, IntraHits(lines[SetOf(Block(p))][w], p))
              /\ reuse' = CountIn(reuse, Reused(p))
        BY <3>2 DEF Hit
      <4>2. intra' \in [Kind -> Nat] /\ reuse' \in [Kind -> Nat]
        BY <4>1, CountsOn DEF ReuseInv
      <4>3. ~ conf.limitStudy => \A k \in Kind \ {"scene"} : intra'[k] = reuse'[k]
        <5>1. SUFFICES ASSUME ~ conf.limitStudy, NEW k \in Kind \ {"scene"}
                       PROVE  intra'[k] = reuse'[k]
          OBVIOUS
        <5>2. intra[k] = reuse[k] /\ intra \in [Kind -> Nat] /\ reuse \in [Kind -> Nat]
          BY <5>1 DEF ReuseInv, IntraHitsAreReuse
        <5>3. k \in IntraHits(lines[SetOf(Block(p))][w], p) <=> k \in Reused(p)
          BY <2>1, <5>1, HitsAreReuse
        <5>4. QED  BY <4>1, <5>1, <5>2, <5>3, CountsOn
      <4>4. Remembered'
        BY <2>1, <3>1, <3>2, HitUses, UseIsRemembered
      <4>5. QED  BY <3>1, <4>2, <4>3, <4>4 DEF ReuseInv, IntraHitsAreReuse, Kind
    <3>3. CASE Miss(p) /\ Install(p)
      <4>1. Remembered'
        BY <2>1, <3>1, <3>3, InstallUses, UseIsRemembered DEF Miss
      <4>2. QED  BY <3>1, <3>3, <4>1 DEF Miss, ReuseInv, IntraHitsAreReuse, Kind
    <3>4. CASE FilteredHit(p) \/ (Miss(p) /\ Bypass(p))
      <4>1. UNCHANGED <<lines, last, intra, reuse, frame, conf>>
        BY <3>1, <3>4 DEF FilteredHit, Miss, Bypass, replayVars
      <4>2. Remembered'
        BY <2>1, <4>1 DEF Remembered, Known, Kind, Set, Way
      <4>3. QED  BY <4>1, <4>2 DEF ReuseInv, IntraHitsAreReuse, Kind
    <3>5. QED  BY <2>2, <3>2, <3>3, <3>4 DEF Process, Miss
  <2>3. CASE StartNewFrame \/ StartNewScene \/ Abort \/ UNCHANGED vars
    <3>1. UNCHANGED <<lines, last, intra, reuse, frame, conf>>
      BY <2>3 DEF StartNewFrame, StartNewScene, Abort, MaskNotUsedUp, UnknownResource, cacheVars, statVars, vars, replayVars
    <3>2. Remembered'
      BY <2>1, <3>1 DEF Remembered, Known, Kind, Set, Way
    <3>3. QED  BY <3>1, <3>2 DEF ReuseInv, IntraHitsAreReuse, Kind
  <2>4. CASE EndScene
    <3>1. intra' = NoIntra /\ reuse' = NoIntra /\ UNCHANGED <<lines, last, frame, conf>>
      BY <2>4 DEF EndScene, ResetStats, cacheVars
    <3>2. NoIntra \in [Kind -> Nat]
      BY DEF NoIntra
    <3>3. Remembered'
      BY <2>1, <3>1 DEF Remembered, Known, Kind, Set, Way
    <3>4. QED  BY <3>1, <3>2, <3>3 DEF ReuseInv, IntraHitsAreReuse, Kind
  <2>5. CASE EndFrame
    <3>1. frame' = frame + 1 /\ UNCHANGED <<lines, last, intra, reuse, conf>>
      BY <2>5 DEF EndFrame, cacheVars, statVars
    <3>2. ASSUME NEW s \in Set, NEW w \in Way, lines[s][w].valid
          PROVE  last[lines[s][w].addr].nbr["frame"] <= frame + 1
      <4>1. lines[s][w].addr \in Blocks
        BY <2>1, <3>2 DEF Placed
      <4>2. last[lines[s][w].addr].nbr["frame"] \in Nat
        BY <4>1 DEF LruInv, Kind
      <4>3. last[lines[s][w].addr].nbr["frame"] <= frame
        BY <2>1, <3>2 DEF Remembered, Known
      <4>4. QED  BY <2>1, <4>2, <4>3 DEF Shape
    <3>3. Remembered'
      BY <2>1, <3>1, <3>2 DEF Remembered, Known, Kind, Set, Way
    <3>4. QED  BY <3>1, <3>3 DEF ReuseInv, IntraHitsAreReuse, Kind
  <2>6. QED  BY <2>2, <2>3, <2>4, <2>5 DEF Next
<1>3. QED  BY <1>1, <1>2, CacheInvHolds, LruInvHolds, PTL DEF Spec

\* What the base model counts as a hit within the frame, the job or the resource is
\* a use of the block by the same one as the use before it, though a line keeps 16
\* bits of each number (base_cache.cc:67-92), as long as jobs and resources whose
\* numbers wrap are taken for no other.
THEOREM IntraHitsCountReuse ==
    ASSUME NumbersDiffer
    PROVE  Spec => []IntraHitsAreReuse
<1>1. ReuseInv => IntraHitsAreReuse
  BY DEF ReuseInv
<1>2. QED  BY <1>1, ReuseInvHolds, PTL
-----------------------------------------------------------------------------
(***************************************************************************)
(* Sums over a finite set, which take one element out after the other.     *)
(***************************************************************************)
Pick(T) == CHOOSE x \in T : TRUE

\* iter sums f over every subset of S.
Adds(iter, f, S) ==
    \A T \in SUBSET S : iter[T] = IF T = {} THEN 0 ELSE f[Pick(T)] + iter[T \ {Pick(T)}]

\* Of some subsets of a finite set one has no other of them in it.
LEMMA SmallestSubset ==
    ASSUME NEW S, IsFiniteSet(S), NEW U \in SUBSET SUBSET S, U # {}
    PROVE  \E T \in U : \A R \in U : R \subseteq T => R = T
<1>1. IsWellFoundedOn(StrictSubsetOrdering(S), SUBSET S)
  BY FS_StrictSubsetOrderingWellFounded, FS_FiniteSubsetsOfFinite
<1>2. PICK T \in U : \A R \in U : ~ (<<R, T>> \in StrictSubsetOrdering(S))
  BY <1>1, WFMin
<1>3. QED  BY <1>2 DEF StrictSubsetOrdering

LEMMA AddsOnce ==
    ASSUME NEW f, NEW S, IsFiniteSet(S), NEW g, Adds(g, f, S), NEW h, Adds(h, f, S)
    PROVE  g[S] = h[S]
<1> DEFINE U == {T \in SUBSET S : g[T] # h[T]}
<1>1. SUFFICES ASSUME U # {} PROVE FALSE
  OBVIOUS
<1>2. U \in SUBSET SUBSET S
  OBVIOUS
<1>3. PICK T \in U : \A R \in U : R \subseteq T => R = T
  <2> HIDE DEF U
  <2>1. QED  BY <1>1, <1>2, SmallestSubset
<1>4. T # {}
  BY <1>3 DEF Adds
<1>5. Pick(T) \in T
  BY <1>4 DEF Pick
<1>6. g[T \ {Pick(T)}] = h[T \ {Pick(T)}]
  BY <1>3, <1>5
<1>7. QED  BY <1>3, <1>4, <1>6 DEF Adds

\* There is such a function: up to any number of elements.
LEMMA AddsSome ==
    ASSUME NEW f, NEW S, IsFiniteSet(S)
    PROVE  \E iter : /\ iter = [T \in SUBSET S |-> IF T = {} THEN 0
                                                   ELSE f[Pick(T)] + iter[T \ {Pick(T)}]]
                     /\ Adds(iter, f, S)
<1> DEFINE Small(n) == {T \in SUBSET S : Cardinality(T) <= n}
           Value(g, T) == IF T = {} THEN 0 ELSE f[Pick(T)] + g[T \ {Pick(T)}]
           Has(n) == \E g : g = [T \in Small(n) |-> Value(g, T)]
           U == {0 .. n : n \in {m \in 0 .. Cardinality(S) : ~ Has(m)}}
<1>1. Cardinality(S) \in Nat /\ IsFiniteSet(0 .. Cardinality(S))
  BY FS_CardinalityType, FS_Interval
<1>2. \A T \in SUBSET S : IsFiniteSet(T) /\ Cardinality(T) \in Nat /\ Cardinality(T) <= Cardinality(S)
  BY FS_Subset, FS_CardinalityType
<1>3. ASSUME NEW T \in SUBSET S, T # {}
      PROVE  T \ {Pick(T)} \in SUBSET S /\ Cardinality(T \ {Pick(T)}) = Cardinality(T) - 1
  <2>1. Pick(T) \in T
    BY <1>3 DEF Pick
  <2>2. QED  BY <1>2, <2>1, FS_RemoveElement
<1>4. Has(0)
  <2>1. Small(0) = {{}}
    BY <1>2, FS_EmptySet
  <2> DEFINE g == [T \in Small(0) |-> 0]
  <2>2. g = [T \in Small(0) |-> Value(g, T)]
    BY <2>1
  <2>3. QED  BY <2>2
<1>5. ASSUME NEW n \in Nat, Has(n)  PROVE Has(n + 1)
  <2>1. PICK g : g = [T \in Small(n) |-> Value(g, T)]
    BY <1>5
  <2> DEFINE h == [T \in Small(n + 1) |-> IF Cardinality(T) <= n THEN g[T] ELSE Value(g, T)]
  <2>2. ASSUME NEW T \in Small(n + 1)  PROVE h[T] = Value(h, T)
    <3>1. CASE T = {}
      BY <2>1, <3>1, FS_EmptySet
    <3>2. CASE T # {}
      <4>1. T \ {Pick(T)} \in Small(n) /\ T \ {Pick(T)} \in Small(n + 1)
        BY <1>2, <1>3, <3>2
      <4>2. h[T \ {Pick(T)}] = g[T \ {Pick(T)}]
        BY <4>1
      <4>3. h[T] = Value(g, T)
        BY <1>2, <2>1
      <4>4. QED  BY <3>2, <4>2, <4>3
    <3>3. QED  BY <3>1, <3>2
  <2>3. h = [T \in Small(n + 1) |-> h[T]]
    OBVIOUS
  <2>4. h = [T \in Small(n + 1) |-> Value(h, T)]
    <3> HIDE DEF h, Value, Small
    <3>1. QED  BY <2>2, <2>3
  <2>5. QED
    <3> HIDE DEF h, Value, Small
    <3>1. QED  BY <2>4
<1>6. Has(Cardinality(S))
  <2>1. SUFFICES ASSUME ~ Has(Cardinality(S))  PROVE FALSE
    OBVIOUS
  <2> HIDE DEF Has
  <2> DEFINE I == 0 .. Cardinality(S)
  <2>2. IsFiniteSet(I) /\ U \in SUBSET SUBSET I /\ U # {}
    BY <1>1, <2>1
  <2>3. PICK T \in U : \A R \in U : R \subseteq T => R = T
    <3> HIDE DEF U, I
    <3>1. QED  BY <2>2, SmallestSubset
  <2>4. PICK n \in 0 .. Cardinality(S) : T = 0 .. n /\ ~ Has(n)
    OBVIOUS
  <2>5. n # 0 /\ n - 1 \in Nat /\ (n - 1) + 1 = n
    BY <1>1, <1>4, <2>4
  <2>6. ~ Has(n - 1)
    BY <1>5, <2>4, <2>5
  <2>7. 0 .. n - 1 \in U /\ 0 .. n - 1 \subseteq 0 .. n /\ n \notin 0 .. n - 1 /\ n \in 0 .. n
    BY <1>1, <2>5, <2>6
  <2>8. QED  BY <2>3, <2>4, <2>7
<1>7. Small(Cardinality(S)) = SUBSET S
  BY <1>2
<1>8. PICK g : g = [T \in SUBSET S |-> Value(g, T)]
  BY <1>6, <1>7
<1>9. Adds(g, f, S)
  BY <1>8 DEF Adds
<1>10. QED  BY <1>8, <1>9

LEMMA SumAdds ==
    ASSUME NEW f, NEW S, IsFiniteSet(S)
    PROVE  \E iter : Adds(iter, f, S) /\ SumFunctionOnSet(f, S) = iter[S]
<1> DEFINE Body(iter) == [T \in SUBSET S |-> IF T = {} THEN 0
                                             ELSE f[Pick(T)] + iter[T \ {Pick(T)}]]
           sum == CHOOSE iter : iter = Body(iter)
<1>1. SumFunctionOnSet(f, S) = sum[S]
  BY DEF SumFunctionOnSet, FoldFunctionOnSet, MapThenFoldSet, Pick
<1>2. \E iter : iter = Body(iter)
  <2>1. PICK iter : /\ iter = [T \in SUBSET S |-> IF T = {} THEN 0
                                                 ELSE f[Pick(T)] + iter[T \ {Pick(T)}]]
                    /\ Adds(iter, f, S)
    BY AddsSome
  <2>2. iter = Body(iter)
    BY <2>1
  <2>3. QED  BY <2>2
<1>3. sum = Body(sum)
  <2> HIDE DEF Body
  <2>1. QED  BY <1>2
<1>4. Adds(sum, f, S)
  <2> HIDE DEF sum
  <2>1. QED  BY <1>3 DEF Adds
<1>5. QED  BY <1>1, <1>4

LEMMA SumPicks ==
    ASSUME NEW f, NEW S, IsFiniteSet(S), S # {}
    PROVE  SumFunctionOnSet(f, S) = f[Pick(S)] + SumFunctionOnSet(f, S \ {Pick(S)})
<1>1. PICK g : Adds(g, f, S) /\ SumFunctionOnSet(f, S) = g[S]
  BY SumAdds
<1>2. IsFiniteSet(S \ {Pick(S)})
  BY FS_RemoveElement
<1>3. PICK h : /\ Adds(h, f, S \ {Pick(S)})
               /\ SumFunctionOnSet(f, S \ {Pick(S)}) = h[S \ {Pick(S)}]
  BY <1>2, SumAdds
<1>4. Adds(g, f, S \ {Pick(S)})
  BY <1>1 DEF Adds
<1>5. g[S \ {Pick(S)}] = h[S \ {Pick(S)}]
  BY <1>2, <1>3, <1>4, AddsOnce
<1>6. QED  BY <1>1, <1>3, <1>5 DEF Adds

LEMMA SumOfNone == ASSUME NEW f PROVE SumFunctionOnSet(f, {}) = 0
<1>1. IsFiniteSet({})
  BY FS_EmptySet
<1>2. QED  BY <1>1, SumAdds DEF Adds

LEMMA SumIsNat ==
    ASSUME NEW f, NEW S, IsFiniteSet(S), \A x \in S : f[x] \in Nat
    PROVE  SumFunctionOnSet(f, S) \in Nat
<1> DEFINE U == {T \in SUBSET S : SumFunctionOnSet(f, T) \notin Nat}
<1>1. SUFFICES ASSUME U # {} PROVE FALSE
  OBVIOUS
<1>2. U \in SUBSET SUBSET S
  OBVIOUS
<1>3. PICK T \in U : \A R \in U : R \subseteq T => R = T
  <2> HIDE DEF U
  <2>1. QED  BY <1>1, <1>2, SmallestSubset
<1>4. T # {} /\ IsFiniteSet(T)
  <2>1. SumFunctionOnSet(f, {}) \in Nat
    BY SumOfNone
  <2>2. T \in SUBSET S /\ T # {}
    BY <1>3, <2>1
  <2>3. QED  BY <2>2, FS_Subset
<1>5. Pick(T) \in T
  BY <1>4 DEF Pick
<1>6. SumFunctionOnSet(f, T \ {Pick(T)}) \in Nat /\ f[Pick(T)] \in Nat
  BY <1>3, <1>5
<1>7. SumFunctionOnSet(f, T) \in Nat
  BY <1>4, <1>6, SumPicks
<1>8. QED  BY <1>7

\* In whatever order the elements are taken.
LEMMA SumTakesOut ==
    ASSUME NEW f, NEW S, IsFiniteSet(S), \A x \in S : f[x] \in Nat, NEW x \in S
    PROVE  SumFunctionOnSet(f, S) = f[x] + SumFunctionOnSet(f, S \ {x})
<1> DEFINE Sum(T) == SumFunctionOnSet(f, T)
           U == {T \in SUBSET S : \E y \in T : Sum(T) # f[y] + Sum(T \ {y})}
<1>1. SUFFICES ASSUME U # {} PROVE FALSE
  BY DEF U
<1>2. U \in SUBSET SUBSET S
  OBVIOUS
<1>3. PICK T \in U : \A R \in U : R \subseteq T => R = T
  <2> HIDE DEF U
  <2>1. QED  BY <1>1, <1>2, SmallestSubset
<1>4. PICK y \in T : Sum(T) # f[y] + Sum(T \ {y})
  BY <1>3
<1> DEFINE z == Pick(T)
<1>5. z \in T /\ T \in SUBSET S
  BY <1>4 DEF Pick
<1>6. IsFiniteSet(T) /\ IsFiniteSet((T \ {y}) \ {z})
  BY <1>5, FS_Subset, FS_RemoveElement
<1>7. Sum(T) = f[z] + Sum(T \ {z})
  BY <1>4, <1>6, SumPicks
<1> HIDE DEF z
<1>8. y # z
  BY <1>4, <1>7
<1>9. ASSUME NEW v \in T, NEW w \in T \ {v}
      PROVE  Sum(T \ {v}) = f[w] + Sum((T \ {v}) \ {w})
  <2>1. T \ {v} \notin U /\ T \ {v} \in SUBSET S
    <3> HIDE DEF U
    <3>1. QED  BY <1>3, <1>5
  <2> HIDE DEF Sum
  <2>2. QED  BY <2>1
<1>10. /\ Sum(T \ {z}) = f[y] + Sum((T \ {z}) \ {y})
       /\ Sum(T \ {y}) = f[z] + Sum((T \ {y}) \ {z})
  <2>1. y \in T \ {z} /\ z \in T \ {y}
    BY <1>4, <1>5, <1>8
  <2> HIDE DEF Sum, U
  <2>2. QED  BY <1>4, <1>5, <1>9, <2>1
<1>11. (T \ {z}) \ {y} = (T \ {y}) \ {z}
  OBVIOUS
<1>12. f[y] \in Nat /\ f[z] \in Nat /\ Sum((T \ {y}) \ {z}) \in Nat
  BY <1>4, <1>5, <1>6, SumIsNat
<1>13. QED
  <2> HIDE DEF Sum
  <2>1. QED  BY <1>4, <1>7, <1>10, <1>11, <1>12

LEMMA SumsAgree ==
    ASSUME NEW f, NEW g, NEW S, IsFiniteSet(S), \A x \in S : f[x] = g[x]
    PROVE  SumFunctionOnSet(f, S) = SumFunctionOnSet(g, S)
<1> DEFINE U == {T \in SUBSET S : SumFunctionOnSet(f, T) # SumFunctionOnSet(g, T)}
<1>1. SUFFICES ASSUME U # {} PROVE FALSE
  OBVIOUS
<1>2. U \in SUBSET SUBSET S
  OBVIOUS
<1>3. PICK T \in U : \A R \in U : R \subseteq T => R = T
  <2> HIDE DEF U
  <2>1. QED  BY <1>1, <1>2, SmallestSubset
<1>4. T # {} /\ IsFiniteSet(T)
  BY <1>3, SumOfNone, FS_Subset
<1>5. Pick(T) \in T
  BY <1>4 DEF Pick
<1>6. /\ SumFunctionOnSet(f, T \ {Pick(T)}) = SumFunctionOnSet(g, T \ {Pick(T)})
      /\ f[Pick(T)] = g[Pick(T)]
  BY <1>3, <1>5
<1>7. SumFunctionOnSet(f, T) = SumFunctionOnSet(g, T)
  BY <1>4, <1>6, SumPicks
<1>8. QED  BY <1>7

\* One summand grows.
LEMMA SumGains ==
    ASSUME NEW f, NEW g, NEW S, IsFiniteSet(S), NEW x \in S, NEW d \in Nat,
           \A y \in S : f[y] \in Nat,
           \A y \in S : g[y] = IF y = x THEN f[y] + d ELSE f[y]
    PROVE  SumFunctionOnSet(g, S) = SumFunctionOnSet(f, S) + d
<1>1. \A y \in S : g[y] \in Nat
  OBVIOUS
<1>2. IsFiniteSet(S \ {x})
  BY FS_RemoveElement
<1>3. SumFunctionOnSet(f, S) = f[x] + SumFunctionOnSet(f, S \ {x})
  BY SumTakesOut
<1>4. SumFunctionOnSet(g, S) = g[x] + SumFunctionOnSet(g, S \ {x})
  BY <1>1, SumTakesOut
<1>5. SumFunctionOnSet(g, S \ {x}) = SumFunctionOnSet(f, S \ {x})
  BY <1>2, SumsAgree
<1>6. SumFunctionOnSet(f, S \ {x}) \in Nat
  BY <1>2, SumIsNat
<1>7. QED  BY <1>3, <1>4, <1>5, <1>6

LEMMA SumOfZeros ==
    ASSUME NEW f, NEW S, IsFiniteSet(S), \A x \in S : f[x] = 0
    PROVE  SumFunctionOnSet(f, S) = 0
<1> DEFINE U == {T \in SUBSET S : SumFunctionOnSet(f, T) # 0}
<1>1. SUFFICES ASSUME U # {} PROVE FALSE
  OBVIOUS
<1>2. U \in SUBSET SUBSET S
  OBVIOUS
<1>3. PICK T \in U : \A R \in U : R \subseteq T => R = T
  <2> HIDE DEF U
  <2>1. QED  BY <1>1, <1>2, SmallestSubset
<1>4. T # {} /\ IsFiniteSet(T)
  BY <1>3, SumOfNone, FS_Subset
<1>5. Pick(T) \in T
  BY <1>4 DEF Pick
<1>6. SumFunctionOnSet(f, T \ {Pick(T)}) = 0 /\ f[Pick(T)] = 0
  BY <1>3, <1>5
<1>7. SumFunctionOnSet(f, T) = 0
  BY <1>4, <1>6, SumPicks
<1>8. QED  BY <1>7

LEMMA SumOfTwo ==
    ASSUME NEW f, NEW a, NEW b, a # b, f[a] \in Nat, f[b] \in Nat
    PROVE  SumFunctionOnSet(f, {a, b}) = f[a] + f[b]
<1>1. IsFiniteSet({a, b}) /\ IsFiniteSet({b})
  <2>1. IsFiniteSet({b}) /\ {a, b} = {b} \cup {a}
    BY FS_Singleton
  <2>2. IsFiniteSet({b} \cup {a})
    BY <2>1, FS_AddElement
  <2>3. QED  BY <2>1, <2>2
<1>2. {a, b} \ {a} = {b} /\ {b} \ {b} = {}
  OBVIOUS
<1>3. SumFunctionOnSet(f, {a, b}) = f[a] + SumFunctionOnSet(f, {b})
  BY <1>1, <1>2, SumTakesOut
<1>4. SumFunctionOnSet(f, {b}) = f[b] + SumFunctionOnSet(f, {})
  BY <1>1, <1>2, SumTakesOut
<1>5. QED  BY <1>3, <1>4, SumOfNone
-----------------------------------------------------------------------------
\* The accounts of one owner, which are finitely many if the packets are.
Owner == {"job", "rsc", "core"}
Accounts(owner) == {a \in Account : a[1] = owner}
Summands(s) == [a \in Account |-> stats[a][s]]
Cached == <<"cache", 0>>

StatsInv ==
    /\ stats \in [Account -> [Stat -> Nat]]
    /\ sent \in [Cmd -> Nat]
    /\ \A s \in Stat, owner \in Owner :
        owner # "core" \/ s[1] # "misses" => Total(owner, s) = stats[Cached][s]
    /\ stats[Cached][<<"memside", "READ">>] + stats[Cached][<<"memside", "WRITE">>]
         = sent["READ"] + sent["WRITE"]
    /\ stats[Cached][<<"writebacks", "ALL">>] = sent["WRITE"]

NumberOf(owner, p) == CASE owner = "job" -> p.job [] owner = "core" -> p.core [] owner = "rsc" -> p.rsc

LEMMA AccountsOfOwner ==
    ASSUME IsFiniteSet(Packets), NEW owner \in Owner
    PROVE  /\ IsFiniteSet(Accounts(owner))
           /\ \A p \in Packets : <<owner, NumberOf(owner, p)>> \in Accounts(owner)
           /\ \A p \in Packets, a \in Accounts(owner) :
                a \in AccountsOf(p) <=> a = <<owner, NumberOf(owner, p)>>
<1> DEFINE f == [p \in Packets |-> <<owner, NumberOf(owner, p)>>]
<1>1. \A p \in Packets : <<owner, NumberOf(owner, p)>> \in AccountsOf(p)
  BY DEF AccountsOf, NumberOf, Owner
<1>2. \A p \in Packets : <<owner, NumberOf(owner, p)>> \in Accounts(owner)
  BY <1>1 DEF Account, Accounts
<1>3. \A p \in Packets, a \in Accounts(owner) :
        a \in AccountsOf(p) <=> a = <<owner, NumberOf(owner, p)>>
  BY <1>1 DEF Accounts, AccountsOf, NumberOf, Owner
<1>4. \A a \in Accounts(owner) : \E p \in Packets : a = <<owner, NumberOf(owner, p)>>
  <2> TAKE a \in Accounts(owner)
  <2>1. a \in Account /\ a # <<"cache", 0>>
    BY DEF Accounts, Owner
  <2>2. PICK p \in Packets : a \in AccountsOf(p)
    BY <2>1 DEF Account
  <2>3. QED  BY <1>3, <2>2
<1>5. f \in Surjection(Packets, Accounts(owner))
  <2>1. f \in [Packets -> Accounts(owner)]
    BY <1>2
  <2>2. \A a \in Accounts(owner) : \E p \in Packets : f[p] = a
    BY <1>4
  <2> HIDE DEF f
  <2>3. QED  BY <2>1, <2>2 DEF Surjection
<1>6. IsFiniteSet(Accounts(owner))
  <2> HIDE DEF f
  <2>1. QED  BY <1>5, FS_Surjection
<1>7. QED  BY <1>2, <1>3, <1>6

\* A packet adds to each owner's total what it adds to the account of its owner.
LEMMA TotalGains ==
    ASSUME IsFiniteSet(Packets), stats \in [Account -> [Stat -> Nat]],
           NEW p \in Packets, NEW owner \in Owner, NEW s \in Stat, NEW d \in Nat,
           NEW gains, stats' = Gained(p, gains),
           gains[<<owner, NumberOf(owner, p)>>][s] = d
    PROVE  Total(owner, s)' = Total(owner, s) + d
<1> DEFINE S == Accounts(owner)
           x == <<owner, NumberOf(owner, p)>>
           f == Summands(s)
           g == [a \in Account |-> stats'[a][s]]
<1>1. IsFiniteSet(S) /\ x \in S /\ S \subseteq Account
  BY AccountsOfOwner DEF Accounts
<1>2. \A a \in S : f[a] \in Nat
  BY <1>1 DEF Summands
<1>3. \A a \in S : g[a] = IF a = x THEN f[a] + d ELSE f[a]
  <2> TAKE a \in S
  <2>1. stats'[a][s] = stats[a][s] + IF a \in AccountsOf(p) THEN gains[a][s] ELSE 0
    BY <1>1 DEF Gained
  <2>2. a \in AccountsOf(p) <=> a = x
    BY AccountsOfOwner
  <2>3. stats[a][s] \in Nat /\ f[a] = stats[a][s] /\ g[a] = stats'[a][s]
    BY <1>1 DEF Summands
  <2> HIDE DEF S, f, g, x
  <2>4. QED  BY <2>1, <2>2, <2>3 DEF x
<1>4. SumFunctionOnSet(g, S) = SumFunctionOnSet(f, S) + d
  <2> HIDE DEF S, f, g, x
  <2>1. QED  BY <1>1, <1>2, <1>3, SumGains
<1>5. Total(owner, s) = SumFunctionOnSet(f, S)
  BY DEF Total, Accounts, Summands
<1>6. Total(owner, s)' = SumFunctionOnSet(g, S)
  BY DEF Total, Accounts, Account, AccountsOf
<1>7. QED  BY <1>4, <1>5, <1>6

LEMMA CommandsCounted ==
    /\ <<"memside", "READ">> \in Stat /\ <<"memside", "WRITE">> \in Stat
    /\ <<"writebacks", "ALL">> \in Stat
    /\ \A c \in Cmd : <<"hits", c>> \in Stat /\ <<"misses", c>> \in Stat
BY DEF Stat, Cmd

LEMMA HitAddsUp ==
    ASSUME IsFiniteSet(Packets), StatsInv, NEW p \in Packets, stats' = HitStats(p), sent' = sent
    PROVE  StatsInv'
<1> DEFINE G == [a \in Account |-> [s \in Stat |-> HitGains(p, a, s)]]
<1>1. stats \in [Account -> [Stat -> Nat]] /\ Cached \in Account /\ Cached \in AccountsOf(p)
  BY DEF StatsInv, Account, AccountsOf, Cached
<1>2. \A a \in Account, s \in Stat : G[a][s] = HitGains(p, a, s) /\ HitGains(p, a, s) \in {0, 1}
  BY DEF HitGains
<1>3. stats' = Gained(p, G)
  BY DEF HitStats
<1> HIDE DEF G
<1>4. \A a \in Account, s \in Stat :
        stats'[a][s] = stats[a][s] + IF a \in AccountsOf(p) THEN HitGains(p, a, s) ELSE 0
  BY <1>2, <1>3 DEF Gained
<1>5. stats' \in [Account -> [Stat -> Nat]]
  <2>1. stats' = [a \in Account |-> [s \in Stat |->
                    stats[a][s] + IF a \in AccountsOf(p) THEN G[a][s] ELSE 0]]
    BY <1>3 DEF Gained
  <2>2. \A a \in Account, s \in Stat :
          stats[a][s] + (IF a \in AccountsOf(p) THEN G[a][s] ELSE 0) \in Nat
    BY <1>1, <1>2
  <2>3. QED  BY <2>1, <2>2
<1>6. ASSUME NEW s \in Stat, NEW owner \in Owner, owner # "core" \/ s[1] # "misses"
      PROVE  Total(owner, s)' = stats'[Cached][s]
  <2> DEFINE d == HitGains(p, Cached, s)
             x == <<owner, NumberOf(owner, p)>>
  <2>1. x \in Account
    BY AccountsOfOwner DEF Accounts
  <2>2. G[x][s] = d /\ d \in Nat
    BY <1>1, <1>2, <2>1 DEF HitGains
  <2>3. Total(owner, s)' = Total(owner, s) + d
    <3> HIDE DEF d
    <3>1. QED  BY <1>1, <1>3, <2>2, TotalGains
  <2>4. QED  BY <1>1, <1>4, <1>6, <2>3 DEF StatsInv
<1>7. \A s \in {<<"memside", "READ">>, <<"memside", "WRITE">>, <<"writebacks", "ALL">>} :
        stats'[Cached][s] = stats[Cached][s]
  <2>1. \A s \in {<<"memside", "READ">>, <<"memside", "WRITE">>, <<"writebacks", "ALL">>} :
          HitGains(p, Cached, s) = 0 /\ s \in Stat
    BY CommandsCounted DEF HitGains
  <2> TAKE s \in {<<"memside", "READ">>, <<"memside", "WRITE">>, <<"writebacks", "ALL">>}
  <2>2. /\ stats'[Cached][s] = stats[Cached][s] + HitGains(p, Cached, s)
        /\ HitGains(p, Cached, s) = 0 /\ stats[Cached][s] \in Nat
    BY <1>1, <1>4, <2>1
  <2>3. QED  BY <2>2
<1>8. QED  BY <1>5, <1>6, <1>7 DEF StatsInv, Account, AccountsOf, Stat, Cmd, Cached, Owner

LEMMA HowManyHold ==
    ASSUME NEW a \in BOOLEAN, NEW b \in BOOLEAN
    PROVE  Cardinality({i \in 1 .. 2 : <<a, b>>[i]}) = (IF a THEN 1 ELSE 0) + (IF b THEN 1 ELSE 0)
<1> DEFINE S == {i \in 1 .. 2 : <<a, b>>[i]}
<1>1. S = (IF a THEN {1} ELSE {}) \cup (IF b THEN {2} ELSE {})
  OBVIOUS
<1>2. Cardinality({}) = 0 /\ \A x : IsFiniteSet({x}) /\ Cardinality({x}) = 1
  BY FS_EmptySet, FS_Singleton
<1>3. Cardinality({1} \cup {2}) = 2
  <2> DEFINE one == {1}
  <2>1. 2 \notin one /\ IsFiniteSet(one) /\ Cardinality(one) = 1
    <3>1. 2 \notin one
      OBVIOUS
    <3>2. one = {1}
      OBVIOUS
    <3> HIDE DEF one
    <3>3. IsFiniteSet(one) /\ Cardinality(one) = 1
      BY <1>2, <3>2, Zenon
    <3>4. QED  BY <3>1, <3>3
  <2> HIDE DEF one
  <2>3. Cardinality(one \cup {2}) = 2
    BY <2>1, FS_AddElement
  <2>4. QED  BY <2>3 DEF one
<1>4. CASE a /\ b
  <2>1. S = {1} \cup {2}
    BY <1>1, <1>4
  <2>2. Cardinality(S) = 2
    BY <1>3, <2>1
  <2>3. QED  BY <1>4, <2>2
<1>5. CASE ~ (a /\ b)
  <2>1. S = IF a THEN {1} ELSE IF b THEN {2} ELSE {}
    BY <1>1, <1>5
  <2> HIDE DEF S
  <2>2. QED  BY <1>2, <1>5, <2>1
<1>6. QED  BY <1>4, <1>5

LEMMA MissAddsUp ==
    ASSUME IsFiniteSet(Packets), StatsInv, NEW p \in Packets,
           NEW evicts \in BOOLEAN, NEW writes \in BOOLEAN,
           stats' = MissStats(p, Fetches(p), evicts, writes), Sends(p, writes)
    PROVE  StatsInv'
<1> DEFINE M(a, s) == MissGains(p, a, s, Fetches(p), evicts, writes)
           G == [a \in Account |-> [s \in Stat |-> M(a, s)]]
           fetched == IF Fetches(p) THEN 1 ELSE 0
           written == IF writes THEN 1 ELSE 0
<1>1. stats \in [Account -> [Stat -> Nat]] /\ Cached \in Account /\ Cached \in AccountsOf(p)
  BY DEF StatsInv, Account, AccountsOf, Cached
<1>2. Cardinality({i \in 1 .. 2 : <<Fetches(p), writes>>[i]}) = fetched + written
  <2>1. Fetches(p) \in BOOLEAN
    BY PacketPlace, MemoryModelAssumption DEF Fetches
  <2>2. QED  BY <2>1, HowManyHold
<1>3. \A a \in Account, s \in Stat :
        M(a, s) = CASE s = <<"misses", p.cmd>> /\ a[1] # "core" -> 1
                    [] s = <<"memside", p.cmd>> -> fetched + written
                    [] s[1] = "evictions" /\ evicts -> 1
                    [] s[1] = "writebacks" /\ writes -> 1
                    [] OTHER -> 0
  BY <1>2 DEF MissGains
<1> HIDE DEF M
<1>4. \A a \in Account, s \in Stat : G[a][s] = M(a, s) /\ M(a, s) \in Nat
  BY <1>3
<1>5. stats' = Gained(p, G)
  BY DEF MissStats, M
<1> HIDE DEF G
<1>6. \A a \in Account, s \in Stat :
        stats'[a][s] = stats[a][s] + IF a \in AccountsOf(p) THEN M(a, s) ELSE 0
  BY <1>4, <1>5 DEF Gained
<1>7. stats' \in [Account -> [Stat -> Nat]]
  <2>1. stats' = [a \in Account |-> [s \in Stat |->
                    stats[a][s] + IF a \in AccountsOf(p) THEN G[a][s] ELSE 0]]
    BY <1>5 DEF Gained
  <2>2. \A a \in Account, s \in Stat :
          stats[a][s] + (IF a \in AccountsOf(p) THEN G[a][s] ELSE 0) \in Nat
    BY <1>1, <1>4
  <2>3. QED  BY <2>1, <2>2
<1>8. ASSUME NEW s \in Stat, NEW owner \in Owner, owner # "core" \/ s[1] # "misses"
      PROVE  Total(owner, s)' = stats'[Cached][s]
  <2> DEFINE d == M(Cached, s)
             x == <<owner, NumberOf(owner, p)>>
  <2>1. x \in Account
    BY AccountsOfOwner DEF Accounts
  <2>2. M(x, s) = M(Cached, s)
    <3>1. s = <<"misses", p.cmd>> => x[1] # "core" /\ Cached[1] # "core"
      BY <1>8 DEF Cached
    <3>2. QED  BY <1>1, <1>3, <2>1, <3>1
  <2>3. G[x][s] = d /\ d \in Nat
    BY <1>1, <1>4, <2>1, <2>2
  <2>4. Total(owner, s)' = Total(owner, s) + d
    <3> HIDE DEF d
    <3>1. QED  BY <1>1, <1>5, <2>3, TotalGains
  <2>5. QED  BY <1>1, <1>6, <1>8, <2>4 DEF StatsInv
<1>9. /\ sent \in [Cmd -> Nat] /\ sent' \in [Cmd -> Nat]
      /\ sent'["READ"] = sent["READ"] + fetched
      /\ sent'["WRITE"] = sent["WRITE"] + written
  BY DEF Sends, Cmd, StatsInv
<1>10. /\ M(Cached, <<"memside", p.cmd>>) = fetched + written
       /\ \A c \in Cmd \ {p.cmd} : M(Cached, <<"memside", c>>) = 0
       /\ M(Cached, <<"writebacks", "ALL">>) = written
  BY <1>1, <1>3, CommandsCounted, PacketPlace DEF Cmd
<1>11. p.cmd \in {"READ", "WRITE"}
  BY PacketPlace DEF Cmd
<1>12. /\ stats'[Cached][<<"memside", "READ">>] + stats'[Cached][<<"memside", "WRITE">>]
            = stats[Cached][<<"memside", "READ">>] + stats[Cached][<<"memside", "WRITE">>]
                + (fetched + written)
       /\ stats'[Cached][<<"writebacks", "ALL">>] = stats[Cached][<<"writebacks", "ALL">>] + written
  <2>1. \A s \in Stat : stats[Cached][s] \in Nat /\ stats'[Cached][s] = stats[Cached][s] + M(Cached, s)
    BY <1>1, <1>6
  <2>2. CASE p.cmd = "READ"
    BY <1>10, <2>1, <2>2, CommandsCounted DEF Cmd
  <2>3. CASE p.cmd = "WRITE"
    BY <1>10, <2>1, <2>3, CommandsCounted DEF Cmd
  <2>4. QED  BY <1>11, <2>2, <2>3
<1>13. /\ stats'[Cached][<<"memside", "READ">>] + stats'[Cached][<<"memside", "WRITE">>]
            = sent'["READ"] + sent'["WRITE"]
       /\ stats'[Cached][<<"writebacks", "ALL">>] = sent'["WRITE"]
  BY <1>9, <1>12 DEF StatsInv, Cmd
<1>14. QED  BY <1>7, <1>8, <1>9, <1>13 DEF StatsInv, Account, AccountsOf, Stat, Cmd, Cached, Owner

LEMMA NothingCounted ==
    IsFiniteSet(Packets) /\ stats = NoStats /\ sent = [c \in Cmd |-> 0] => StatsInv
<1> SUFFICES ASSUME IsFiniteSet(Packets), stats = NoStats, sent = [c \in Cmd |-> 0]
             PROVE  StatsInv
  OBVIOUS
<1>1. stats \in [Account -> [Stat -> Nat]] /\ Cached \in Account
  BY DEF NoStats, Account, Cached
<1>2. ASSUME NEW owner \in Owner, NEW s \in Stat  PROVE Total(owner, s) = 0
  <2> DEFINE S == Accounts(owner)
             f == Summands(s)
  <2>1. IsFiniteSet(S) /\ \A a \in S : f[a] = 0
    BY AccountsOfOwner DEF Accounts, Summands, NoStats
  <2>2. Total(owner, s) = SumFunctionOnSet(f, S)
    BY DEF Total, Accounts, Summands
  <2>3. QED
    <3> HIDE DEF f, S
    <3>1. QED  BY <2>1, <2>2, SumOfZeros
<1>3. \A s \in Stat : stats[Cached][s] = 0
  BY <1>1 DEF NoStats
<1>4. QED  BY <1>1, <1>2, <1>3, CommandsCounted DEF StatsInv, Cmd

LEMMA StatsInvHolds ==
    ASSUME IsFiniteSet(Packets)
    PROVE  Spec => []StatsInv
<1>1. Init => StatsInv
  BY NothingCounted DEF Init
<1>2. StatsInv /\ CacheInv /\ [Next]_vars => StatsInv'
  <2> SUFFICES ASSUME StatsInv, CacheInv, [Next]_vars  PROVE StatsInv'
    OBVIOUS
  <2>1. ASSUME UNCHANGED <<stats, sent>>  PROVE StatsInv'
    <3>1. \A owner \in Owner, s \in Stat : Total(owner, s)' = Total(owner, s)
      BY <2>1 DEF Total, Account, AccountsOf
    <3>2. QED  BY <2>1, <3>1 DEF StatsInv, Account, AccountsOf, Stat, Cmd, Cached, Owner
  <2>2. ASSUME NEW p \in Packets, Process(p)  PROVE StatsInv'
    <3>1. CASE Hit(p) \/ FilteredHit(p)
      BY <3>1, HitAddsUp DEF Hit, FilteredHit
    <3>2. CASE Miss(p) /\ Bypass(p)
      BY <3>2, MissAddsUp DEF Bypass
    <3>3. CASE Miss(p) /\ Install(p)
      <4> DEFINE b == Block(p)
                 w == Victim(lines[SetOf(b)])
                 l == lines[SetOf(b)][w]
      <4>1. lines[SetOf(b)] \in [Way -> LineState]
        BY PacketPlace DEF CacheInv, Shape
      <4>2. w \in Way
        <5> DEFINE set == lines[SetOf(b)]
        <5>1. set \in [Way -> LineState]
          BY <4>1
        <5> HIDE DEF set
        <5>2. Victim(set) \in Way
          BY <5>1, VictimInSet
        <5>3. QED  BY <5>2 DEF set
      <4>3. l.valid \in BOOLEAN /\ (l.valid /\ l.dirty) \in BOOLEAN
        <5> HIDE DEF w
        <5>1. QED  BY <4>1, <4>2 DEF LineState
      <4>4. stats' = MissStats(p, Fetches(p), l.valid, l.valid /\ l.dirty) /\ Sends(p, l.valid /\ l.dirty)
        BY <3>3 DEF Install
      <4>5. QED
        <5> HIDE DEF l
        <5>1. QED  BY <4>3, <4>4, MissAddsUp
    <3>4. QED  BY <2>2, <3>1, <3>2, <3>3 DEF Process, Miss
  <2>3. CASE EndScene
    <3>1. stats' = NoStats /\ sent' = [c \in Cmd |-> 0]
      BY <2>3 DEF EndScene, ResetStats
    <3>2. (IsFiniteSet(Packets) /\ stats = NoStats /\ sent = [c \in Cmd |-> 0] => StatsInv)'
      BY NothingCounted, PTL
    <3>3. QED  BY <3>1, <3>2
  <2>4. CASE StartNewFrame \/ StartNewScene \/ Abort \/ EndFrame \/ UNCHANGED vars
    BY <2>1, <2>4 DEF StartNewFrame, StartNewScene, Abort, MaskNotUsedUp, UnknownResource, EndFrame, statVars, vars
  <2>5. QED  BY <2>2, <2>3, <2>4 DEF Next
<1>3. QED  BY <1>1, <1>2, CacheInvHolds, PTL DEF Spec

\* The statistics of jobs, of resources and of cores each add up to those of the
\* cache, misses of cores apart, the traffic it counts is what it sent on, and the
\* write backs are the writes among it (base_cache.cc:128-222).
THEOREM HitsAndMissesAddUp ==
    ASSUME IsFiniteSet(Packets)
    PROVE  Spec => []StatsAddUp
<1>1. StatsInv => StatsAddUp
  <2> SUFFICES ASSUME StatsInv  PROVE StatsAddUp
    OBVIOUS
  <2> DEFINE traffic == [c \in Cmd |-> stats[Cached][<<"memside", c>>]]
  <2>1. /\ SumFunctionOnSet(traffic, {"READ", "WRITE"}) = traffic["READ"] + traffic["WRITE"]
        /\ SumFunctionOnSet(sent, {"READ", "WRITE"}) = sent["READ"] + sent["WRITE"]
    <3>1. stats[Cached] \in [Stat -> Nat]
      BY DEF StatsInv, Cached, Account
    <3>2. traffic["READ"] \in Nat /\ traffic["WRITE"] \in Nat
      BY <3>1, CommandsCounted DEF Cmd
    <3>3. sent["READ"] \in Nat /\ sent["WRITE"] \in Nat
      BY DEF StatsInv, Cmd
    <3> HIDE DEF traffic
    <3>4. QED  BY <3>2, <3>3, SumOfTwo
  <2>2. DOMAIN traffic = {"READ", "WRITE"} /\ DOMAIN sent = {"READ", "WRITE"}
    BY DEF StatsInv, Cmd
  <2>3. /\ traffic["READ"] = stats[Cached][<<"memside", "READ">>]
        /\ traffic["WRITE"] = stats[Cached][<<"memside", "WRITE">>]
    BY DEF Cmd
  <2>4. SumFunction(traffic) = SumFunction(sent)
    <3> HIDE DEF traffic
    <3>1. QED  BY <2>1, <2>2, <2>3 DEF SumFunction, StatsInv
  <2>5. QED  BY <2>4 DEF StatsAddUp, StatsInv, Cached, Owner
<1>2. QED  BY <1>1, StatsInvHolds, PTL
===============================================================================
