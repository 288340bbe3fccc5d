---------------------------- MODULE CaptureProofs ----------------------------
(***************************************************************************)
(* What CaptureProperties states, proved for any instructions, accesses,   *)
(* block size, resources, cache size, buffer size and threshold.           *)
(***************************************************************************)
EXTENDS CaptureProperties, TLAPS

(* Blocks are natural numbers.                                             *)
LEMMA DivNat ==
  ASSUME NEW n \in Nat
  PROVE  n \div FilterBlkBytes \in Nat /\ n \div LineBytes \in Nat
  <1>1. FilterBlkBytes \in Nat \ {0}
    BY CaptureAssumption
  <1> QED  BY <1>1 DEF LineBytes

LEMMA BlocksAreNat ==
  ASSUME NEW p, p.addr \in Nat, p.len \in Nat
  PROVE  FirstBlk(p) \in Nat /\ LastItem(p) \in Nat /\ FirstBlk(p) <= LastItem(p)
  <1>1. p.addr \div FilterBlkBytes \in Nat
    BY DivNat
  <1>2. p.len # 0 => (p.len - 1) \div FilterBlkBytes \in Nat
    <2>1. p.len # 0 => p.len - 1 \in Nat  OBVIOUS
    <2> QED  BY <2>1, DivNat
  <1> QED  BY <1>1, <1>2 DEF FirstBlk, LastItem, Blk

LEMMA AccessType ==
  ASSUME NEW i \in Inst, NEW a \in Accesses
  PROVE  /\ a.cmd \in Cmd /\ Line(a.addr) \in Nat
         /\ FirstBlk(a) \in Nat /\ LastBlk(a) \in Nat
         /\ Packet(i, a) \in Packets
  <1>1. a.addr \in Nat /\ a.len \in Nat \ {0} /\ a.cmd \in Cmd
    BY CaptureAssumption
  <1>2. a.addr + a.len - 1 \in Nat /\ Length(a) \in Nat
    BY <1>1 DEF Length
  <1>3. Line(a.addr) \in Nat /\ FirstBlk(a) \in Nat /\ LastBlk(a) \in Nat
    BY <1>1, <1>2, DivNat DEF Line, FirstBlk, LastBlk, Blk
  <1>4. Packet(i, a) \in Packets
    BY <1>1, <1>2 DEF Packet, Packets
  <1> QED  BY <1>1, <1>3, <1>4

LEMMA AlignedType == \A p \in Packets : Aligned(p) \in AlignedPackets
  BY BlocksAreNat DEF Packets, AlignedPackets, Aligned

LEMMA HeadTail ==
  ASSUME NEW S, NEW s \in Seq(S), s # <<>>
  PROVE  /\ Len(s) \in Nat /\ Len(s) >= 1 /\ Head(s) = s[1] /\ Head(s) \in S
         /\ Tail(s) \in Seq(S) /\ Len(Tail(s)) = Len(s) - 1
         /\ \A k \in 1 .. Len(s) - 1 : Tail(s)[k] = s[k + 1]
  OBVIOUS

-----------------------------------------------------------------------------
(* Type correctness.  Nothing is buffered between two jobs.                *)
BuffersHaveJob == job = "none" => Drained
TypeInv == TypeOK /\ BuffersHaveJob

LEMMA TypeInit == Init => TypeInv
  <1> SUFFICES ASSUME Init PROVE TypeInv
    OBVIOUS
  <1>1. inst \in [Inst -> [filter : BOOLEAN, misses : Nat, hit : BOOLEAN]]
    <2>1. \A hit \in BOOLEAN : NewInst(hit) \in [filter : BOOLEAN, misses : Nat, hit : BOOLEAN]
      BY DEF NewInst
    <2>2. {NewInst(hit) : hit \in BOOLEAN} \subseteq [filter : BOOLEAN, misses : Nat, hit : BOOLEAN]
      BY <2>1
    <2> QED  BY <2>2 DEF Init
  <1>2. front \in Seq(Packets) /\ back \in Seq(AlignedPackets) /\ Drained
    BY DEF Init, Drained
  <1>3. fetch \in BOOLEAN /\ start \in Nat
    BY CaptureAssumption DEF Init
  <1> QED  BY <1>1, <1>2, <1>3 DEF Init, TypeInv, TypeOK, BuffersHaveJob, Dev

LEMMA TypeStep == TypeInv /\ [Next]_vars => TypeInv'
  <1> SUFFICES ASSUME TypeInv, [Next]_vars PROVE TypeInv'
    OBVIOUS
  <1> USE DEF TypeInv, TypeOK, BuffersHaveJob, Drained
  <1>1. ASSUME NEW i \in Inst, NEW a \in Accesses, Access(i, a) PROVE TypeInv'
    <2>1. /\ UNCHANGED <<fetch, instVars, start, job, back, alive, unborn, lines>>
          /\ job # "none"
      BY <1>1 DEF Access, cacheVars
    <2>2. CASE Skip(i, a) \/ Swallow(i, a)
      <3>1. UNCHANGED <<lineBuffer, front>>
        BY <2>2 DEF Skip, Swallow
      <3> QED  BY <2>1, <3>1 DEF instVars
    <2>3. CASE HandOn(i, a)
      <3>1. front' \in Seq(Packets)
        <4>1. Append(front, Packet(i, a)) \in Seq(Packets)
          BY AccessType
        <4> QED  BY <2>3, <4>1 DEF HandOn
      <3>2. lineBuffer' \in [line : Nat, dirty : BOOLEAN]
        <4>1. (a.cmd = "WRITE") \in BOOLEAN
          OBVIOUS
        <4>2. [line |-> Line(a.addr), dirty |-> a.cmd = "WRITE"] \in [line : Nat, dirty : BOOLEAN]
          BY AccessType, <4>1
        <4> QED  BY <2>3, <4>2 DEF HandOn
      <3> QED  BY <2>1, <3>1, <3>2 DEF instVars
    <2> QED  BY <1>1, <2>2, <2>3 DEF Access
  <1>2. CASE HandOver
    <2>1. back' \in Seq(AlignedPackets)
      BY <1>2, AlignedType DEF HandOver
    <2> QED  BY <1>2, <2>1 DEF HandOver, instVars, cacheVars, historyVars
  <1>3. CASE FilterItem
    <2> DEFINE p == Head(back)
    <2>0. back # <<>>
      BY <1>3 DEF FilterItem
    <2>1. p \in AlignedPackets /\ p.inst \in Inst /\ p.blk \in Nat
      <3>1. p \in AlignedPackets
        BY <2>0, HeadTail
      <3> QED  BY <3>1 DEF AlignedPackets
    <2>2. back' \in Seq(AlignedPackets) /\ job # "none"
      <3>1. CASE p.blk < p.last
        <4>1. [p EXCEPT !.blk = @ + 1] \in AlignedPackets
          <5>1. p.blk + 1 \in Nat
            BY <2>1
          <5> QED  BY <2>1, <5>1 DEF AlignedPackets
        <4>2. back' = [back EXCEPT ![1] = [p EXCEPT !.blk = @ + 1]]
          BY <1>3, <2>0, <3>1, HeadTail DEF FilterItem
        <4> QED  BY <1>3, <2>0, <4>1, <4>2
      <3>2. CASE ~ p.blk < p.last
        BY <1>3, <2>0, <3>2, HeadTail DEF FilterItem
      <3> QED  BY <3>1, <3>2
    <2>3. ASSUME MissesResource(p)
          PROVE  /\ inst' \in [Inst -> [filter : BOOLEAN, misses : Nat, hit : BOOLEAN]]
                 /\ lines' = lines
      <3>1. inst' = [inst EXCEPT ![p.inst].misses = @ + 1] /\ lines' = lines
        BY <2>3 DEF MissesResource, cacheVars
      <3>2. [inst[p.inst] EXCEPT !.misses = @ + 1] \in [filter : BOOLEAN, misses : Nat, hit : BOOLEAN]
        <4>1. inst[p.inst] \in [filter : BOOLEAN, misses : Nat, hit : BOOLEAN]
          BY <2>1
        <4>2. inst[p.inst].misses + 1 \in Nat
          BY <4>1
        <4> QED  BY <4>1, <4>2
      <3> QED  BY <2>1, <3>1, <3>2
    <2>4. ASSUME NEW r \in RscOf(p.blk), Hit(p, r) \/ Miss(p, r)
          PROVE  lines' \subseteq [dev : Dev, blk : Nat, rsc : DOMAIN Rsc, dirty : BOOLEAN]
      <3>1. r \in DOMAIN Rsc
        BY DEF RscOf
      <3>2. CASE Hit(p, r)
        <4>1. PICK l \in lines : lines' = (lines \ {l}) \cup {[l EXCEPT !.dirty = @ \/ p.cmd = "WRITE"]}
          BY <3>2 DEF Hit
        <4>2. (l.dirty \/ p.cmd = "WRITE") \in BOOLEAN
          OBVIOUS
        <4>3. [l EXCEPT !.dirty = @ \/ p.cmd = "WRITE"] \in [dev : Dev, blk : Nat, rsc : DOMAIN Rsc, dirty : BOOLEAN]
          BY <4>2
        <4> QED  BY <4>1, <4>3
      <3>3. CASE Miss(p, r)
        <4>1. job \in Dev
          BY <2>2
        <4>2. (p.cmd = "WRITE") \in BOOLEAN
          OBVIOUS
        <4>3. [dev |-> job, blk |-> p.blk, rsc |-> r, dirty |-> p.cmd = "WRITE"]
                \in [dev : Dev, blk : Nat, rsc : DOMAIN Rsc, dirty : BOOLEAN]
          BY <2>1, <3>1, <4>1, <4>2
        <4>4. \E victims : lines' = (lines \ victims) \cup
                  {[dev |-> job, blk |-> p.blk, rsc |-> r, dirty |-> p.cmd = "WRITE"]}
          BY <3>3 DEF Miss
        <4> QED  BY <4>3, <4>4
      <3> QED  BY <2>4, <3>2, <3>3
    <2>5. ASSUME MeetsResource(p)
          PROVE  /\ inst' \in [Inst -> [filter : BOOLEAN, misses : Nat, hit : BOOLEAN]]
                 /\ lines' \subseteq [dev : Dev, blk : Nat, rsc : DOMAIN Rsc, dirty : BOOLEAN]
      BY <2>1, <2>4, <2>5 DEF MeetsResource
    <2> QED  BY <1>3, <2>2, <2>3, <2>5 DEF FilterItem
  <1>4. CASE Pause
    BY <1>4 DEF Pause, FlushFilterCaches, instVars, pipeVars, historyVars
  <1>5. CASE EndJob
    BY <1>5 DEF EndJob, FlushFilterCaches, instVars, pipeVars, historyVars
  <1>6. CASE SwapBuffers
    <2>1. inst' \in [Inst -> [filter : BOOLEAN, misses : Nat, hit : BOOLEAN]] /\ newCode' \in BOOLEAN
      <3>1. \A i \in Inst : Prunable(i) \in BOOLEAN
        BY DEF Prunable
      <3> QED  BY <1>6, <3>1 DEF SwapBuffers, Prune, Reset
    <2> QED  BY <1>6, <2>1 DEF SwapBuffers, pipeVars, historyVars
  <1>7. ASSUME NEW d \in Dev, NewJob(d) PROVE TypeInv'
    BY <1>7 DEF NewJob, instVars, pipeVars
  <1>8. ASSUME NEW r \in DOMAIN Rsc, ResourceCreate(r) PROVE TypeInv'
    BY <1>8 DEF ResourceCreate, FlushFilterCaches, instVars, pipeVars
  <1>9. ASSUME NEW r \in DOMAIN Rsc, ResourceDestroy(r) PROVE TypeInv'
    BY <1>9 DEF ResourceDestroy, FlushFilterCaches, instVars, pipeVars, historyVars
  <1>10. ASSUME NEW i \in Inst, NewCode(i) PROVE TypeInv'
    <2>1. inst' \in [Inst -> [filter : BOOLEAN, misses : Nat, hit : BOOLEAN]]
      BY <1>10 DEF NewCode, Reset
    <2> QED  BY <1>10, <2>1 DEF NewCode, pipeVars, cacheVars, historyVars
  <1>11. CASE Ended \/ UNCHANGED vars
    BY <1>11 DEF Ended, vars, instVars, pipeVars, cacheVars, historyVars
  <1> QED
    BY <1>1, <1>2, <1>3, <1>4, <1>5, <1>6, <1>7, <1>8, <1>9, <1>10, <1>11 DEF Next

(* Every reachable state is well typed.                                    *)
THEOREM TypeCorrect == Spec => []TypeOK
  <1>1. TypeInv => TypeOK
    BY DEF TypeInv
  <1> QED  BY <1>1, TypeInit, TypeStep, PTL DEF Spec

-----------------------------------------------------------------------------
(* Pruning.  A block of a user that the filter thread has not seen yet is  *)
(* in a packet of one of the buffers, and its resource stays until it is.  *)
InFront(i) == \E k \in DOMAIN front : front[k].inst = i /\ OnResource(Items(front[k])) # {}
InBack(i) ==
  \E k \in DOMAIN back : back[k].inst = i /\ OnResource(back[k].blk .. back[k].last) # {}

UsersSeen == users \subseteq Inst /\ \A i \in users : inst[i].hit \/ InFront(i) \/ InBack(i)

PruneInv == TypeInv /\ UsersSeen /\ NoBufferedUseIsPruned

(* A step that leaves the buffers, or finds them empty, keeps them so.     *)
LEMMA UsersStay ==
  ASSUME PruneInv, users' = users, \A i \in Inst : inst'[i].hit = inst[i].hit,
         UNCHANGED <<front, back>>, alive' = alive \/ Drained
  PROVE  UsersSeen'
  <1>1. CASE alive' = alive
    BY <1>1 DEF PruneInv, UsersSeen, InFront, InBack, OnResource, RscOf
  <1>2. CASE Drained
    <2>1. \A i \in users : ~ InFront(i) /\ ~ InBack(i)
      BY <1>2 DEF Drained, InFront, InBack
    <2> QED  BY <2>1 DEF PruneInv, UsersSeen
  <1> QED  BY <1>1, <1>2

LEMMA PruneStep == PruneInv /\ [Next]_vars => UsersSeen' /\ NoBufferedUseIsPruned'
  <1> SUFFICES ASSUME PruneInv, [Next]_vars PROVE UsersSeen' /\ NoBufferedUseIsPruned'
    OBVIOUS
  <1> DEFINE Goal == UsersSeen' /\ NoBufferedUseIsPruned'
  <1>0. TypeOK /\ users \subseteq Inst
    BY DEF PruneInv, TypeInv, UsersSeen
  <1>a. ASSUME users' = users, inst' = inst, UNCHANGED <<front, back>>, alive' = alive \/ Drained
        PROVE  Goal
    BY <1>a, UsersStay DEF PruneInv, NoBufferedUseIsPruned
  <1>1. ASSUME NEW i \in Inst, NEW a \in Accesses, Access(i, a) PROVE Goal
    <2> DEFINE pkt == Packet(i, a)
    <2>1. inst' = inst /\ back' = back /\ alive' = alive
      BY <1>1 DEF Access, instVars
    <2>2. CASE Skip(i, a) \/ Swallow(i, a)
      BY <2>1, <2>2, <1>a DEF Skip, Swallow
    <2>3. CASE HandOn(i, a)
      <3>1. /\ front' = Append(front, pkt) /\ ~ inst[i].filter
            /\ users' = IF OnResource(Items(pkt)) # {} THEN users \cup {i} ELSE users
        BY <2>3 DEF HandOn
      <3>2. pkt \in Packets /\ pkt.inst = i
        BY AccessType DEF Packet
      <3>3. /\ \A k \in DOMAIN front : k \in DOMAIN front' /\ front'[k] = front[k]
            /\ Len(front) + 1 \in DOMAIN front' /\ front'[Len(front) + 1] = pkt
        BY <3>1, <3>2, <1>0 DEF TypeOK
      <3>4. ASSUME OnResource(Items(pkt)) # {} PROVE InFront(i)'
        BY <2>1, <3>2, <3>3, <3>4 DEF InFront, OnResource, RscOf
      <3>5. ASSUME NEW j \in users PROVE inst'[j].hit \/ InFront(j)' \/ InBack(j)'
        <4>1. CASE InFront(j)
          BY <2>1, <3>3, <4>1 DEF InFront, OnResource, RscOf
        <4>2. CASE inst[j].hit \/ InBack(j)
          BY <2>1, <4>2 DEF InBack, OnResource, RscOf
        <4> QED  BY <3>5, <4>1, <4>2 DEF PruneInv, UsersSeen
      <3>6. UsersSeen'
        BY <1>0, <3>1, <3>4, <3>5 DEF UsersSeen
      <3>7. NoBufferedUseIsPruned'
        BY <2>1, <3>1 DEF PruneInv, NoBufferedUseIsPruned
      <3> QED  BY <3>6, <3>7
    <2> QED  BY <1>1, <2>2, <2>3 DEF Access
  <1>2. CASE HandOver
    <2>1. /\ inst' = inst /\ alive' = alive /\ users' = users
          /\ back = <<>> /\ back' = [k \in DOMAIN front |-> Aligned(front[k])]
      BY <1>2 DEF HandOver, instVars, historyVars
    <2>2. ASSUME NEW j \in users, InFront(j) PROVE InBack(j)'
      <3>1. PICK k \in DOMAIN front : front[k].inst = j /\ OnResource(Items(front[k])) # {}
        BY <2>2 DEF InFront
      <3>2. /\ k \in DOMAIN back' /\ back'[k].inst = j
            /\ back'[k].blk .. back'[k].last = Items(front[k])
        BY <2>1, <3>1 DEF Aligned, Items
      <3> QED  BY <2>1, <3>1, <3>2 DEF InBack, OnResource, RscOf
    <2>3. \A j \in users : ~ InBack(j)
      BY <2>1 DEF InBack
    <2> QED  BY <2>1, <2>2, <2>3 DEF PruneInv, UsersSeen, NoBufferedUseIsPruned
  <1>3. CASE FilterItem
    <2> DEFINE p == Head(back)
    <2>1. /\ back # <<>> /\ front' = front /\ alive' = alive /\ users' = users
          /\ back' = IF p.blk < p.last THEN [back EXCEPT ![1].blk = @ + 1] ELSE Tail(back)
      BY <1>3 DEF FilterItem, historyVars
    <2>2. /\ Len(back) \in Nat /\ Len(back) >= 1 /\ p = back[1] /\ p \in AlignedPackets
          /\ DOMAIN back = 1 .. Len(back)
          /\ Len(Tail(back)) = Len(back) - 1 /\ DOMAIN Tail(back) = 1 .. Len(back) - 1
          /\ \A k \in 1 .. Len(back) - 1 : Tail(back)[k] = back[k + 1]
      BY <1>0, <2>1, HeadTail DEF TypeOK
    <2>3. \A i \in Inst : inst'[i].filter = inst[i].filter /\ (inst[i].hit => inst'[i].hit)
      <3>1. CASE MissesResource(p)
        BY <3>1, <1>0 DEF MissesResource, TypeOK
      <3>2. CASE MeetsResource(p)
        BY <3>2, <1>0 DEF MeetsResource, TypeOK
      <3> QED  BY <1>3, <3>1, <3>2 DEF FilterItem
    <2>4. ASSUME RscOf(p.blk) # {} PROVE inst'[p.inst].hit
      <3>1. MeetsResource(p)
        BY <1>3, <2>4 DEF FilterItem, MissesResource
      <3>2. p.inst \in Inst
        BY <2>2 DEF AlignedPackets
      <3> QED  BY <3>1, <3>2, <1>0 DEF MeetsResource, TypeOK
    <2>5. ASSUME NEW j \in users PROVE inst'[j].hit \/ InFront(j)' \/ InBack(j)'
      <3>1. CASE inst[j].hit
        BY <1>0, <2>3, <3>1
      <3>2. CASE InFront(j)
        BY <2>1, <3>2 DEF InFront, OnResource, RscOf
      <3>3. CASE InBack(j)
        <4>1. PICK k \in DOMAIN back : /\ back[k].inst = j
                                       /\ OnResource(back[k].blk .. back[k].last) # {}
          BY <3>3 DEF InBack
        <4>2. PICK b \in back[k].blk .. back[k].last : RscOf(b) # {}
          BY <4>1 DEF OnResource
        <4>3. ASSUME NEW m \in DOMAIN back', back'[m].inst = j,
                     b \in back'[m].blk .. back'[m].last
              PROVE  InBack(j)'
          BY <2>1, <4>2, <4>3 DEF InBack, OnResource, RscOf
        <4>4. CASE k = 1 /\ b = p.blk
          BY <2>2, <2>4, <4>1, <4>2, <4>4
        <4>5. CASE k = 1 /\ b # p.blk
          <5>1. p.blk \in Nat /\ p.last \in Nat /\ b \in p.blk + 1 .. p.last /\ p.inst = j
            BY <2>2, <4>1, <4>2, <4>5 DEF AlignedPackets
          <5>2. back' = [back EXCEPT ![1].blk = @ + 1]
            BY <2>1, <5>1
          <5>3. /\ 1 \in DOMAIN back' /\ back'[1].inst = j
                /\ back'[1].blk = p.blk + 1 /\ back'[1].last = p.last
            BY <2>2, <5>1, <5>2 DEF AlignedPackets
          <5> QED  BY <4>3, <5>1, <5>3
        <4>6. CASE k # 1
          <5>1. k - 1 \in 1 .. Len(back) - 1 /\ k - 1 + 1 = k /\ k \in 1 .. Len(back)
            BY <2>2, <4>6
          <5>2. CASE p.blk < p.last
            <6>1. k \in DOMAIN back' /\ back'[k] = back[k]
              BY <2>1, <5>1, <5>2, <2>2, <4>6
            <6> QED  BY <4>1, <4>2, <4>3, <6>1
          <5>3. CASE ~ p.blk < p.last
            <6>1. k - 1 \in DOMAIN back' /\ back'[k - 1] = back[k]
              BY <2>1, <2>2, <5>1, <5>3
            <6> QED  BY <4>1, <4>2, <4>3, <6>1
          <5> QED  BY <5>2, <5>3
        <4> QED  BY <4>4, <4>5, <4>6
      <3> QED  BY <3>1, <3>2, <3>3 DEF PruneInv, UsersSeen
    <2>6. UsersSeen'
      BY <1>0, <2>1, <2>5 DEF UsersSeen
    <2>7. NoBufferedUseIsPruned'
      BY <2>1, <2>3 DEF PruneInv, NoBufferedUseIsPruned
    <2> QED  BY <2>6, <2>7
  <1>4. CASE Pause
    BY <1>4, <1>a DEF Pause, instVars, pipeVars, historyVars
  <1>5. CASE EndJob
    BY <1>5, <1>a DEF EndJob, instVars, pipeVars, historyVars
  <1>6. CASE SwapBuffers
    <2>1. /\ Drained /\ alive' = alive /\ users' = users /\ UNCHANGED <<front, back>> /\ Prune
      BY <1>6 DEF SwapBuffers, pipeVars, historyVars
    <2>2. \A i \in users : inst[i].hit
      BY <2>1 DEF Drained, PruneInv, UsersSeen, InFront, InBack
    <2>3. \A i \in Inst : inst'[i].hit = inst[i].hit
      BY <1>0, <2>1 DEF Prune, Reset, TypeOK
    <2>4. \A i \in Inst : inst'[i].filter => inst[i].filter \/ ~ inst[i].hit
      <3> SUFFICES ASSUME NEW i \in Inst, inst'[i].filter, inst[i].hit PROVE inst[i].filter
        OBVIOUS
      <3>1. ~ Prunable(i)
        BY DEF Prunable
      <3> QED  BY <1>0, <2>1, <3>1 DEF Prune, Reset, TypeOK
    <2>5. UsersSeen'
      BY <2>1, <2>3, UsersStay
    <2>6. NoBufferedUseIsPruned'
      BY <2>1, <2>2, <2>4 DEF PruneInv, NoBufferedUseIsPruned
    <2> QED  BY <2>5, <2>6
  <1>7. ASSUME NEW d \in Dev, NewJob(d) PROVE Goal
    BY <1>7, <1>a DEF NewJob, instVars, pipeVars
  <1>8. ASSUME NEW r \in DOMAIN Rsc, ResourceCreate(r) PROVE Goal
    BY <1>8, <1>a DEF ResourceCreate, instVars, pipeVars
  <1>9. ASSUME NEW r \in DOMAIN Rsc, ResourceDestroy(r) PROVE Goal
    BY <1>9, <1>a DEF ResourceDestroy, instVars, pipeVars, historyVars
  <1>10. ASSUME NEW i \in Inst, NewCode(i) PROVE Goal
    <2>1. /\ alive' = alive /\ users' = users /\ UNCHANGED <<front, back>>
      BY <1>10 DEF NewCode, pipeVars, historyVars
    <2>2. \A k \in Inst : inst'[k].hit = inst[k].hit /\ (inst'[k].filter => inst[k].filter)
      BY <1>10, <1>0 DEF NewCode, Reset, TypeOK
    <2>3. UsersSeen'
      BY <2>1, <2>2, UsersStay
    <2> QED  BY <2>1, <2>2, <2>3 DEF PruneInv, NoBufferedUseIsPruned
  <1>11. CASE Ended \/ UNCHANGED vars
    BY <1>11, <1>a DEF Ended, vars, instVars, pipeVars, historyVars
  <1> QED
    BY <1>1, <1>2, <1>3, <1>4, <1>5, <1>6, <1>7, <1>8, <1>9, <1>10, <1>11 DEF Next

(* Automatic pruning filters no instruction that handed on an access with  *)
(* a block on a resource, however the accesses are buffered.  What the     *)
(* line buffer swallows is not handed on: NoBufferedUseIsPruned.           *)
THEOREM PruningSeesBuffers == Spec => []NoBufferedUseIsPruned
  <1>1. Init => PruneInv
    <2> SUFFICES ASSUME Init PROVE UsersSeen /\ NoBufferedUseIsPruned
      BY TypeInit DEF PruneInv
    <2> QED  BY DEF Init, UsersSeen, NoBufferedUseIsPruned
  <1>2. PruneInv /\ [Next]_vars => PruneInv'
    BY TypeStep, PruneStep DEF PruneInv
  <1>3. PruneInv => NoBufferedUseIsPruned
    BY DEF PruneInv
  <1> QED  BY <1>1, <1>2, <1>3, PTL DEF Spec

-----------------------------------------------------------------------------
(* The reports.  A dirty line is a write the filter caches still hold back; *)
(* with it, the cores' marks and those past the caches agree at any time.   *)
HasDirty(ls, r, b) == \E l \in ls : l.dirty /\ l.rsc = r /\ l.blk = b

Agree(marks, ls, r, b) ==
  /\ <<r, b, "coreWrite">> \in marks <=> <<r, b, "gpuWrite">> \in marks \/ HasDirty(ls, r, b)
  /\ <<r, b, "coreRead">> \in marks \/ <<r, b, "coreWrite">> \in marks <=>
     <<r, b, "gpuRead">> \in marks \/ <<r, b, "gpuWrite">> \in marks \/ HasDirty(ls, r, b)

Consistent(marks, ls) == \A r \in DOMAIN Rsc : \A b \in Rsc[r] : Agree(marks, ls, r, b)

Disjoint == \A r, s \in alive : r # s => Rsc[r] \cap Rsc[s] = {}
LinesLive == \A l \in lines : l.rsc \in alive /\ l.blk \in Rsc[l.rsc]
CleanFetched == \A l \in lines : ~ l.dirty => <<l.rsc, l.blk, "gpuRead">> \in touched

ReportInv ==
  /\ TypeInv
  /\ Disjoint /\ LinesLive
  /\ Consistent(touched, lines) /\ CleanFetched
  /\ ReportsAgree

LEMMA InWriteMarks ==
  ASSUME NEW ls, NEW r, NEW b
  PROVE  /\ <<r, b, "gpuWrite">> \in WriteMarks(ls) <=> HasDirty(ls, r, b)
         /\ \A m \in {"coreRead", "coreWrite", "gpuRead"} : <<r, b, m>> \notin WriteMarks(ls)
  BY DEF WriteMarks, Dirty, HasDirty

(* Flushing lines turns what they hold back into marks.                    *)
LEMMA FlushAgrees ==
  ASSUME NEW marks, NEW ls, Consistent(marks, ls)
  PROVE  Consistent(marks \cup WriteMarks(ls), {})
  <1> SUFFICES ASSUME NEW r \in DOMAIN Rsc, NEW b \in Rsc[r]
               PROVE  Agree(marks \cup WriteMarks(ls), {}, r, b)
    BY DEF Consistent
  <1>1. Agree(marks, ls, r, b)
    BY DEF Consistent
  <1>2. ~ HasDirty({}, r, b)
    BY DEF HasDirty
  <1> QED  BY <1>1, <1>2, InWriteMarks DEF Agree

LEMMA AgreeingMarks ==
  ASSUME NEW marks, report' = marks, Consistent(marks, {})
  PROVE  ReportsAgree'
  <1> SUFFICES ASSUME NEW r \in DOMAIN Rsc, NEW b \in Rsc[r]
      PROVE  /\ "coreWrite" \in Marks(r, b)' <=> "gpuWrite" \in Marks(r, b)'
             /\ {"coreRead", "coreWrite"} \cap Marks(r, b)' # {} <=>
                {"gpuRead", "gpuWrite"} \cap Marks(r, b)' # {}
    BY DEF ReportsAgree
  <1>1. Agree(marks, {}, r, b) /\ ~ HasDirty({}, r, b)
    BY DEF Consistent, HasDirty
  <1>2. \A m \in {"coreRead", "coreWrite", "gpuRead", "gpuWrite"} :
            m \in Marks(r, b)' <=> <<r, b, m>> \in marks
    BY DEF Marks
  <1> QED  BY <1>1, <1>2 DEF Agree

LEMMA ReportStep == ReportInv /\ [Next]_vars => ReportInv'
  <1> SUFFICES ASSUME ReportInv, [Next]_vars PROVE ReportInv'
    OBVIOUS
  <1>0. TypeInv' /\ TypeOK
    BY TypeStep DEF ReportInv, TypeInv
  <1>a. ASSUME UNCHANGED <<alive, lines, touched, report>> PROVE ReportInv'
    BY <1>0, <1>a DEF ReportInv, Disjoint, LinesLive, CleanFetched, ReportsAgree, Marks
  <1>b. ASSUME FlushFilterCaches, report' = report, Disjoint' PROVE ReportInv'
    <2>1. lines' = {} /\ touched' = touched \cup WriteMarks(lines)
      BY <1>b DEF FlushFilterCaches
    <2>2. Consistent(touched, lines)'
      BY <2>1, FlushAgrees DEF ReportInv
    <2> QED  BY <1>0, <1>b, <2>1, <2>2 DEF ReportInv, LinesLive, CleanFetched, ReportsAgree, Marks
  <1>1. ASSUME NEW i \in Inst, NEW a \in Accesses, Access(i, a) PROVE ReportInv'
    BY <1>1, <1>a DEF Access, cacheVars
  <1>2. CASE HandOver
    BY <1>2, <1>a DEF HandOver, cacheVars
  <1>3. CASE FilterItem
    <2> DEFINE p == Head(back)
    <2>1. alive' = alive /\ report' = report /\ back # <<>>
      BY <1>3 DEF FilterItem
    <2>2. p \in AlignedPackets /\ p.cmd \in Cmd
      <3>1. p \in AlignedPackets
        BY <1>0, <2>1, HeadTail DEF TypeOK
      <3> QED  BY <3>1 DEF AlignedPackets
    <2>3. CASE MissesResource(p)
      BY <2>1, <2>3, <1>a DEF MissesResource, cacheVars
    <2>4. ASSUME NEW r \in RscOf(p.blk), Hit(p, r) \/ Miss(p, r) PROVE ReportInv'
      <3>1. /\ r \in alive /\ p.blk \in Rsc[r]
            /\ \A l \in lines : l.blk = p.blk => l.rsc = r
        BY DEF RscOf, ReportInv, Disjoint, LinesLive
      <3> DEFINE write == p.cmd = "WRITE"
                 core == <<r, p.blk, CoreMark(p.cmd)>>
      <3>2. core = IF write THEN <<r, p.blk, "coreWrite">> ELSE <<r, p.blk, "coreRead">>
        BY <2>2 DEF CoreMark, Cmd
      <3>3. CASE Hit(p, r)
        <4>1. PICK l \in lines : /\ l.dev = job /\ l.blk = p.blk
                                 /\ lines' = (lines \ {l}) \cup {[l EXCEPT !.dirty = @ \/ write]}
          BY <3>3 DEF Hit
        <4> DEFINE new == [l EXCEPT !.dirty = @ \/ write]
        <4>2. l \in [dev : Dev, blk : Nat, rsc : DOMAIN Rsc, dirty : BOOLEAN] /\ l.rsc = r
          BY <1>0, <3>1, <4>1 DEF TypeOK
        <4>3. new.rsc = r /\ new.blk = p.blk /\ (new.dirty <=> l.dirty \/ write)
          BY <4>1, <4>2
        <4>4. touched' = touched \cup {core}
          BY <3>3 DEF Hit
        <4>5. \A s, b : HasDirty(lines', s, b) <=>
                HasDirty(lines, s, b) \/ (s = r /\ b = p.blk /\ new.dirty)
          BY <4>1, <4>2, <4>3 DEF HasDirty
        <4>6. ~ new.dirty => <<r, p.blk, "gpuRead">> \in touched
          BY <4>1, <4>2, <4>3 DEF ReportInv, CleanFetched
        <4>7. new.dirty => HasDirty(lines, r, p.blk) \/ write
          BY <4>1, <4>2, <4>3 DEF HasDirty
        <4>8. Consistent(touched', lines')
          <5> SUFFICES ASSUME NEW s \in DOMAIN Rsc, NEW b \in Rsc[s]
                       PROVE  Agree(touched', lines', s, b)
            BY DEF Consistent
          <5>1. Agree(touched, lines, s, b)
            BY DEF ReportInv, Consistent
          <5>2. CASE s = r /\ b = p.blk
            BY <5>1, <5>2, <3>2, <4>3, <4>4, <4>5, <4>6, <4>7 DEF Agree
          <5>3. CASE ~ (s = r /\ b = p.blk)
            BY <5>1, <5>3, <3>2, <4>4, <4>5 DEF Agree
          <5> QED  BY <5>2, <5>3
        <4>9. LinesLive'
          BY <2>1, <3>1, <4>1, <4>3 DEF ReportInv, LinesLive
        <4>10. CleanFetched'
          BY <4>1, <4>3, <4>4, <4>6 DEF ReportInv, CleanFetched
        <4> QED  BY <1>0, <2>1, <4>8, <4>9, <4>10 DEF ReportInv, Disjoint, ReportsAgree, Marks
      <3>4. CASE Miss(p, r)
        <4> DEFINE new == [dev |-> job, blk |-> p.blk, rsc |-> r, dirty |-> write]
                   fetched == p.cmd = "READ" \/ fetch
        <4>1. PICK victims \in SUBSET {l \in lines : l.dev = job} :
                /\ lines' = (lines \ victims) \cup {new}
                /\ touched' = touched \cup WriteMarks(victims) \cup {core}
                              \cup (IF fetched THEN {<<r, p.blk, "gpuRead">>} ELSE {})
          BY <3>4 DEF Miss
        <4>2. new.rsc = r /\ new.blk = p.blk /\ (new.dirty <=> write) /\ (~ write => fetched)
          BY <2>2 DEF Cmd
        <4>3. \A s, b : HasDirty(lines', s, b) \/ HasDirty(victims, s, b) <=>
                HasDirty(lines, s, b) \/ (s = r /\ b = p.blk /\ write)
          BY <4>1, <4>2 DEF HasDirty
        <4>4. /\ \A s, b : <<s, b, "gpuWrite">> \in touched' <=>
                    <<s, b, "gpuWrite">> \in touched \/ HasDirty(victims, s, b)
              /\ \A s, b : <<s, b, "gpuRead">> \in touched' <=>
                    <<s, b, "gpuRead">> \in touched \/ (fetched /\ s = r /\ b = p.blk)
              /\ \A s, b : <<s, b, "coreWrite">> \in touched' <=>
                    <<s, b, "coreWrite">> \in touched \/ (write /\ s = r /\ b = p.blk)
              /\ \A s, b : <<s, b, "coreRead">> \in touched' <=>
                    <<s, b, "coreRead">> \in touched \/ (~ write /\ s = r /\ b = p.blk)
          BY <3>2, <4>1, InWriteMarks
        <4>5. Consistent(touched', lines')
          <5> SUFFICES ASSUME NEW s \in DOMAIN Rsc, NEW b \in Rsc[s]
                       PROVE  Agree(touched', lines', s, b)
            BY DEF Consistent
          <5>1. Agree(touched, lines, s, b)
            BY DEF ReportInv, Consistent
          <5> QED  BY <5>1, <4>2, <4>3, <4>4 DEF Agree
        <4>6. LinesLive'
          BY <2>1, <3>1, <4>1, <4>2 DEF ReportInv, LinesLive
        <4>7. CleanFetched'
          BY <4>1, <4>2, <4>4 DEF ReportInv, CleanFetched
        <4> QED  BY <1>0, <2>1, <4>5, <4>6, <4>7 DEF ReportInv, Disjoint, ReportsAgree, Marks
      <3> QED  BY <2>4, <3>3, <3>4
    <2> QED  BY <1>3, <2>3, <2>4 DEF FilterItem, MeetsResource
  <1>4. CASE Pause
    BY <1>4, <1>b DEF Pause, ReportInv, Disjoint
  <1>5. CASE EndJob
    BY <1>5, <1>b DEF EndJob, ReportInv, Disjoint
  <1>6. CASE SwapBuffers
    <2>1. /\ alive' = alive /\ lines' = {} /\ touched' = {}
          /\ report' = touched \cup WriteMarks(lines)
      BY <1>6 DEF SwapBuffers, FrameMarks
    <2>2. ReportsAgree'
      BY <2>1, FlushAgrees, AgreeingMarks DEF ReportInv
    <2>3. Consistent(touched, lines)'
      BY <2>1 DEF Consistent, Agree, HasDirty
    <2> QED  BY <1>0, <2>1, <2>2, <2>3 DEF ReportInv, Disjoint, LinesLive, CleanFetched
  <1>7. ASSUME NEW d \in Dev, NewJob(d) PROVE ReportInv'
    BY <1>7, <1>a DEF NewJob
  <1>8. ASSUME NEW r \in DOMAIN Rsc, ResourceCreate(r) PROVE ReportInv'
    <2>1. Disjoint'
      BY <1>8 DEF ResourceCreate, ReportInv, Disjoint
    <2> QED  BY <1>8, <1>b, <2>1 DEF ResourceCreate
  <1>9. ASSUME NEW r \in DOMAIN Rsc, ResourceDestroy(r) PROVE ReportInv'
    <2>1. Disjoint'
      BY <1>9 DEF ResourceDestroy, ReportInv, Disjoint
    <2> QED  BY <1>9, <1>b, <2>1 DEF ResourceDestroy
  <1>10. ASSUME NEW i \in Inst, NewCode(i) PROVE ReportInv'
    BY <1>10, <1>a DEF NewCode, cacheVars
  <1>11. CASE Ended \/ UNCHANGED vars
    BY <1>11, <1>a DEF Ended, vars, cacheVars
  <1> QED
    BY <1>1, <1>2, <1>3, <1>4, <1>5, <1>6, <1>7, <1>8, <1>9, <1>10, <1>11 DEF Next

(* In every frame's report the blocks the cores used are the blocks that   *)
(* went past the filter caches, as written or not: ReportsAgree.           *)
THEOREM ReportsAlwaysAgree == Spec => []ReportsAgree
  <1>1. Init => ReportInv
    <2> SUFFICES ASSUME Init
                 PROVE  /\ Disjoint /\ LinesLive /\ Consistent(touched, lines)
                        /\ CleanFetched /\ ReportsAgree
      BY TypeInit DEF ReportInv
    <2>1. alive = {} /\ lines = {} /\ touched = {} /\ report = {}
      BY DEF Init
    <2> QED  BY <2>1 DEF Disjoint, LinesLive, Consistent, Agree, HasDirty, CleanFetched,
                         ReportsAgree, Marks
  <1>2. ReportInv => ReportsAgree
    BY DEF ReportInv
  <1> QED  BY <1>1, <1>2, ReportStep, PTL DEF Spec

-----------------------------------------------------------------------------
(* Completeness of the trace.  What a job wants in its trace and is not in *)
(* a gap is there, or is still on its way: a dirty line, or in a packet of *)
(* a buffer while the resource lives.                                      *)
Wanted == [cmd : Cmd, blk : Nat, gap : {"none", "pruned", "swallowed", "cut"}]

InFrontBuffer(w) ==
  \E k \in DOMAIN front :
     w.blk \in Items(front[k]) /\ (w.cmd = "WRITE" => front[k].cmd = "WRITE")
InBackBuffer(w) ==
  \E k \in DOMAIN back :
     w.blk \in back[k].blk .. back[k].last /\ (w.cmd = "WRITE" => back[k].cmd = "WRITE")
Buffered(w) == RscOf(w.blk) # {} /\ (InFrontBuffer(w) \/ InBackBuffer(w))
InDirtyLine(w) == \E l \in lines : l.dirty /\ l.blk = w.blk

Covered(w) == InTrace(w) \/ InDirtyLine(w) \/ Buffered(w)

(* What the line buffer stands for: the blocks its access handed on.       *)
LineItem(b) == [cmd |-> IF lineBuffer.dirty THEN "WRITE" ELSE "READ", blk |-> b, gap |-> "none"]

WantedCovered == wanted \subseteq Wanted /\ \A w \in wanted : w.gap = "none" => Covered(w)
HeldCovered ==
  held \subseteq Nat /\ \A b \in held : RscOf(b) # {} => Covered(LineItem(b))
CleanInTrace == \A l \in lines : ~ l.dirty => \E p \in trace : p.blk = l.blk
LinesHaveJob == job = "none" => lines = {}

TraceInv == TypeInv /\ WantedCovered /\ HeldCovered /\ CleanInTrace /\ LinesHaveJob

LEMMA LineItemType ==
  ASSUME TypeOK, NEW b \in Nat
  PROVE  LineItem(b) \in Wanted
  BY DEF TypeOK, LineItem, Wanted, Cmd

(* A flush writes every dirty line into the trace.                         *)
LEMMA FlushCovers ==
  ASSUME NEW w \in Wanted, Covered(w), Drained, lines' = {},
         trace' = trace \cup WrittenBack(lines)
  PROVE  Covered(w)'
  <1>1. CASE InTrace(w)
    BY <1>1 DEF InTrace, Covered
  <1>2. CASE InDirtyLine(w)
    <2>1. PICK l \in lines : l.dirty /\ l.blk = w.blk
      BY <1>2 DEF InDirtyLine
    <2>2. [cmd |-> "WRITE", blk |-> w.blk] \in trace'
      BY <2>1 DEF WrittenBack, Dirty
    <2> QED  BY <2>2 DEF InTrace, Covered
  <1>3. ~ Buffered(w)
    BY DEF Drained, Buffered, InFrontBuffer, InBackBuffer
  <1> QED  BY <1>1, <1>2, <1>3 DEF Covered

(* A flush keeps the invariant: a held block that is on a resource after   *)
(* it was on one before.                                                   *)
LEMMA FlushStep ==
  ASSUME TraceInv, TypeInv', Drained, lines' = {}, trace' = trace \cup WrittenBack(lines),
         wanted' = wanted, lineBuffer' = lineBuffer, job' \in {job, "none"},
         held' \subseteq held, \A b \in held' : RscOf(b)' # {} => RscOf(b) # {}
  PROVE  TraceInv'
  <1>1. WantedCovered'
    BY FlushCovers DEF TraceInv, WantedCovered
  <1>2. HeldCovered'
    <2> SUFFICES ASSUME NEW b \in held', RscOf(b)' # {} PROVE Covered(LineItem(b))'
      BY DEF HeldCovered, TraceInv
    <2>1. b \in Nat /\ Covered(LineItem(b))
      BY DEF TraceInv, HeldCovered
    <2>2. LineItem(b) \in Wanted /\ LineItem(b)' = LineItem(b)
      BY <2>1, LineItemType DEF LineItem, TraceInv, TypeInv
    <2> QED  BY <2>1, <2>2, FlushCovers
  <1> QED  BY <1>1, <1>2 DEF TraceInv, CleanInTrace, LinesHaveJob

(* An access adds to what is wanted blocks in a gap and covered blocks.    *)
LEMMA WantsCovered ==
  ASSUME TraceInv, NEW i \in Inst, NEW a \in Accesses, NEW kept,
         NEW gap \in {"pruned", "swallowed", "cut"}, Wants(a, kept, gap),
         \A w \in Wanted : Covered(w) => Covered(w)',
         \A b \in kept \cap Nat : RscOf(b) # {} =>
             Covered([cmd |-> a.cmd, blk |-> b, gap |-> "none"])'
  PROVE  WantedCovered'
  <1> DEFINE new(b) == [cmd |-> a.cmd, blk |-> b, gap |-> IF b \in kept THEN "none" ELSE gap]
  <1>1. wanted' = wanted \cup {new(b) : b \in OnResource(BlocksOf(a))}
    BY DEF Wants
  <1>2. ASSUME NEW b \in OnResource(BlocksOf(a))
        PROVE  new(b) \in Wanted /\ (new(b).gap = "none" => Covered(new(b))')
    <2>1. b \in Nat /\ RscOf(b) # {} /\ a.cmd \in Cmd
      BY AccessType DEF OnResource, BlocksOf
    <2>2. new(b) \in Wanted
      BY <2>1 DEF Wanted
    <2>3. CASE b \in kept
      BY <2>1, <2>2, <2>3
    <2>4. CASE b \notin kept
      BY <2>2, <2>4
    <2> QED  BY <2>3, <2>4
  <1> QED  BY <1>1, <1>2 DEF TraceInv, WantedCovered

LEMMA AccessCovers ==
  ASSUME TraceInv, TypeInv', NEW i \in Inst, NEW a \in Accesses, Access(i, a)
  PROVE  TraceInv'
  <1> DEFINE pkt == Packet(i, a)
  <1>0. TypeOK /\ a.cmd \in Cmd /\ pkt \in Packets
    BY AccessType DEF TraceInv, TypeInv
  <1>1. UNCHANGED <<job, back, alive, lines, trace>> /\ job # "none"
    BY DEF Access, cacheVars
  <1>a. ASSUME UNCHANGED <<lineBuffer, front, held>>
        PROVE  (\A w \in Wanted : Covered(w) => Covered(w)') /\ HeldCovered'
    <2>1. \A w : Covered(w)' <=> Covered(w)
      BY <1>1, <1>a DEF Covered, InTrace, InDirtyLine, Buffered, InFrontBuffer, InBackBuffer, RscOf
    <2>2. HeldCovered'
      BY <1>1, <1>a, <2>1 DEF TraceInv, HeldCovered, LineItem, RscOf
    <2> QED  BY <2>1, <2>2
  <1>2. CASE Skip(i, a)
    <2>1. UNCHANGED <<lineBuffer, front, held>> /\ Wants(a, {}, "pruned")
      BY <1>2 DEF Skip
    <2>2. WantedCovered' /\ HeldCovered'
      BY <1>a, <2>1, WantsCovered
    <2> QED  BY <1>1, <2>2 DEF TraceInv, CleanInTrace, LinesHaveJob
  <1>3. CASE Swallow(i, a)
    <2>1. UNCHANGED <<lineBuffer, front, held>> /\ Wants(a, held, "swallowed") /\ Swallowed(a)
      BY <1>3 DEF Swallow
    <2>2. a.cmd = IF lineBuffer.dirty THEN "WRITE" ELSE "READ"
      BY <1>0, <2>1 DEF Swallowed, Cmd
    <2>3. ASSUME NEW b \in held \cap Nat, RscOf(b) # {}
          PROVE  Covered([cmd |-> a.cmd, blk |-> b, gap |-> "none"])'
      <3>1. [cmd |-> a.cmd, blk |-> b, gap |-> "none"] = LineItem(b)
        BY <2>2 DEF LineItem
      <3>2. LineItem(b) \in Wanted /\ Covered(LineItem(b))
        BY <1>0, <2>3, LineItemType DEF TraceInv, HeldCovered
      <3> QED  BY <1>a, <2>1, <3>1, <3>2
    <2>4. WantedCovered' /\ HeldCovered'
      BY <1>a, <2>1, <2>3, WantsCovered
    <2> QED  BY <1>1, <2>4 DEF TraceInv, CleanInTrace, LinesHaveJob
  <1>4. CASE HandOn(i, a)
    <2>1. /\ lineBuffer' = [line |-> Line(a.addr), dirty |-> a.cmd = "WRITE"]
          /\ front' = Append(front, pkt) /\ held' = Items(pkt)
          /\ Wants(a, Items(pkt), "cut")
      BY <1>4 DEF HandOn
    <2>2. /\ \A k \in DOMAIN front : k \in DOMAIN front' /\ front'[k] = front[k]
          /\ Len(front) + 1 \in DOMAIN front' /\ front'[Len(front) + 1] = pkt
      BY <1>0, <2>1 DEF TypeOK
    <2>3. Items(pkt) \subseteq Nat /\ pkt.cmd = a.cmd
      <3>1. pkt.addr \in Nat /\ pkt.len \in Nat
        BY <1>0 DEF Packets
      <3>2. FirstBlk(pkt) \in Nat /\ LastItem(pkt) \in Nat
        BY <3>1, BlocksAreNat
      <3> QED  BY <3>2 DEF Items, Packet
    <2>4. ASSUME NEW w \in Wanted, Covered(w) PROVE Covered(w)'
      <3>1. InFrontBuffer(w) => InFrontBuffer(w)'
        BY <2>2 DEF InFrontBuffer
      <3> QED  BY <1>1, <2>4, <3>1 DEF Covered, InTrace, InDirtyLine, Buffered, InBackBuffer, RscOf
    <2>5. ASSUME NEW b \in Items(pkt), RscOf(b) # {}
          PROVE  Covered([cmd |-> a.cmd, blk |-> b, gap |-> "none"])'
      <3>1. InFrontBuffer([cmd |-> a.cmd, blk |-> b, gap |-> "none"])'
        BY <2>2, <2>3 DEF InFrontBuffer
      <3> QED  BY <1>1, <2>5, <3>1 DEF Covered, Buffered, RscOf
    <2>6. WantedCovered'
      BY <2>1, <2>4, <2>5, WantsCovered
    <2>7. HeldCovered'
      <3> SUFFICES ASSUME NEW b \in Items(pkt), RscOf(b)' # {} PROVE Covered(LineItem(b))'
        BY <2>1, <2>3 DEF HeldCovered
      <3>1. LineItem(b)' = [cmd |-> a.cmd, blk |-> b, gap |-> "none"]
        BY <1>0, <2>1 DEF LineItem, Cmd
      <3>2. RscOf(b) # {}
        BY <1>1 DEF RscOf
      <3>3. Covered([cmd |-> a.cmd, blk |-> b, gap |-> "none"])'
        BY <2>5, <3>2
      <3> QED  BY <3>1, <3>3
    <2> QED  BY <1>1, <2>6, <2>7 DEF TraceInv, CleanInTrace, LinesHaveJob
  <1> QED  BY <1>2, <1>3, <1>4 DEF Access

(* The filter thread handles one block: what the job wants of it is then   *)
(* in the trace or in a dirty line.                                        *)
LEMMA ItemCovers ==
  ASSUME TraceInv, FilterItem, NEW r \in RscOf(Head(back).blk),
         Hit(Head(back), r) \/ Miss(Head(back), r)
  PROVE  /\ CleanInTrace'
         /\ \A w \in Wanted : InTrace(w) => InTrace(w)'
         /\ \A w \in Wanted : InDirtyLine(w) => InDirtyLine(w)' \/ InTrace(w)'
         /\ \A w \in Wanted : w.blk = Head(back).blk /\ (w.cmd = "WRITE" => Head(back).cmd = "WRITE")
              => InDirtyLine(w)' \/ InTrace(w)'
  <1> DEFINE p == Head(back)
             write == p.cmd = "WRITE"
  <1>0. TypeOK /\ p \in AlignedPackets /\ p.cmd \in Cmd
    <2>1. TypeOK /\ back # <<>>
      BY DEF TraceInv, TypeInv, FilterItem
    <2>2. p \in AlignedPackets
      BY <2>1, HeadTail DEF TypeOK
    <2> QED  BY <2>1, <2>2 DEF AlignedPackets
  <1>1. CASE Hit(p, r)
    <2>1. PICK l \in lines : /\ l.dev = job /\ l.blk = p.blk
                             /\ lines' = (lines \ {l}) \cup {[l EXCEPT !.dirty = @ \/ write]}
      BY <1>1 DEF Hit
    <2> DEFINE new == [l EXCEPT !.dirty = @ \/ write]
    <2>2. new.blk = p.blk /\ (new.dirty <=> l.dirty \/ write) /\ new \in lines'
      <3>1. l \in [dev : Dev, blk : Nat, rsc : DOMAIN Rsc, dirty : BOOLEAN]
        BY <1>0 DEF TypeOK
      <3> QED  BY <2>1, <3>1
    <2>3. trace' = trace
      BY <1>1 DEF Hit
    <2>4. CleanInTrace'
      BY <2>1, <2>2, <2>3 DEF TraceInv, CleanInTrace
    <2>5. \A w \in Wanted : InDirtyLine(w) => InDirtyLine(w)'
      BY <2>1, <2>2 DEF InDirtyLine
    <2>6. ASSUME NEW w \in Wanted, w.blk = p.blk, w.cmd = "WRITE" => write
          PROVE  InDirtyLine(w)' \/ InTrace(w)'
      <3>1. CASE new.dirty
        BY <2>2, <2>6, <3>1 DEF InDirtyLine
      <3>2. CASE ~ new.dirty
        <4>1. w.cmd # "WRITE" /\ ~ l.dirty
          BY <2>2, <2>6, <3>2
        <4> QED  BY <2>1, <2>3, <2>6, <4>1 DEF TraceInv, CleanInTrace, InTrace
      <3> QED  BY <3>1, <3>2
    <2> QED  BY <2>3, <2>4, <2>5, <2>6 DEF InTrace
  <1>2. CASE Miss(p, r)
    <2> DEFINE new == [dev |-> job, blk |-> p.blk, rsc |-> r, dirty |-> write]
               fetched == p.cmd = "READ" \/ fetch
    <2>1. PICK victims \in SUBSET {l \in lines : l.dev = job} :
            /\ lines' = (lines \ victims) \cup {new}
            /\ trace' = trace \cup WrittenBack(victims) \cup
                        (IF fetched THEN {[cmd |-> "READ", blk |-> p.blk]} ELSE {})
      BY <1>2 DEF Miss
    <2>2. new.blk = p.blk /\ (new.dirty <=> write) /\ new \in lines'
      BY <2>1
    <2>3. ~ write => [cmd |-> "READ", blk |-> p.blk] \in trace'
      BY <1>0, <2>1 DEF Cmd
    <2>4. CleanInTrace'
      BY <2>1, <2>2, <2>3 DEF TraceInv, CleanInTrace
    <2>5. ASSUME NEW w \in Wanted, InDirtyLine(w) PROVE InDirtyLine(w)' \/ InTrace(w)'
      <3>1. PICK l \in lines : l.dirty /\ l.blk = w.blk
        BY <2>5 DEF InDirtyLine
      <3>2. CASE l \in victims
        <4>1. [cmd |-> "WRITE", blk |-> w.blk] \in trace'
          BY <2>1, <3>1, <3>2 DEF WrittenBack, Dirty
        <4> QED  BY <4>1 DEF InTrace
      <3>3. CASE l \notin victims
        BY <2>1, <3>1, <3>3 DEF InDirtyLine
      <3> QED  BY <3>2, <3>3
    <2>6. ASSUME NEW w \in Wanted, w.blk = p.blk, w.cmd = "WRITE" => write
          PROVE  InDirtyLine(w)' \/ InTrace(w)'
      <3>1. CASE write
        BY <2>2, <2>6, <3>1 DEF InDirtyLine
      <3>2. CASE ~ write
        BY <2>3, <2>6, <3>2 DEF InTrace
      <3> QED  BY <3>1, <3>2
    <2>7. \A w \in Wanted : InTrace(w) => InTrace(w)'
      BY <2>1 DEF InTrace
    <2> QED  BY <2>4, <2>5, <2>6, <2>7
  <1> QED  BY <1>1, <1>2

LEMMA FilterCovers ==
  ASSUME TraceInv, TypeInv', FilterItem
  PROVE  TraceInv'
  <1> DEFINE p == Head(back)
  <1>1. /\ back # <<>> /\ UNCHANGED <<front, alive, wanted, held, lineBuffer, job>>
        /\ back' = IF p.blk < p.last THEN [back EXCEPT ![1].blk = @ + 1] ELSE Tail(back)
    BY DEF FilterItem, historyVars
  <1>2. /\ TypeOK /\ Len(back) \in Nat /\ Len(back) >= 1 /\ p = back[1]
        /\ p \in AlignedPackets /\ p.blk \in Nat /\ p.last \in Nat
        /\ DOMAIN back = 1 .. Len(back)
        /\ Len(Tail(back)) = Len(back) - 1 /\ DOMAIN Tail(back) = 1 .. Len(back) - 1
        /\ \A k \in 1 .. Len(back) - 1 : Tail(back)[k] = back[k + 1]
    <2>1. TypeOK
      BY DEF TraceInv, TypeInv
    <2>2. p \in AlignedPackets
      BY <1>1, <2>1, HeadTail DEF TypeOK
    <2> QED  BY <1>1, <2>1, <2>2, HeadTail DEF TypeOK, AlignedPackets
  <1>3. job # "none"
    BY <1>1 DEF TraceInv, TypeInv, BuffersHaveJob, Drained
  <1>4. ASSUME NEW w \in Wanted, InBackBuffer(w)
        PROVE  \/ InBackBuffer(w)'
               \/ w.blk = p.blk /\ (w.cmd = "WRITE" => p.cmd = "WRITE")
    <2>1. PICK k \in DOMAIN back : /\ w.blk \in back[k].blk .. back[k].last
                                   /\ w.cmd = "WRITE" => back[k].cmd = "WRITE"
      BY <1>4 DEF InBackBuffer
    <2>2. CASE p.blk < p.last
      <3>1. /\ DOMAIN back' = DOMAIN back /\ \A n \in DOMAIN back : n # 1 => back'[n] = back[n]
            /\ back'[1] = [p EXCEPT !.blk = @ + 1]
        BY <1>1, <1>2, <2>2
      <3>2. back'[1].blk = p.blk + 1 /\ back'[1].last = p.last /\ back'[1].cmd = p.cmd
        BY <1>2, <3>1 DEF AlignedPackets
      <3>3. CASE k # 1
        BY <2>1, <3>1, <3>3 DEF InBackBuffer
      <3>4. CASE k = 1 /\ w.blk # p.blk
        <4>1. w.blk \in back'[1].blk .. back'[1].last
          BY <1>2, <2>1, <3>2, <3>4
        <4> QED  BY <1>2, <2>1, <3>1, <3>2, <3>4, <4>1 DEF InBackBuffer
      <3>5. CASE k = 1 /\ w.blk = p.blk
        BY <1>2, <2>1, <3>5
      <3> QED  BY <3>3, <3>4, <3>5
    <2>3. CASE ~ p.blk < p.last
      <3>1. CASE k = 1
        BY <1>2, <2>1, <2>3, <3>1
      <3>2. CASE k # 1
        <4>1. k - 1 \in DOMAIN back' /\ back'[k - 1] = back[k]
          BY <1>1, <1>2, <2>3, <3>2
        <4> QED  BY <2>1, <4>1 DEF InBackBuffer
      <3> QED  BY <3>1, <3>2
    <2> QED  BY <2>2, <2>3
  <1>5. \A w : (InFrontBuffer(w)' <=> InFrontBuffer(w)) /\ RscOf(w.blk)' = RscOf(w.blk)
    BY <1>1 DEF InFrontBuffer, RscOf
  <1>6. /\ CleanInTrace' /\ \A w \in Wanted : Covered(w) => Covered(w)'
    <2>1. CASE MissesResource(p)
      <3>1. lines' = lines /\ trace' = trace /\ RscOf(p.blk) = {}
        BY <2>1 DEF MissesResource, cacheVars
      <3>2. \A w : (InTrace(w)' <=> InTrace(w)) /\ (InDirtyLine(w)' <=> InDirtyLine(w))
        BY <3>1 DEF InTrace, InDirtyLine
      <3>3. \A w \in Wanted : Buffered(w) => Buffered(w)'
        BY <1>4, <1>5, <3>1 DEF Buffered
      <3> QED  BY <1>1, <3>1, <3>2, <3>3 DEF Covered, TraceInv, CleanInTrace
    <2>2. CASE MeetsResource(p)
      <3>1. PICK r \in RscOf(p.blk) : Hit(p, r) \/ Miss(p, r)
        BY <2>2 DEF MeetsResource
      <3>2. /\ CleanInTrace'
            /\ \A w \in Wanted : InTrace(w) => InTrace(w)'
            /\ \A w \in Wanted : InDirtyLine(w) => InDirtyLine(w)' \/ InTrace(w)'
            /\ \A w \in Wanted : w.blk = p.blk /\ (w.cmd = "WRITE" => p.cmd = "WRITE")
                 => InDirtyLine(w)' \/ InTrace(w)'
        BY <3>1, ItemCovers
      <3>3. ASSUME NEW w \in Wanted, Buffered(w)
            PROVE  Buffered(w)' \/ InDirtyLine(w)' \/ InTrace(w)'
        BY <1>4, <1>5, <3>2, <3>3 DEF Buffered
      <3> QED  BY <1>1, <3>2, <3>3 DEF Covered
    <2> QED  BY <2>1, <2>2 DEF FilterItem
  <1>7. WantedCovered'
    BY <1>1, <1>6 DEF TraceInv, WantedCovered
  <1>8. HeldCovered'
    <2> SUFFICES ASSUME NEW b \in held, RscOf(b)' # {} PROVE Covered(LineItem(b))'
      BY <1>1 DEF HeldCovered, TraceInv
    <2>1. b \in Nat /\ RscOf(b) # {}
      BY <1>1 DEF TraceInv, HeldCovered, RscOf
    <2>2. LineItem(b)' = LineItem(b) /\ LineItem(b) \in Wanted
      BY <1>1, <1>2, <2>1, LineItemType DEF LineItem
    <2> QED  BY <1>6, <2>1, <2>2 DEF TraceInv, HeldCovered
  <1> QED  BY <1>1, <1>3, <1>6, <1>7, <1>8 DEF TraceInv, LinesHaveJob

LEMMA TraceStep == TraceInv /\ [Next]_vars => TraceInv'
  <1> SUFFICES ASSUME TraceInv, [Next]_vars PROVE TraceInv'
    OBVIOUS
  <1>0. TypeOK /\ TypeInv'
    BY TypeStep DEF TraceInv, TypeInv
  <1>a. ASSUME UNCHANGED <<job, lineBuffer, front, back, alive, lines, trace, wanted, held>>
        PROVE  TraceInv'
    BY <1>0, <1>a DEF TraceInv, WantedCovered, HeldCovered, LineItem, CleanInTrace, LinesHaveJob,
       Covered, InTrace, InDirtyLine, Buffered, InFrontBuffer, InBackBuffer, RscOf
  <1>1. ASSUME NEW i \in Inst, NEW a \in Accesses, Access(i, a) PROVE TraceInv'
    BY <1>0, <1>1, AccessCovers
  <1>2. CASE HandOver
    <2>1. /\ UNCHANGED <<job, lineBuffer, alive, lines, trace, wanted, held>>
          /\ back = <<>> /\ back' = [k \in DOMAIN front |-> Aligned(front[k])]
      BY <1>2 DEF HandOver, cacheVars, historyVars
    <2>2. ASSUME NEW w, Buffered(w) PROVE Buffered(w)'
      <3>1. InFrontBuffer(w)
        BY <2>1, <2>2 DEF Buffered, InBackBuffer
      <3>2. PICK k \in DOMAIN front : /\ w.blk \in Items(front[k])
                                      /\ w.cmd = "WRITE" => front[k].cmd = "WRITE"
        BY <3>1 DEF InFrontBuffer
      <3>3. /\ k \in DOMAIN back' /\ back'[k].cmd = front[k].cmd
            /\ w.blk \in back'[k].blk .. back'[k].last
        BY <2>1, <3>2 DEF Aligned, Items
      <3> QED  BY <2>1, <2>2, <3>2, <3>3 DEF Buffered, InBackBuffer, RscOf
    <2>3. \A w : Covered(w) => Covered(w)'
      BY <2>1, <2>2 DEF Covered, InTrace, InDirtyLine
    <2> QED  BY <1>0, <2>1, <2>3 DEF TraceInv, WantedCovered, HeldCovered, LineItem,
                CleanInTrace, LinesHaveJob, RscOf
  <1>3. CASE FilterItem
    BY <1>0, <1>3, FilterCovers
  <1>4. CASE Pause
    <2>1. \A b : RscOf(b)' = RscOf(b)
      BY <1>4 DEF Pause, RscOf
    <2> QED  BY <1>0, <1>4, <2>1, FlushStep DEF Pause, FlushFilterCaches, pipeVars, historyVars
  <1>5. CASE EndJob
    <2>1. \A b : RscOf(b)' = RscOf(b)
      BY <1>5 DEF EndJob, RscOf
    <2> QED  BY <1>0, <1>5, <2>1, FlushStep DEF EndJob, FlushFilterCaches, pipeVars, historyVars
  <1>6. CASE SwapBuffers
    <2>1. \A b : RscOf(b)' = RscOf(b)
      BY <1>6 DEF SwapBuffers, RscOf
    <2> QED  BY <1>0, <1>6, <2>1, FlushStep DEF SwapBuffers, pipeVars, historyVars
  <1>7. ASSUME NEW d \in Dev, NewJob(d) PROVE TraceInv'
    <2>1. /\ job = "none" /\ lines' = lines /\ wanted' = {} /\ held' = {}
      BY <1>7 DEF NewJob, pipeVars
    <2>2. lines' = {}
      BY <2>1 DEF TraceInv, LinesHaveJob
    <2> QED  BY <1>0, <2>1, <2>2 DEF TraceInv, WantedCovered, HeldCovered, LineItem, Covered,
                CleanInTrace, LinesHaveJob
  <1>8. ASSUME NEW r \in DOMAIN Rsc, ResourceCreate(r) PROVE TraceInv'
    <2>1. held' = OnResource(held)
      BY <1>8 DEF ResourceCreate
    <2>2. held' \subseteq held /\ \A b \in held' : RscOf(b) # {}
      BY <2>1 DEF OnResource
    <2> QED  BY <1>0, <1>8, <2>2, FlushStep DEF ResourceCreate, FlushFilterCaches, pipeVars
  <1>9. ASSUME NEW r \in DOMAIN Rsc, ResourceDestroy(r) PROVE TraceInv'
    <2>1. \A b : RscOf(b)' \subseteq RscOf(b)
      BY <1>9 DEF ResourceDestroy, RscOf
    <2> QED  BY <1>0, <1>9, <2>1, FlushStep DEF ResourceDestroy, FlushFilterCaches, pipeVars,
                historyVars
  <1>10. ASSUME NEW i \in Inst, NewCode(i) PROVE TraceInv'
    BY <1>10, <1>a DEF NewCode, pipeVars, cacheVars, historyVars
  <1>11. CASE Ended \/ UNCHANGED vars
    BY <1>11, <1>a DEF Ended, vars, pipeVars, cacheVars, historyVars
  <1> QED
    BY <1>1, <1>2, <1>3, <1>4, <1>5, <1>6, <1>7, <1>8, <1>9, <1>10, <1>11 DEF Next

(* When a job has ended its trace has every block it read or wrote that is *)
(* in none of the three gaps (pruned, cut, swallowed), whatever is         *)
(* buffered, evicted or flushed: TraceCoversJob.                           *)
THEOREM TracesAreComplete == Spec => []TraceCoversJob
  <1>1. Init => TraceInv
    <2> SUFFICES ASSUME Init PROVE TraceInv
      OBVIOUS
    <2>1. held = {} /\ lines = {} /\ wanted = {} /\ job = "CPU"
      BY DEF Init
    <2> QED  BY <2>1, TypeInit DEF TraceInv, WantedCovered, HeldCovered, RscOf, CleanInTrace,
                                   LinesHaveJob
  <1>2. TraceInv => TraceCoversJob
    <2> SUFFICES ASSUME TraceInv, job = "none", NEW w \in wanted, w.gap = "none"
                 PROVE  InTrace(w)
      BY DEF TraceCoversJob
    <2>1. lines = {} /\ Drained
      BY DEF TraceInv, LinesHaveJob, TypeInv, BuffersHaveJob
    <2>2. ~ InDirtyLine(w) /\ ~ Buffered(w)
      BY <2>1 DEF InDirtyLine, Buffered, InFrontBuffer, InBackBuffer, Drained
    <2> QED  BY <2>2 DEF TraceInv, WantedCovered, Covered
  <1> QED  BY <1>1, <1>2, TraceStep, PTL DEF Spec
=============================================================================
