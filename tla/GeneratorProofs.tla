--------------------------- MODULE GeneratorProofs ---------------------------
(***************************************************************************)
(* Proofs about the trace generator with one application thread, its       *)
(* filter thread, and any number of work threads and analyzers: for every  *)
(* choice of handlers, every length of the run, every buffer size.         *)
(*                                                                         *)
(* The argument.  What makes a step safe is where in its handler it        *)
(* stands, so the steps left of a handler are typed: a label says who has  *)
(* the filter queue, which buffers are empty, whether a job is open, how   *)
(* far a pause has come and how much is still to be issued; a rule says    *)
(* which step may be taken under a label and what label follows.  Every    *)
(* handler leads from "a job is open, the filter thread has the queue"     *)
(* back to it.  The invariant: some label leads on through the steps left, *)
(* and what it says of the buffers, the filter thread and the locks is so. *)
(* The label also gives the mode of QueueProtocol, every step is then a    *)
(* step of that protocol, and its invariant, from QueueProofs, holds here. *)
(*                                                                         *)
(* Program order has an invariant of its own over that one: the packets    *)
(* whose order counts, of the stream, of what the filter thread has left   *)
(* and of the buffer of the application thread, one after the other, are   *)
(* the calls in their order.                                               *)
(***************************************************************************)
EXTENDS GeneratorProperties, TLAPS, FiniteSetTheorems, WellFoundedInduction

(***************************************************************************)
(* Labels: what is known between two steps of a handler.                   *)
(***************************************************************************)
\* The application thread.  With two of them the pause is unsafe (run generator_threads).
main == CHOOSE t \in App : TRUE
OneThread == App = {main}

Jobs == [id : 1 .. MaxCalls + 1, dev : Dev]
Markers ==
    {"OPENGL_CALL", "SYNC", "NEW_RESOURCE", "END_RESOURCE", "END_SCENE", "NEW_SCENE",
     "NEW_FRAME"}

\* The steps of the handlers, with arguments of any of their kinds.
Step ==
    {"threadStart", "createJob", "beginJob", "recordJob", "appendAccess", "appendEndJob",
     "closeJob", "await", "clear", "rotate", "feed", "feedAll", "flush", "drain", "push",
     "handOver", "queueWait", "queueRotate", "queueStart", "rwLock", "rwUnlock", "process",
     "stopOrGo", "exit"}
        \X ({main} \cup Nat \cup Jobs \cup Dev \cup Markers
              \cup {"back", "front", "drain", "resume"})

\* What a label may know to be empty: the buffer of the thread, the one of its filter
\* thread, the filter caches, fout_buffer.
Known == {"gpu", "fin", "lines", "fout"}
Drained == {"gpu", "fin", "lines"}
PauseModes == {"rotateBack", "drain", "waitFront", "rotateFront"}

\* own: who has the filter queue: nobody yet, "out" with the filter thread, "ready" after
\* consumer_done was seen, "held" by the application thread.  mode: where the handler is in
\* a pause.  spare, creates: the packets and jobs it may still issue.
Labels ==
    [own : {"none", "out", "ready", "held"},
     empty : SUBSET Known,
     job : {"none", "open", "ended"},
     mode : {"running", "handOver", "paused"} \cup PauseModes,
     spare : Nat,
     creates : Nat]

\* In a pause and between two jobs the filter stage is drained.
Label ==
    {x \in Labels :
        /\ "lines" \in x.empty => "fin" \in x.empty
        /\ "fout" \in x.empty => x.mode = "paused"
        /\ x.job = "none" \/ x.mode \in PauseModes \cup {"paused"} => Drained \subseteq x.empty
        /\ x.mode \in PauseModes \cup {"paused", "handOver"} => x.job # "none"
        /\ x.mode \in PauseModes => x.own = "held"
        /\ x.mode = "paused" => x.own \in {"held", "out"}
        /\ x.own = "none" => x.job = "none" /\ x.mode = "running"}

\* x with the filter queue owned by o and e known to be empty; in mode m; with a
\* packet less to issue; without the job it had to create.
Hold(x, o, e) == [x EXCEPT !.own = o, !.empty = e]
Mode(x, m, e) == [x EXCEPT !.mode = m, !.empty = e]
Spend(x, j, e) == [x EXCEPT !.job = j, !.empty = e, !.spare = @ - 1]
Create(x) == [x EXCEPT !.creates = @ - 1]

\* The steps of the hand-off between the thread and its filter thread.
FilterRule(x, s, y) ==
  /\ x.job # "none"
  /\ \/ /\ s = <<"await", main>> /\ x.own = "out"
        /\ y = Hold(x, "ready", x.empty \cup {"fin"})
     \/ /\ s = <<"clear", main>> /\ x.own = "ready"
        /\ y = Hold(x, "held", x.empty)
     \/ /\ s = <<"rotate", main>> /\ x.own = "held" /\ {"gpu", "fin"} \subseteq x.empty
        /\ y = x
     \/ /\ s = <<"rotate", main>> /\ x.own = "held" /\ "fin" \in x.empty
        /\ y = Hold(x, "held", {"gpu"})
     \/ /\ s = <<"feed", main>> /\ x.own = "held" /\ y.empty \subseteq x.empty
        /\ y = Hold(x, "out", y.empty)
     \/ /\ s = <<"flush", main>> /\ x.own = "held" /\ {"gpu", "fin"} \subseteq x.empty
        /\ y = Hold(x, "held", x.empty \cup {"lines"})
     \/ /\ s = <<"drain", 1>> /\ x.own = "out"
        /\ y = Hold(x, "held", Drained)
     \/ /\ s = <<"drain", 2>> /\ x.own = "held" /\ y = x

\* The steps that begin and end jobs and add packets to the buffer of the thread.
JobRule(x, s, y) ==
  /\ \/ /\ s = <<"threadStart", main>> /\ x.own = "none" /\ x.spare > 0 /\ x.creates > 0
        /\ y = Create(Spend(Hold(x, "out", x.empty), "open", {}))
     \/ /\ s[1] = "createJob" /\ s[2] \in Dev
        /\ x.own = "out" /\ x.job = "none" /\ x.spare > 0 /\ x.creates > 0
        /\ y = Create(Spend(x, "open", {}))
     \/ /\ s[1] = "beginJob" /\ s[2] \in Jobs
        /\ x.own = "out" /\ x.job = "none" /\ x.spare > 0
        /\ y = Spend(x, "open", {})
     \/ /\ s = <<"recordJob", main>> /\ x.own = "out" /\ x.job = "open"
        /\ y = Hold(x, "out", {})
     \/ /\ s = <<"appendAccess", main>> /\ x.own = "out" /\ x.job = "open" /\ x.spare > 0
        /\ y = Spend(x, "open", {})
     \/ /\ s = <<"appendEndJob", main>> /\ x.own = "out" /\ x.job = "open" /\ x.spare > 0
        /\ y = Spend(x, "ended", {})
     \/ /\ s = <<"closeJob", main>> /\ x.own = "out" /\ x.job = "ended"
        /\ Drained \subseteq x.empty
        /\ y = [x EXCEPT !.job = "none"]

\* The calls of the analysis queue outside a pause, and the wait that begins one.
QueueRule(x, s, y) ==
  /\ x.job # "none"
  /\ \/ /\ s = <<"queueWait", "back">> /\ x.own = "held" /\ Drained \subseteq x.empty
        /\ y = Mode(x, "rotateBack", Drained)
     \/ /\ s \in {<<"rwLock", 0>>, <<"rwUnlock", 0>>} /\ y = x
     \/ /\ s = <<"push", "OPENGL_CALL">> /\ x.own = "out" /\ x.spare > 0
        /\ y = Spend(x, x.job, x.empty)

HandRule(x, s, y) ==
    s = <<"handOver", 0>> /\ x.mode = "handOver" /\ y = Mode(x, "running", x.empty)

\* A pause, from its first rotation to its second.
PauseRule(x, s, y) ==
    \/ /\ s = <<"queueRotate", "back">> /\ x.mode = "rotateBack"
       /\ y = Mode(x, "drain", Drained)
    \/ /\ s = <<"queueStart", "drain">> /\ x.mode = "drain"
       /\ y = Mode(x, "waitFront", Drained)
    \/ /\ s = <<"queueWait", "front">> /\ x.mode = "waitFront"
       /\ y = Mode(x, "rotateFront", Drained)
    \/ /\ s = <<"queueRotate", "front">> /\ x.mode = "rotateFront"
       /\ y = Mode(x, "paused", Known)

\* What a handler does in a pause, and the steps that end it.
PausedRule(x, s, y) ==
    \/ s \in {<<"rwLock", 0>>, <<"rwUnlock", 0>>} /\ y = x
    \/ /\ s[1] = "push" /\ s[2] \in Markers /\ "fout" \in x.empty /\ x.spare > 0
       /\ y = Spend(x, x.job, Drained)
    \/ /\ s[1] = "process" /\ s[2] \in Markers \ {"OPENGL_CALL"} /\ "fout" \in x.empty /\ x.spare > 0
       /\ y = Spend(x, x.job, x.empty)
    \/ /\ s = <<"feedAll", 0>> /\ x.own = "held"
       /\ y = Hold(x, "out", x.empty)
    \/ /\ s = <<"queueStart", "resume">> /\ x.own = "out"
       /\ y = Mode(x, "running", Drained)
    \/ /\ s \in {<<"stopOrGo", 0>>, <<"exit", 0>>} /\ x.own = "held" /\ "fout" \in x.empty
       /\ y = Mode(Hold(x, "out", Drained), "running", Drained)

\* Step s, taken where x holds, leads to where y holds.
Rule(x, s, y) ==
    \/ x.mode = "running" /\ (FilterRule(x, s, y) \/ JobRule(x, s, y) \/ QueueRule(x, s, y))
    \/ HandRule(x, s, y)
    \/ PauseRule(x, s, y)
    \/ x.mode = "paused" /\ PausedRule(x, s, y)

\* The steps s lead from x to z.
Runs(s, x, z) ==
    \E L \in [1 .. Len(s) + 1 -> Label] :
        /\ L[1] = x
        /\ L[Len(s) + 1] = z
        /\ \A i \in 1 .. Len(s) : Rule(L[i], s[i], L[i + 1])

(***************************************************************************)
(* Sequences of steps.                                                     *)
(***************************************************************************)
LEMMA RunsNone == ASSUME NEW x \in Label PROVE Runs(<<>>, x, x)
<1> DEFINE L == [i \in 1 .. 1 |-> x]
<1>1. Len(<<>>) = 0
  OBVIOUS
<1>2. L \in [1 .. Len(<<>>) + 1 -> Label] /\ L[1] = x /\ L[Len(<<>>) + 1] = x
  BY <1>1
<1>3. \A i \in 1 .. Len(<<>>) : Rule(L[i], <<>>[i], L[i + 1])
  BY <1>1
<1> HIDE DEF L
<1> QED  BY <1>2, <1>3 DEF Runs

LEMMA RunsOne ==
    ASSUME NEW x \in Label, NEW y \in Label, NEW s \in Step, Rule(x, s, y)
    PROVE  Runs(<<s>>, x, y)
<1> DEFINE L == [i \in 1 .. 2 |-> IF i = 1 THEN x ELSE y]
<1>1. L \in [1 .. Len(<<s>>) + 1 -> Label] /\ L[1] = x /\ L[Len(<<s>>) + 1] = y
  OBVIOUS
<1>2. \A i \in 1 .. Len(<<s>>) : Rule(L[i], <<s>>[i], L[i + 1])
  <2> SUFFICES ASSUME NEW i \in 1 .. 1 PROVE Rule(L[i], <<s>>[i], L[i + 1])
    OBVIOUS
  <2>1. i = 1 /\ L[i] = x /\ L[i + 1] = y /\ <<s>>[i] = s
    OBVIOUS
  <2> HIDE DEF L
  <2> QED  BY <2>1
<1> HIDE DEF L
<1> QED  BY <1>1, <1>2 DEF Runs

LEMMA RunsAppended ==
    ASSUME NEW s \in Seq(Step), NEW t \in Seq(Step),
           NEW x \in Label, NEW y \in Label, NEW z \in Label, Runs(s, x, y), Runs(t, y, z)
    PROVE  Runs(s \o t, x, z)
<1>1. PICK L \in [1 .. Len(s) + 1 -> Label] :
        L[1] = x /\ L[Len(s) + 1] = y /\ \A i \in 1 .. Len(s) : Rule(L[i], s[i], L[i + 1])
  BY DEF Runs
<1>2. PICK M \in [1 .. Len(t) + 1 -> Label] :
        M[1] = y /\ M[Len(t) + 1] = z /\ \A i \in 1 .. Len(t) : Rule(M[i], t[i], M[i + 1])
  BY DEF Runs
<1> DEFINE N == [i \in 1 .. Len(s) + Len(t) + 1 |-> IF i <= Len(s) THEN L[i] ELSE M[i - Len(s)]]
<1>3. Len(s) \in Nat /\ Len(t) \in Nat /\ Len(s \o t) = Len(s) + Len(t)
  OBVIOUS
<1>4. N \in [1 .. Len(s \o t) + 1 -> Label]
  BY <1>1, <1>2, <1>3
<1>5. N[1] = x
  BY <1>1, <1>2, <1>3
<1>6. N[Len(s \o t) + 1] = z
  BY <1>2, <1>3
<1>7. ASSUME NEW i \in 1 .. Len(s \o t) PROVE Rule(N[i], (s \o t)[i], N[i + 1])
  <2>1. CASE i <= Len(s)
    <3>1. N[i] = L[i] /\ (s \o t)[i] = s[i] /\ i \in 1 .. Len(s)
      BY <1>3, <1>7, <2>1
    <3>2. N[i + 1] = L[i + 1]
      BY <1>1, <1>2, <1>3, <1>7, <2>1
    <3> QED  BY <1>1, <3>1, <3>2
  <2>2. CASE i > Len(s)
    <3>1. /\ N[i] = M[i - Len(s)] /\ (s \o t)[i] = t[i - Len(s)]
          /\ i - Len(s) \in 1 .. Len(t) /\ N[i + 1] = M[(i - Len(s)) + 1]
      BY <1>3, <1>7, <2>2
    <3> QED  BY <1>2, <3>1
  <2> QED  BY <1>3, <2>1, <2>2
<1> QED
  <2> HIDE DEF N
  <2> QED  BY <1>4, <1>5, <1>6, <1>7 DEF Runs

LEMMA RunsHead ==
    ASSUME NEW s \in Seq(Step), s # <<>>, NEW x \in Label, NEW z \in Label, Runs(s, x, z)
    PROVE  \E y \in Label : Rule(x, Head(s), y) /\ Runs(Tail(s), y, z)
<1>1. PICK L \in [1 .. Len(s) + 1 -> Label] :
        L[1] = x /\ L[Len(s) + 1] = z /\ \A i \in 1 .. Len(s) : Rule(L[i], s[i], L[i + 1])
  BY DEF Runs
<1>2. /\ Len(s) \in Nat /\ Len(s) >= 1 /\ Head(s) = s[1]
      /\ Tail(s) \in Seq(Step) /\ Len(Tail(s)) = Len(s) - 1
      /\ \A i \in 1 .. Len(s) - 1 : Tail(s)[i] = s[i + 1]
  OBVIOUS
<1> DEFINE M == [i \in 1 .. Len(s) |-> L[i + 1]]
<1>3. M \in [1 .. Len(Tail(s)) + 1 -> Label] /\ M[1] = L[2] /\ M[Len(Tail(s)) + 1] = z
  BY <1>1, <1>2
<1>4. ASSUME NEW i \in 1 .. Len(Tail(s)) PROVE Rule(M[i], Tail(s)[i], M[i + 1])
  <2>1. i + 1 \in 1 .. Len(s) /\ M[i] = L[i + 1] /\ M[i + 1] = L[(i + 1) + 1] /\ Tail(s)[i] = s[i + 1]
    BY <1>2
  <2> QED  BY <1>1, <2>1
<1>5. Rule(x, Head(s), L[2])
  BY <1>1, <1>2
<1>6. L[2] \in Label
  BY <1>2
<1> QED
  <2> HIDE DEF M
  <2> QED  BY <1>3, <1>4, <1>5, <1>6 DEF Runs

LEMMA RunsTwo ==
    ASSUME NEW a \in Step, NEW b \in Step,
           NEW x1 \in Label, NEW x2 \in Label, NEW x3 \in Label,
           Rule(x1, a, x2), Rule(x2, b, x3)
    PROVE  Runs(<<a, b>>, x1, x3) /\ <<a, b>> \in Seq(Step)
<1> DEFINE s == <<a, b>>
           L == <<x1, x2, x3>>
<1>1. L \in [1 .. 3 -> Label] /\ L[1] = x1 /\ L[2] = x2 /\ L[3] = x3
  OBVIOUS
<1>2. s \in Seq(Step) /\ Len(s) = 2 /\ s[1] = a /\ s[2] = b
  OBVIOUS
<1> HIDE DEF s, L
<1>3. ASSUME NEW i \in 1 .. 2 PROVE Rule(L[i], s[i], L[i + 1])
  <2>1. CASE i = 1
    BY <1>1, <1>2, <2>1
  <2>2. CASE i = 2
    BY <1>1, <1>2, <2>2
  <2> QED  BY <2>1, <2>2
<1>4. Runs(s, x1, x3)
  BY <1>1, <1>2, <1>3 DEF Runs
<1> QED  BY <1>2, <1>4 DEF s

LEMMA RunsThree ==
    ASSUME NEW a \in Step, NEW b \in Step, NEW c \in Step,
           NEW x1 \in Label, NEW x2 \in Label, NEW x3 \in Label, NEW x4 \in Label,
           Rule(x1, a, x2), Rule(x2, b, x3), Rule(x3, c, x4)
    PROVE  Runs(<<a, b, c>>, x1, x4) /\ <<a, b, c>> \in Seq(Step)
<1> DEFINE s == <<a, b, c>>
           L == <<x1, x2, x3, x4>>
<1>1. L \in [1 .. 4 -> Label] /\ L[1] = x1 /\ L[2] = x2 /\ L[3] = x3 /\ L[4] = x4
  OBVIOUS
<1>2. s \in Seq(Step) /\ Len(s) = 3 /\ s[1] = a /\ s[2] = b /\ s[3] = c
  OBVIOUS
<1> HIDE DEF s, L
<1>3. ASSUME NEW i \in 1 .. 3 PROVE Rule(L[i], s[i], L[i + 1])
  <2>1. CASE i = 1
    BY <1>1, <1>2, <2>1
  <2>2. CASE i = 2
    BY <1>1, <1>2, <2>2
  <2>3. CASE i = 3
    BY <1>1, <1>2, <2>3
  <2> QED  BY <2>1, <2>2, <2>3
<1>4. Runs(s, x1, x4)
  BY <1>1, <1>2, <1>3 DEF Runs
<1> QED  BY <1>2, <1>4 DEF s

LEMMA RunsFour ==
    ASSUME NEW a \in Step, NEW b \in Step, NEW c \in Step, NEW d \in Step,
           NEW x1 \in Label, NEW x2 \in Label, NEW x3 \in Label, NEW x4 \in Label, NEW x5 \in Label,
           Rule(x1, a, x2), Rule(x2, b, x3), Rule(x3, c, x4), Rule(x4, d, x5)
    PROVE  Runs(<<a, b, c, d>>, x1, x5) /\ <<a, b, c, d>> \in Seq(Step)
<1> DEFINE s == <<a, b, c, d>>
           L == <<x1, x2, x3, x4, x5>>
<1>1. L \in [1 .. 5 -> Label] /\ L[1] = x1 /\ L[2] = x2 /\ L[3] = x3 /\ L[4] = x4 /\ L[5] = x5
  OBVIOUS
<1>2. s \in Seq(Step) /\ Len(s) = 4 /\ s[1] = a /\ s[2] = b /\ s[3] = c /\ s[4] = d
  OBVIOUS
<1> HIDE DEF s, L
<1>3. ASSUME NEW i \in 1 .. 4 PROVE Rule(L[i], s[i], L[i + 1])
  <2>1. CASE i = 1
    BY <1>1, <1>2, <2>1
  <2>2. CASE i = 2
    BY <1>1, <1>2, <2>2
  <2>3. CASE i = 3
    BY <1>1, <1>2, <2>3
  <2>4. CASE i = 4
    BY <1>1, <1>2, <2>4
  <2> QED  BY <2>1, <2>2, <2>3, <2>4
<1>4. Runs(s, x1, x5)
  BY <1>1, <1>2, <1>3 DEF Runs
<1> QED  BY <1>2, <1>4 DEF s

LEMMA RunsSix ==
    ASSUME NEW a \in Step, NEW b \in Step, NEW c \in Step,
           NEW d \in Step, NEW e \in Step, NEW f \in Step,
           NEW x1 \in Label, NEW x2 \in Label, NEW x3 \in Label, NEW x4 \in Label,
           NEW x5 \in Label, NEW x6 \in Label, NEW x7 \in Label,
           Rule(x1, a, x2), Rule(x2, b, x3), Rule(x3, c, x4),
           Rule(x4, d, x5), Rule(x5, e, x6), Rule(x6, f, x7)
    PROVE  Runs(<<a, b, c, d, e, f>>, x1, x7) /\ <<a, b, c, d, e, f>> \in Seq(Step)
<1> DEFINE s == <<a, b, c, d, e, f>>
           L == <<x1, x2, x3, x4, x5, x6, x7>>
<1>1. /\ L \in [1 .. 7 -> Label] /\ L[1] = x1 /\ L[2] = x2 /\ L[3] = x3
      /\ L[4] = x4 /\ L[5] = x5 /\ L[6] = x6 /\ L[7] = x7
  OBVIOUS
<1>2. /\ s \in Seq(Step) /\ Len(s) = 6 /\ s[1] = a /\ s[2] = b /\ s[3] = c
      /\ s[4] = d /\ s[5] = e /\ s[6] = f
  OBVIOUS
<1> HIDE DEF s, L
<1>3. ASSUME NEW i \in 1 .. 6 PROVE Rule(L[i], s[i], L[i + 1])
  <2>1. CASE i = 1
    BY <1>1, <1>2, <2>1
  <2>2. CASE i = 2
    BY <1>1, <1>2, <2>2
  <2>3. CASE i = 3
    BY <1>1, <1>2, <2>3
  <2>4. CASE i = 4
    BY <1>1, <1>2, <2>4
  <2>5. CASE i = 5
    BY <1>1, <1>2, <2>5
  <2>6. CASE i = 6
    BY <1>1, <1>2, <2>6
  <2> QED  BY <2>1, <2>2, <2>3, <2>4, <2>5, <2>6
<1>4. Runs(s, x1, x7)
  BY <1>1, <1>2, <1>3 DEF Runs
<1> QED  BY <1>2, <1>4 DEF s

(***************************************************************************)
(* The handlers: each leads from a job that runs to a job that runs.       *)
(***************************************************************************)
\* A label of a thread with a job that runs: only its hand-off part changes.
LEMMA RunningLabel ==
    ASSUME NEW x \in Label, x.mode = "running", x.job # "none",
           NEW o \in {"out", "ready", "held"}, NEW e \in SUBSET Drained,
           "lines" \in e => "fin" \in e
    PROVE  /\ Hold(x, o, e) \in Label
           /\ Hold(x, o, e).own = o /\ Hold(x, o, e).empty = e
           /\ Hold(x, o, e).mode = "running" /\ Hold(x, o, e).job # "none"
<1> DEFINE y == [x EXCEPT !.own = o, !.empty = e]
<1>1. x \in Labels
  BY DEF Label
<1>2. e \in SUBSET Known
  BY DEF Known, Drained
<1>3. y \in Labels
  BY <1>1, <1>2 DEF Labels
<1>4. y.own = o /\ y.empty = e /\ y.mode = x.mode /\ y.job = x.job
  BY <1>1 DEF Labels
<1> HIDE DEF y
<1>5. "fout" \notin e
  BY DEF Drained
<1>6. y \in Label
  BY <1>3, <1>4, <1>5 DEF Label, PauseModes
<1> QED  BY <1>4, <1>6 DEF y, Hold

LEMMA HoldTwice ==
    ASSUME NEW x \in Label, NEW o, NEW e, NEW p, NEW f
    PROVE  Hold(Hold(x, o, e), p, f) = Hold(x, p, f)
  BY DEF Hold, Label, Labels

LEMMA KnownRunning ==
    ASSUME NEW x \in Label, x.mode = "running"
    PROVE  /\ x.empty \in SUBSET Drained
           /\ "lines" \in x.empty => "fin" \in x.empty
           /\ x.own \in {"none", "out", "ready", "held"}
  BY DEF Label, Labels, Known, Drained

LEMMA WaitRuns ==
    ASSUME NEW x \in Label, x.own = "out", x.mode = "running", x.job # "none"
    PROVE  /\ Runs(FilterWait(main), x, Hold(x, "held", x.empty \cup {"fin"}))
           /\ FilterWait(main) \in Seq(Step)
<1> DEFINE e == x.empty \cup {"fin"}
           y == Hold(x, "ready", e)
           z == Hold(x, "held", e)
<1>1. e \in SUBSET Drained /\ "fin" \in e
  BY KnownRunning DEF Drained
<1>2. Rule(x, <<"await", main>>, y)
  BY DEF Rule, FilterRule
<1> HIDE DEF e
<1>3. /\ y \in Label /\ y.own = "ready" /\ y.empty = e /\ y.mode = "running" /\ y.job # "none"
      /\ z \in Label
  BY <1>1, RunningLabel
<1>4. z = Hold(y, "held", y.empty)
  BY <1>3, HoldTwice
<1> HIDE DEF y, z
<1>5. Rule(y, <<"clear", main>>, z)
  BY <1>3, <1>4 DEF Rule, FilterRule
<1>6. <<"await", main>> \in Step /\ <<"clear", main>> \in Step
  BY DEF Step
<1> QED  BY <1>2, <1>3, <1>5, <1>6, RunsTwo DEF FilterWait, y, z, e

\* process_buffer(): whatever was in the front buffer is with the filter thread.
LEMMA ProcessRuns ==
    ASSUME NEW x \in Label, x.own = "out", x.mode = "running", x.job # "none",
           NEW e \in SUBSET {"gpu"}
    PROVE  Runs(ProcessBuffer(main), x, Hold(x, "out", e)) /\ ProcessBuffer(main) \in Seq(Step)
<1> DEFINE f == x.empty \cup {"fin"}
           g == {"gpu"}
           y == Hold(x, "held", f)
           r == Hold(x, "held", g)
           z == Hold(x, "out", e)
<1>1. /\ f \in SUBSET Drained /\ "fin" \in f
      /\ e \in SUBSET Drained /\ "lines" \notin e /\ e \subseteq g
      /\ g \in SUBSET Drained /\ "lines" \notin g
  BY KnownRunning DEF Drained
<1>2. Runs(FilterWait(main), x, y) /\ FilterWait(main) \in Seq(Step)
  BY WaitRuns
<1> HIDE DEF f, g
<1>3. y \in Label /\ y.own = "held" /\ y.empty = f /\ y.mode = "running" /\ y.job # "none"
  BY <1>1, RunningLabel
<1>4. r \in Label /\ r.own = "held" /\ r.empty = g /\ r.mode = "running" /\ r.job # "none"
  BY <1>1, RunningLabel
<1>5. e \in SUBSET Drained /\ ("lines" \in e => "fin" \in e)
  BY <1>1
<1>6. z \in Label /\ z.empty = e
  BY <1>5, RunningLabel
<1>7. r = Hold(y, "held", g) /\ z = Hold(r, "out", z.empty)
  BY <1>3, <1>4, <1>6, HoldTwice
<1> HIDE DEF y, r, z
<1>8. Rule(y, <<"rotate", main>>, r)
  BY <1>1, <1>3, <1>7 DEF Rule, FilterRule, g
<1>9. Rule(r, <<"feed", main>>, z)
  BY <1>1, <1>4, <1>6, <1>7 DEF Rule, FilterRule
<1>10. <<"rotate", main>> \in Step /\ <<"feed", main>> \in Step
  BY DEF Step
<1> DEFINE last == << <<"rotate", main>>, <<"feed", main>> >>
<1>11. Runs(last, y, z) /\ last \in Seq(Step)
  BY <1>3, <1>4, <1>6, <1>8, <1>9, <1>10, RunsTwo
<1> HIDE DEF last
<1>12. Runs(FilterWait(main) \o last, x, z) /\ FilterWait(main) \o last \in Seq(Step)
  BY <1>2, <1>3, <1>6, <1>11, RunsAppended
<1> QED  BY <1>12 DEF ProcessBuffer, last, z

LEMMA DrainRuns ==
    ASSUME NEW x \in Label, x.own = "out", x.mode = "running", x.job # "none"
    PROVE  Runs(DrainFilter(main), x, Hold(x, "held", Drained)) /\ DrainFilter(main) \in Seq(Step)
<1> DEFINE g == {"gpu"}
           gf == {"gpu", "fin"}
           y == Hold(x, "out", g)
           r == Hold(x, "held", gf)
           z == Hold(x, "held", Drained)
<1>1. /\ g \in SUBSET Drained /\ "lines" \notin g
      /\ gf \in SUBSET Drained /\ "lines" \notin gf /\ gf = g \cup {"fin"}
      /\ Drained \in SUBSET Drained /\ "fin" \in Drained /\ Drained = gf \cup {"lines"}
  BY DEF Drained
<1>2. Runs(ProcessBuffer(main), x, y) /\ ProcessBuffer(main) \in Seq(Step)
  BY ProcessRuns
<1> HIDE DEF g, gf
<1>3. y \in Label /\ y.own = "out" /\ y.empty = g /\ y.mode = "running" /\ y.job # "none"
  <2>1. g \in SUBSET Drained /\ ("lines" \in g => "fin" \in g)
    BY <1>1
  <2> QED  BY <2>1, RunningLabel
<1>4. r \in Label /\ r.own = "held" /\ r.empty = gf /\ r.mode = "running" /\ r.job # "none"
  <2>1. gf \in SUBSET Drained /\ ("lines" \in gf => "fin" \in gf)
    BY <1>1
  <2> QED  BY <2>1, RunningLabel
<1>5. z \in Label
  <2>1. "held" \in {"out", "ready", "held"}
    OBVIOUS
  <2> QED  BY <1>1, <2>1, RunningLabel
<1>6. r = Hold(y, "held", gf) /\ z = Hold(r, "held", Drained)
  BY <1>3, <1>4, HoldTwice
<1> HIDE DEF y, r, z
<1>7. Runs(FilterWait(main), y, r) /\ FilterWait(main) \in Seq(Step)
  BY <1>1, <1>3, <1>6, WaitRuns
<1>8. Rule(r, <<"rotate", main>>, r)
  BY <1>4 DEF Rule, FilterRule, gf
<1>9. Rule(r, <<"flush", main>>, z)
  BY <1>1, <1>4, <1>6 DEF Rule, FilterRule, gf
<1>10. <<"rotate", main>> \in Step /\ <<"flush", main>> \in Step
  BY DEF Step
<1> DEFINE last == << <<"rotate", main>>, <<"flush", main>> >>
<1>11. Runs(last, r, z) /\ last \in Seq(Step)
  BY <1>4, <1>5, <1>8, <1>9, <1>10, RunsTwo
<1> HIDE DEF last
<1> DEFINE front == ProcessBuffer(main) \o FilterWait(main)
<1>12. Runs(front, x, r) /\ front \in Seq(Step)
  BY <1>2, <1>3, <1>4, <1>7, RunsAppended
<1> HIDE DEF front
<1>13. Runs(front \o last, x, z) /\ front \o last \in Seq(Step)
  BY <1>4, <1>5, <1>11, <1>12, RunsAppended
<1> QED  BY <1>13 DEF DrainFilter, front, last, z

LEMMA HoldFields ==
    ASSUME NEW x \in Labels, NEW o \in {"none", "out", "ready", "held"}, NEW e \in SUBSET Known
    PROVE  /\ Hold(x, o, e) \in Labels
           /\ Hold(x, o, e).own = o /\ Hold(x, o, e).empty = e
           /\ Hold(x, o, e).job = x.job /\ Hold(x, o, e).mode = x.mode
           /\ Hold(x, o, e).spare = x.spare /\ Hold(x, o, e).creates = x.creates
  BY DEF Labels, Hold

LEMMA ModeFields ==
    ASSUME NEW x \in Labels, NEW m \in {"running", "handOver", "paused"} \cup PauseModes,
           NEW e \in SUBSET Known
    PROVE  /\ Mode(x, m, e) \in Labels
           /\ Mode(x, m, e).own = x.own /\ Mode(x, m, e).empty = e
           /\ Mode(x, m, e).job = x.job /\ Mode(x, m, e).mode = m
           /\ Mode(x, m, e).spare = x.spare /\ Mode(x, m, e).creates = x.creates
  BY DEF Labels, Mode

LEMMA SpendFields ==
    ASSUME NEW x \in Labels, NEW j \in {"none", "open", "ended"}, NEW e \in SUBSET Known,
           x.spare > 0
    PROVE  /\ Spend(x, j, e) \in Labels
           /\ Spend(x, j, e).own = x.own /\ Spend(x, j, e).empty = e
           /\ Spend(x, j, e).job = j /\ Spend(x, j, e).mode = x.mode
           /\ Spend(x, j, e).spare = x.spare - 1 /\ Spend(x, j, e).creates = x.creates
<1>1. x.spare - 1 \in Nat
  BY DEF Labels
<1> DEFINE n == x.spare - 1
<1>2. Spend(x, j, e) = [x EXCEPT !.job = j, !.empty = e, !.spare = n]
  BY DEF Spend
<1> HIDE DEF n
<1>3. n \in Nat
  BY <1>1 DEF n
<1>4. /\ Spend(x, j, e) \in Labels
      /\ Spend(x, j, e).own = x.own /\ Spend(x, j, e).empty = e
      /\ Spend(x, j, e).job = j /\ Spend(x, j, e).mode = x.mode
      /\ Spend(x, j, e).spare = n /\ Spend(x, j, e).creates = x.creates
  BY <1>2, <1>3 DEF Labels
<1> QED  BY <1>4 DEF n

LEMMA CreateFields ==
    ASSUME NEW x \in Labels, x.creates > 0
    PROVE  /\ Create(x) \in Labels
           /\ Create(x).own = x.own /\ Create(x).empty = x.empty
           /\ Create(x).job = x.job /\ Create(x).mode = x.mode
           /\ Create(x).spare = x.spare /\ Create(x).creates = x.creates - 1
  BY DEF Labels, Create

LEMMA PauseLabels ==
    ASSUME NEW x \in Label, x.job # "none", NEW m \in PauseModes, x.own = "held"
    PROVE  /\ Mode(x, m, Drained) \in Label
           /\ Mode(x, m, Drained).mode = m /\ Mode(x, m, Drained).empty = Drained
           /\ Mode(x, m, Drained).job = x.job /\ Mode(x, m, Drained).own = "held"
           /\ Mode(x, m, Drained).spare = x.spare /\ Mode(x, m, Drained).creates = x.creates
<1> DEFINE y == Mode(x, m, Drained)
<1>1. x \in Labels /\ Drained \in SUBSET Known /\ "fout" \notin Drained /\ "fin" \in Drained
  BY DEF Label, Drained, Known
<1>2. /\ y \in Labels /\ y.mode = m /\ y.empty = Drained /\ y.job = x.job /\ y.own = "held"
      /\ y.spare = x.spare /\ y.creates = x.creates
  <2>1. m \in {"running", "handOver", "paused"} \cup PauseModes
    OBVIOUS
  <2> QED  BY <1>1, <2>1, ModeFields
<1> HIDE DEF y
<1>3. y \in Label
  BY <1>1, <1>2 DEF Label, PauseModes
<1> QED  BY <1>2, <1>3 DEF y

LEMMA PausedLabel ==
    ASSUME NEW x \in Label, x.job # "none", x.own \in {"held", "out"},
           NEW e \in {Drained, Known}
    PROVE  /\ Mode(x, "paused", e) \in Label
           /\ Mode(x, "paused", e).mode = "paused" /\ Mode(x, "paused", e).empty = e
           /\ Mode(x, "paused", e).job = x.job /\ Mode(x, "paused", e).own = x.own
           /\ Mode(x, "paused", e).spare = x.spare /\ Mode(x, "paused", e).creates = x.creates
<1> DEFINE y == Mode(x, "paused", e)
<1>1. x \in Labels /\ e \in SUBSET Known /\ "fin" \in e /\ Drained \subseteq e
  BY DEF Label, Drained, Known
<1>2. /\ y \in Labels /\ y.mode = "paused" /\ y.empty = e /\ y.job = x.job /\ y.own = x.own
      /\ y.spare = x.spare /\ y.creates = x.creates
  BY <1>1, ModeFields
<1> HIDE DEF y
<1>3. y \in Label
  BY <1>1, <1>2 DEF Label, PauseModes
<1> QED  BY <1>2, <1>3 DEF y

LEMMA ModeTwice ==
    ASSUME NEW x \in Label, NEW m, NEW e, NEW n, NEW f
    PROVE  Mode(Mode(x, m, e), n, f) = Mode(x, n, f)
  BY DEF Mode, Label, Labels

\* pause_and_drain_buffers()
LEMMA PauseRuns ==
    ASSUME NEW x \in Label, x.own = "out", x.mode = "running", x.job # "none"
    PROVE  \E z \in Label :
              /\ z.own = "held" /\ z.mode = "paused" /\ z.empty = Known
              /\ z.job = x.job /\ z.spare = x.spare /\ z.creates = x.creates
              /\ Runs(PauseAndDrainBuffers, x, z) /\ PauseAndDrainBuffers \in Seq(Step)
<1> DEFINE h == Hold(x, "held", Drained)
           b == Mode(h, "rotateBack", Drained)
           d == Mode(h, "drain", Drained)
           w == Mode(h, "waitFront", Drained)
           f == Mode(h, "rotateFront", Drained)
           z == Mode(h, "paused", Known)
<1>1. Drained \in SUBSET Drained /\ ("lines" \in Drained => "fin" \in Drained)
  BY DEF Drained
<1>2. h \in Label /\ h.own = "held" /\ h.empty = Drained /\ h.mode = "running" /\ h.job # "none"
  BY <1>1, RunningLabel
<1>3. h.job = x.job /\ h.spare = x.spare /\ h.creates = x.creates
  BY DEF Hold, Label, Labels
<1>4. Rule(x, <<"drain", 1>>, h)
  BY DEF Rule, FilterRule
<1> HIDE DEF h
<1>5. b \in Label /\ b.mode = "rotateBack"
  BY <1>2, PauseLabels DEF PauseModes
<1>6. d \in Label /\ d.mode = "drain"
  BY <1>2, PauseLabels DEF PauseModes
<1>7. w \in Label /\ w.mode = "waitFront"
  BY <1>2, PauseLabels DEF PauseModes
<1>8. f \in Label /\ f.mode = "rotateFront"
  BY <1>2, PauseLabels DEF PauseModes
<1>9. /\ z \in Label /\ z.own = "held" /\ z.mode = "paused" /\ z.empty = Known
      /\ z.job = h.job /\ z.spare = h.spare /\ z.creates = h.creates
  BY <1>2, PausedLabel
<1>10. /\ d = Mode(b, "drain", Drained) /\ w = Mode(d, "waitFront", Drained)
       /\ f = Mode(w, "rotateFront", Drained) /\ z = Mode(f, "paused", Known)
  BY <1>2, ModeTwice
<1>11. Rule(h, <<"queueWait", "back">>, b)
  BY <1>2 DEF Rule, QueueRule
<1> HIDE DEF b, d, w, f, z
<1>12. Rule(b, <<"queueRotate", "back">>, d)
  BY <1>5, <1>10 DEF Rule, PauseRule
<1>13. Rule(d, <<"queueStart", "drain">>, w)
  BY <1>6, <1>10 DEF Rule, PauseRule
<1>14. Rule(w, <<"queueWait", "front">>, f)
  BY <1>7, <1>10 DEF Rule, PauseRule
<1>15. Rule(f, <<"queueRotate", "front">>, z)
  BY <1>8, <1>10 DEF Rule, PauseRule
<1>16. /\ <<"drain", 1>> \in Step /\ <<"queueWait", "back">> \in Step
       /\ <<"queueRotate", "back">> \in Step /\ <<"queueStart", "drain">> \in Step
       /\ <<"queueWait", "front">> \in Step /\ <<"queueRotate", "front">> \in Step
  BY DEF Step
<1>17. Runs(PauseAndDrainBuffers, x, z) /\ PauseAndDrainBuffers \in Seq(Step)
  BY <1>2, <1>4, <1>5, <1>6, <1>7, <1>8, <1>9, <1>11, <1>12, <1>13, <1>14, <1>15, <1>16, RunsSix
  DEF PauseAndDrainBuffers
<1> QED  BY <1>3, <1>9, <1>17

\* resume()
LEMMA ResumeRuns ==
    ASSUME NEW x \in Label, x.own = "held", x.mode = "paused"
    PROVE  \E z \in Label :
              /\ z.own = "out" /\ z.mode = "running" /\ z.empty = Drained
              /\ z.job = x.job /\ z.spare = x.spare /\ z.creates = x.creates
              /\ Runs(Resume, x, z) /\ Resume \in Seq(Step)
<1> DEFINE h == Hold(x, "out", x.empty)
           z == Mode(h, "running", Drained)
<1>1. /\ x \in Labels /\ x.empty \in SUBSET Known /\ x.job # "none"
      /\ Drained \subseteq x.empty /\ Drained \in SUBSET Known /\ "fin" \in Drained /\ "fout" \notin Drained
  BY DEF Label, Labels, Known, Drained
<1>2. /\ h \in Labels /\ h.own = "out" /\ h.empty = x.empty /\ h.job = x.job /\ h.mode = "paused"
      /\ h.spare = x.spare /\ h.creates = x.creates
  BY <1>1, HoldFields
<1>3. Rule(x, <<"feedAll", 0>>, h)
  BY DEF Rule, PausedRule
<1>4. Rule(h, <<"queueStart", "resume">>, z)
  <2> HIDE DEF h
  <2> QED  BY <1>2 DEF Rule, PausedRule
<1> HIDE DEF h
<1>5. h \in Label
  BY <1>1, <1>2 DEF Label, PauseModes
<1>6. /\ z \in Labels /\ z.own = "out" /\ z.empty = Drained /\ z.job = x.job /\ z.mode = "running"
      /\ z.spare = x.spare /\ z.creates = x.creates
  BY <1>1, <1>2, ModeFields
<1> HIDE DEF z
<1>7. z \in Label
  BY <1>1, <1>6 DEF Label, PauseModes
<1>8. <<"feedAll", 0>> \in Step /\ <<"queueStart", "resume">> \in Step
  BY DEF Step
<1>9. Runs(Resume, x, z) /\ Resume \in Seq(Step)
  BY <1>3, <1>4, <1>5, <1>7, <1>8, RunsTwo DEF Resume
<1> QED  BY <1>6, <1>7, <1>9

\* handle_end_job()
LEMMA EndJobRuns ==
    ASSUME NEW x \in Label, x.own = "out", x.mode = "running", x.job = "open", x.spare > 0
    PROVE  \E z \in Label :
              /\ z.own = "out" /\ z.mode = "running" /\ z.empty = Drained
              /\ z.job = "none" /\ z.spare = x.spare - 1 /\ z.creates = x.creates
              /\ Runs(HandleEndJob(main), x, z) /\ HandleEndJob(main) \in Seq(Step)
<1> DEFINE none == {}
           y == Spend(x, "ended", none)
           h == Hold(y, "held", Drained)
           c == Hold(y, "out", Drained)
           z == [c EXCEPT !.job = "none"]
<1>1. /\ x \in Labels /\ none \in SUBSET Known /\ Drained \in SUBSET Known
      /\ "lines" \notin none /\ "fout" \notin none
      /\ Drained \in SUBSET Drained /\ "fin" \in Drained /\ "fout" \notin Drained
  BY DEF Label, Known, Drained
<1>2. Rule(x, <<"appendEndJob", main>>, y)
  BY DEF Rule, JobRule
<1> HIDE DEF none
<1>3. /\ y \in Labels /\ y.own = "out" /\ y.empty = none /\ y.job = "ended" /\ y.mode = "running"
      /\ y.spare = x.spare - 1 /\ y.creates = x.creates
  BY <1>1, SpendFields
<1> HIDE DEF y
<1>4. y \in Label
  BY <1>1, <1>3 DEF Label, PauseModes
<1>5. Runs(DrainFilter(main), y, h) /\ DrainFilter(main) \in Seq(Step)
  BY <1>3, <1>4, DrainRuns
<1>6. h \in Label /\ h.own = "held" /\ h.empty = Drained /\ h.mode = "running" /\ h.job # "none"
  BY <1>1, <1>3, <1>4, RunningLabel
<1>7. c \in Label /\ c.own = "out" /\ c.empty = Drained /\ c.mode = "running"
  BY <1>1, <1>3, <1>4, RunningLabel
<1>8. c.job = "ended" /\ c.spare = y.spare /\ c.creates = y.creates
  BY <1>1, <1>3, HoldFields
<1>9. c = Hold(h, "out", c.empty)
  BY <1>4, <1>7, HoldTwice
<1>10. Rule(h, <<"feed", main>>, c)
  <2> HIDE DEF h, c
  <2> QED  BY <1>6, <1>7, <1>9 DEF Rule, FilterRule
<1> HIDE DEF h, c
<1>11. Rule(c, <<"closeJob", main>>, z)
  BY <1>7, <1>8 DEF Rule, JobRule
<1>12. /\ z \in Labels /\ z.own = "out" /\ z.mode = "running" /\ z.empty = Drained /\ z.job = "none"
       /\ z.spare = x.spare - 1 /\ z.creates = x.creates
  BY <1>3, <1>7, <1>8 DEF Label, Labels
<1> HIDE DEF z
<1>13. z \in Label
  BY <1>1, <1>12 DEF Label, PauseModes
<1>14. /\ <<"appendEndJob", main>> \in Step /\ <<"feed", main>> \in Step
       /\ <<"closeJob", main>> \in Step
  BY DEF Step
<1> DEFINE first == << <<"appendEndJob", main>> >>
           last == << <<"feed", main>>, <<"closeJob", main>> >>
<1>15. Runs(first, x, y) /\ first \in Seq(Step)
  BY <1>2, <1>4, <1>14, RunsOne
<1>16. Runs(last, h, z) /\ last \in Seq(Step)
  BY <1>6, <1>7, <1>10, <1>11, <1>13, <1>14, RunsTwo
<1> HIDE DEF first, last
<1> DEFINE front == first \o DrainFilter(main)
<1>17. Runs(front, x, h) /\ front \in Seq(Step)
  BY <1>4, <1>5, <1>6, <1>15, RunsAppended
<1> HIDE DEF front
<1>18. Runs(front \o last, x, z) /\ front \o last \in Seq(Step)
  BY <1>6, <1>13, <1>16, <1>17, RunsAppended
<1>19. Runs(HandleEndJob(main), x, z) /\ HandleEndJob(main) \in Seq(Step)
  BY <1>18 DEF HandleEndJob, front, first, last
<1> QED  BY <1>12, <1>13, <1>19

\* handle_new_job()
LEMMA NewJobRuns ==
    ASSUME NEW x \in Label, x.own = "out", x.mode = "running", x.job = "none",
           x.spare > 0, x.creates > 0, NEW dev \in Dev
    PROVE  \E z \in Label :
              /\ z.own = "out" /\ z.mode = "running" /\ z.job = "open"
              /\ Runs(HandleNewJob(dev), x, z) /\ HandleNewJob(dev) \in Seq(Step)
<1> DEFINE none == {}
           y == Spend(x, "open", none)
           z == Create(y)
<1>1. /\ x \in Labels /\ none \in SUBSET Known /\ "lines" \notin none /\ "fout" \notin none
  BY DEF Label, Known
<1>2. Rule(x, <<"createJob", dev>>, z)
  BY DEF Rule, JobRule
<1> HIDE DEF none
<1>3. /\ y \in Labels /\ y.own = "out" /\ y.empty = none /\ y.job = "open" /\ y.mode = "running"
      /\ y.creates = x.creates
  BY <1>1, SpendFields
<1> HIDE DEF y
<1>4. z \in Labels /\ z.own = "out" /\ z.empty = none /\ z.job = "open" /\ z.mode = "running"
  BY <1>3, CreateFields
<1> HIDE DEF z
<1>5. z \in Label
  BY <1>1, <1>4 DEF Label, PauseModes
<1>6. <<"createJob", dev>> \in Step
  BY DEF Step
<1>7. Runs(HandleNewJob(dev), x, z) /\ HandleNewJob(dev) \in Seq(Step)
  BY <1>2, <1>5, <1>6, RunsOne DEF HandleNewJob
<1> QED  BY <1>4, <1>5, <1>7

\* Between two handlers, a job runs and nothing is held.
Ready(z) == z.own = "out" /\ z.mode = "running" /\ z.job = "open"
Leads(x, s) == s \in Seq(Step) /\ \E z \in Label : Ready(z) /\ Runs(s, x, z)

LEMMA LeadsAppended ==
    ASSUME NEW x \in Label, NEW y \in Label, NEW s \in Seq(Step), NEW t,
           Runs(s, x, y), Leads(y, t)
    PROVE  Leads(x, s \o t)
<1>1. PICK z \in Label : Ready(z) /\ Runs(t, y, z)
  BY DEF Leads
<1>2. t \in Seq(Step)
  BY DEF Leads
<1>3. Runs(s \o t, x, z) /\ s \o t \in Seq(Step)
  BY <1>1, <1>2, RunsAppended
<1> QED  BY <1>1, <1>3 DEF Leads

\* A packet less to issue, in a pause or outside one.
LEMMA SpendLabel ==
    ASSUME NEW x \in Label, x.spare > 0, x.job # "none",
           NEW e \in SUBSET Known,
           \/ x.mode = "running" /\ e = x.empty
           \/ x.mode = "running" /\ e = {}
           \/ x.mode = "paused" /\ e \in {Drained, Known}
    PROVE  /\ Spend(x, x.job, e) \in Label
           /\ Spend(x, x.job, e).own = x.own /\ Spend(x, x.job, e).empty = e
           /\ Spend(x, x.job, e).job = x.job /\ Spend(x, x.job, e).mode = x.mode
           /\ Spend(x, x.job, e).spare = x.spare - 1 /\ Spend(x, x.job, e).creates = x.creates
<1> DEFINE y == Spend(x, x.job, e)
<1>1. x \in Labels /\ x.job \in {"none", "open", "ended"}
  BY DEF Label, Labels
<1>2. /\ y \in Labels /\ y.own = x.own /\ y.empty = e /\ y.job = x.job /\ y.mode = x.mode
      /\ y.spare = x.spare - 1 /\ y.creates = x.creates
  BY <1>1, SpendFields
<1> HIDE DEF y
<1>3. y \in Label
  <2>1. CASE x.mode = "running" /\ e = x.empty
    BY <1>2, <2>1 DEF Label, PauseModes
  <2>2. CASE x.mode = "running" /\ e = {}
    BY <1>2, <2>2 DEF Label, PauseModes
  <2>3. CASE x.mode = "paused" /\ e \in {Drained, Known}
    BY <1>2, <2>3 DEF Label, PauseModes, Drained, Known
  <2> QED  BY <2>1, <2>2, <2>3
<1> QED  BY <1>2, <1>3 DEF y

LEMMA AccessLeads ==
    ASSUME NEW x \in Label, Ready(x), x.spare > 0
    PROVE  Leads(x, << <<"appendAccess", main>> >>)
<1> DEFINE none == {}
           z == Spend(x, x.job, none)
<1>1. Rule(x, <<"appendAccess", main>>, z)
  BY DEF Rule, JobRule, Ready
<1> HIDE DEF none
<1>2. z \in Label /\ Ready(z)
  BY SpendLabel DEF Ready, none
<1>3. <<"appendAccess", main>> \in Step
  BY DEF Step
<1> HIDE DEF z
<1>4. Runs(<< <<"appendAccess", main>> >>, x, z) /\ << <<"appendAccess", main>> >> \in Seq(Step)
  BY <1>1, <1>2, <1>3, RunsOne
<1> QED  BY <1>2, <1>4 DEF Leads

LEMMA OpenglLeads ==
    ASSUME NEW x \in Label, Ready(x), x.spare > 0
    PROVE  Leads(x, HandleOpenglCall)
<1> DEFINE z == Spend(x, x.job, x.empty)
<1>1. Rule(x, <<"push", "OPENGL_CALL">>, z)
  BY DEF Rule, QueueRule, Ready, Markers
<1>2. x.empty \in SUBSET Known
  BY DEF Label, Labels
<1>3. z \in Label /\ Ready(z)
  BY <1>2, SpendLabel DEF Ready
<1> HIDE DEF z
<1>4. Rule(x, <<"rwLock", 0>>, x) /\ Rule(z, <<"rwUnlock", 0>>, z)
  BY <1>3 DEF Rule, QueueRule, Ready
<1>5. <<"rwLock", 0>> \in Step /\ <<"push", "OPENGL_CALL">> \in Step /\ <<"rwUnlock", 0>> \in Step
  BY DEF Step, Markers
<1>6. Runs(HandleOpenglCall, x, z) /\ HandleOpenglCall \in Seq(Step)
  BY <1>1, <1>3, <1>4, <1>5, RunsThree DEF HandleOpenglCall
<1> QED  BY <1>3, <1>6 DEF Leads

\* handle_sync(), after which another packet may be pushed.
LEMMA SyncRuns ==
    ASSUME NEW x \in Label, Ready(x), x.spare > 0, NEW cmd \in Markers
    PROVE  \E z \in Label : /\ Ready(z) /\ z.spare = x.spare - 1
                            /\ Runs(HandleSync(cmd), x, z) /\ HandleSync(cmd) \in Seq(Step)
<1>1. PICK p \in Label :
        /\ p.own = "held" /\ p.mode = "paused" /\ p.empty = Known
        /\ p.job = x.job /\ p.spare = x.spare
        /\ Runs(PauseAndDrainBuffers, x, p) /\ PauseAndDrainBuffers \in Seq(Step)
  BY PauseRuns DEF Ready
<1> DEFINE q == Spend(p, p.job, Drained)
<1>2. Rule(p, <<"push", cmd>>, q)
  BY <1>1 DEF Rule, PausedRule, Known
<1>3. /\ q \in Label /\ q.own = "held" /\ q.mode = "paused" /\ q.job = x.job
      /\ q.spare = x.spare - 1
  <2>1. Drained \in SUBSET Known /\ p.job # "none" /\ p.spare > 0 /\ p.mode = "paused"
    BY <1>1 DEF Drained, Known, Ready
  <2>2. /\ q \in Label /\ q.own = p.own /\ q.mode = p.mode /\ q.job = p.job
        /\ q.spare = p.spare - 1
    BY <2>1, SpendLabel
  <2> QED  BY <1>1, <2>2
<1> HIDE DEF q
<1>4. PICK z \in Label :
        /\ z.own = "out" /\ z.mode = "running" /\ z.job = q.job /\ z.spare = q.spare
        /\ Runs(Resume, q, z) /\ Resume \in Seq(Step)
  BY <1>3, ResumeRuns
<1>5. <<"push", cmd>> \in Step
  BY DEF Step
<1> DEFINE one == << <<"push", cmd>> >>
<1>6. Runs(one, p, q) /\ one \in Seq(Step)
  BY <1>2, <1>3, <1>5, RunsOne
<1> HIDE DEF one
<1> DEFINE front == PauseAndDrainBuffers \o one
<1>7. Runs(front, x, q) /\ front \in Seq(Step)
  BY <1>1, <1>3, <1>6, RunsAppended
<1> HIDE DEF front
<1>8. Runs(front \o Resume, x, z) /\ front \o Resume \in Seq(Step)
  BY <1>3, <1>4, <1>7, RunsAppended
<1>9. Ready(z) /\ z.spare = x.spare - 1
  BY <1>3, <1>4 DEF Ready
<1> QED  BY <1>8, <1>9 DEF HandleSync, front, one

LEMMA ResourceLeads ==
    ASSUME NEW x \in Label, Ready(x), x.spare > 0, NEW cmd \in Markers
    PROVE  Leads(x, HandleResource(cmd))
<1>1. PICK p \in Label :
        /\ p.own = "held" /\ p.mode = "paused" /\ p.empty = Known
        /\ p.job = x.job /\ p.spare = x.spare
        /\ Runs(PauseAndDrainBuffers, x, p) /\ PauseAndDrainBuffers \in Seq(Step)
  BY PauseRuns DEF Ready
<1> DEFINE q == Spend(p, p.job, Drained)
<1>2. Rule(p, <<"push", cmd>>, q)
  BY <1>1 DEF Rule, PausedRule, Known
<1>3. /\ q \in Label /\ q.own = "held" /\ q.mode = "paused" /\ q.job = x.job
      /\ q.spare = x.spare - 1
  <2>1. Drained \in SUBSET Known /\ p.job # "none" /\ p.spare > 0 /\ p.mode = "paused"
    BY <1>1 DEF Drained, Known, Ready
  <2>2. /\ q \in Label /\ q.own = p.own /\ q.mode = p.mode /\ q.job = p.job
        /\ q.spare = p.spare - 1
    BY <2>1, SpendLabel
  <2> QED  BY <1>1, <2>2
<1> HIDE DEF q
<1>4. PICK z \in Label :
        /\ z.own = "out" /\ z.mode = "running" /\ z.job = q.job /\ z.spare = q.spare
        /\ Runs(Resume, q, z) /\ Resume \in Seq(Step)
  BY <1>3, ResumeRuns
<1>5. <<"push", cmd>> \in Step /\ <<"rwLock", 0>> \in Step /\ <<"rwUnlock", 0>> \in Step
  BY DEF Step
<1>6. Rule(p, <<"rwLock", 0>>, p) /\ Rule(q, <<"rwUnlock", 0>>, q)
  BY <1>1, <1>3 DEF Rule, PausedRule
<1> DEFINE mid == << <<"rwLock", 0>>, <<"push", cmd>>, <<"rwUnlock", 0>> >>
<1>7. Runs(mid, p, q) /\ mid \in Seq(Step)
  BY <1>2, <1>3, <1>5, <1>6, RunsThree
<1> HIDE DEF mid
<1> DEFINE front == PauseAndDrainBuffers \o mid
<1>8. Runs(front, x, q) /\ front \in Seq(Step)
  BY <1>1, <1>3, <1>7, RunsAppended
<1> HIDE DEF front
<1>9. Runs(front \o Resume, x, z) /\ front \o Resume \in Seq(Step)
  BY <1>3, <1>4, <1>8, RunsAppended
<1>10. Ready(z)
  BY <1>3, <1>4 DEF Ready
<1> QED  BY <1>9, <1>10 DEF HandleResource, front, mid, Leads

LEMMA TileLeads ==
    ASSUME NEW x \in Label, Ready(x), x.spare > 1, x.creates > 0, NEW dev \in Dev
    PROVE  Leads(x, HandleTile(main, dev))
<1>0. x.spare \in Nat /\ x.creates \in Nat
  BY DEF Label, Labels
<1>1. PICK y \in Label :
        /\ y.own = "out" /\ y.mode = "running" /\ y.empty = Drained
        /\ y.job = "none" /\ y.spare = x.spare - 1 /\ y.creates = x.creates
        /\ Runs(HandleEndJob(main), x, y) /\ HandleEndJob(main) \in Seq(Step)
  BY <1>0, EndJobRuns DEF Ready
<1>2. y.spare > 0 /\ y.creates > 0
  BY <1>0, <1>1
<1>3. PICK z \in Label :
        /\ z.own = "out" /\ z.mode = "running" /\ z.job = "open"
        /\ Runs(HandleNewJob(dev), y, z) /\ HandleNewJob(dev) \in Seq(Step)
  BY <1>1, <1>2, NewJobRuns
<1>4. Leads(y, HandleNewJob(dev))
  BY <1>3 DEF Leads, Ready
<1> QED  BY <1>1, <1>4, LeadsAppended DEF HandleTile

LEMMA DrawLeads ==
    ASSUME NEW x \in Label, Ready(x), x.spare > 1, x.creates > 0, NEW dev \in Dev
    PROVE  Leads(x, HandleDraw(main, dev))
<1>1. PICK p \in Label :
        /\ p.own = "held" /\ p.mode = "paused" /\ p.empty = Known
        /\ p.job = x.job /\ p.spare = x.spare /\ p.creates = x.creates
        /\ Runs(PauseAndDrainBuffers, x, p) /\ PauseAndDrainBuffers \in Seq(Step)
  BY PauseRuns DEF Ready
<1>2. PICK q \in Label :
        /\ q.own = "out" /\ q.mode = "running"
        /\ q.job = p.job /\ q.spare = p.spare /\ q.creates = p.creates
        /\ Runs(Resume, p, q) /\ Resume \in Seq(Step)
  BY <1>1, ResumeRuns
<1> DEFINE front == PauseAndDrainBuffers \o Resume
<1>3. Runs(front, x, q) /\ front \in Seq(Step)
  BY <1>1, <1>2, RunsAppended
<1>4. Ready(q) /\ q.spare > 1 /\ q.creates > 0
  BY <1>1, <1>2 DEF Ready
<1>5. q.spare \in Nat /\ q.creates \in Nat
  BY DEF Label, Labels
<1> HIDE DEF front
<1>6. PICK y \in Label :
        /\ y.own = "out" /\ y.mode = "running" /\ y.empty = Drained
        /\ y.job = "none" /\ y.spare = q.spare - 1 /\ y.creates = q.creates
        /\ Runs(HandleEndJob(main), q, y) /\ HandleEndJob(main) \in Seq(Step)
  BY <1>4, <1>5, EndJobRuns DEF Ready
<1> DEFINE middle == front \o HandleEndJob(main)
<1>7. Runs(middle, x, y) /\ middle \in Seq(Step)
  BY <1>3, <1>6, RunsAppended
<1> HIDE DEF middle
<1>8. y.spare > 0 /\ y.creates > 0
  BY <1>4, <1>5, <1>6
<1>9. PICK z \in Label :
        /\ z.own = "out" /\ z.mode = "running" /\ z.job = "open"
        /\ Runs(HandleNewJob(dev), y, z) /\ HandleNewJob(dev) \in Seq(Step)
  BY <1>6, <1>8, NewJobRuns
<1>10. Leads(y, HandleNewJob(dev))
  BY <1>9 DEF Leads, Ready
<1> QED  BY <1>7, <1>10, LeadsAppended DEF HandleDraw, middle, front

LEMMA SceneEndLeads ==
    ASSUME NEW x \in Label, Ready(x), x.spare > 1
    PROVE  Leads(x, HandleSceneEnd)
<1>0. x.spare \in Nat /\ "END_SCENE" \in Markers /\ "NEW_SCENE" \in Markers
  BY DEF Label, Labels, Markers
<1>1. PICK y \in Label : /\ Ready(y) /\ y.spare = x.spare - 1
                         /\ Runs(HandleSync("END_SCENE"), x, y) /\ HandleSync("END_SCENE") \in Seq(Step)
  BY <1>0, SyncRuns
<1>2. y.spare > 0
  BY <1>0, <1>1
<1>3. PICK z \in Label : /\ Ready(z)
                         /\ Runs(HandleSync("NEW_SCENE"), y, z) /\ HandleSync("NEW_SCENE") \in Seq(Step)
  BY <1>0, <1>1, <1>2, SyncRuns
<1>4. Leads(y, HandleSync("NEW_SCENE"))
  BY <1>3 DEF Leads
<1> QED  BY <1>1, <1>4, LeadsAppended DEF HandleSceneEnd

LEMMA SwapLeads ==
    ASSUME NEW x \in Label, Ready(x), x.spare > 1
    PROVE  Leads(x, HandleSwapBuffers)
<1>0. x.spare \in Nat /\ "NEW_FRAME" \in Markers /\ "NEW_SCENE" \in Markers
  BY DEF Label, Labels, Markers
<1>1. PICK p \in Label :
        /\ p.own = "held" /\ p.mode = "paused" /\ p.empty = Known
        /\ p.job = x.job /\ p.spare = x.spare
        /\ Runs(PauseAndDrainBuffers, x, p) /\ PauseAndDrainBuffers \in Seq(Step)
  BY PauseRuns DEF Ready
<1> DEFINE q == Spend(p, p.job, Known)
           r == Spend(q, q.job, Known)
           z == Mode(Hold(r, "out", Drained), "running", Drained)
<1>2. Known \in SUBSET Known /\ "fout" \in Known /\ Drained \in SUBSET Known /\ "fin" \in Drained
      /\ "fout" \notin Drained
  BY DEF Known, Drained
<1>3. Rule(p, <<"rwLock", 0>>, p)
  BY <1>1 DEF Rule, PausedRule
<1>4. Rule(p, <<"process", "NEW_FRAME">>, q)
  BY <1>0, <1>1, <1>2 DEF Rule, PausedRule
<1>5. /\ q \in Label /\ q.own = "held" /\ q.mode = "paused" /\ q.empty = Known
      /\ q.job = x.job /\ q.spare = x.spare - 1
  <2>1. p.job # "none" /\ p.spare > 0
    BY <1>0, <1>1 DEF Ready
  <2>2. Known \in SUBSET Known /\ Known \in {Drained, Known}
    BY <1>2
  <2> QED  BY <1>1, <2>1, <2>2, SpendLabel
<1> HIDE DEF q
<1>6. Rule(q, <<"process", "NEW_SCENE">>, r)
  BY <1>0, <1>2, <1>5 DEF Rule, PausedRule
<1>7. /\ r \in Label /\ r.own = "held" /\ r.mode = "paused" /\ r.empty = Known /\ r.job = "open"
  <2>1. q.job # "none" /\ q.spare > 0 /\ q.job = "open"
    BY <1>0, <1>5 DEF Ready
  <2> QED  BY <1>2, <1>5, <2>1, SpendLabel
<1> HIDE DEF r
<1>8. Rule(r, <<"stopOrGo", 0>>, z)
  BY <1>2, <1>7 DEF Rule, PausedRule
<1>9. z \in Labels /\ z.own = "out" /\ z.empty = Drained /\ z.job = "open" /\ z.mode = "running"
  <2> DEFINE h == Hold(r, "out", Drained)
  <2>1. r \in Labels
    BY <1>7 DEF Label
  <2>2. h \in Labels /\ h.own = "out" /\ h.job = "open"
    BY <1>2, <1>7, <2>1, HoldFields
  <2> HIDE DEF h
  <2>3. Mode(h, "running", Drained) \in Labels /\ Mode(h, "running", Drained).own = "out"
        /\ Mode(h, "running", Drained).empty = Drained /\ Mode(h, "running", Drained).job = "open"
        /\ Mode(h, "running", Drained).mode = "running"
    BY <1>2, <2>2, ModeFields
  <2> QED  BY <2>3 DEF h
<1> HIDE DEF z
<1>10. z \in Label
  BY <1>2, <1>9 DEF Label, PauseModes
<1>11. /\ <<"rwLock", 0>> \in Step /\ <<"process", "NEW_FRAME">> \in Step
       /\ <<"process", "NEW_SCENE">> \in Step /\ <<"stopOrGo", 0>> \in Step
  BY DEF Step, Markers
<1> DEFINE last == << <<"rwLock", 0>>, <<"process", "NEW_FRAME">>,
                      <<"process", "NEW_SCENE">>, <<"stopOrGo", 0>> >>
<1>12. Runs(last, p, z) /\ last \in Seq(Step)
  BY <1>3, <1>4, <1>5, <1>6, <1>7, <1>8, <1>10, <1>11, RunsFour
<1> HIDE DEF last
<1>13. Leads(p, last)
  BY <1>9, <1>10, <1>12 DEF Leads, Ready
<1> QED  BY <1>1, <1>13, LeadsAppended DEF HandleSwapBuffers, last

\* Every handler a thread may run leads from one job to the next.
LEMMA BodiesLead ==
    ASSUME NEW x \in Label, Ready(x), x.spare > 1, x.creates > 0,
           NEW h \in Handler, NEW body \in Bodies(main, h)
    PROVE  Leads(x, body)
<1>0. x.spare \in Nat /\ x.spare > 0
  BY DEF Label, Labels
<1>1. CASE h = "access"
  BY <1>0, <1>1, AccessLeads DEF Bodies
<1>2. CASE h = "opengl"
  BY <1>0, <1>2, OpenglLeads DEF Bodies
<1>3. CASE h = "sync"
  <2>1. "SYNC" \in Markers /\ body = HandleSync("SYNC")
    BY <1>3 DEF Bodies, Markers
  <2> QED  BY <1>0, <2>1, SyncRuns DEF Leads
<1>4. CASE h = "resource"
  <2>1. \E cmd \in Markers : body = HandleResource(cmd)
    BY <1>4 DEF Bodies, Markers
  <2> QED  BY <1>0, <2>1, ResourceLeads
<1>5. CASE h = "draw"
  <2>1. \E dev \in Dev : body = HandleDraw(main, dev)
    BY <1>5 DEF Bodies
  <2> QED  BY <2>1, DrawLeads
<1>6. CASE h = "tile"
  <2>1. \E dev \in Dev : body = HandleTile(main, dev)
    BY <1>6 DEF Bodies
  <2> QED  BY <2>1, TileLeads
<1>7. CASE h = "sceneEnd"
  BY <1>7, SceneEndLeads DEF Bodies
<1>8. CASE h = "swap"
  BY <1>8, SwapLeads DEF Bodies
<1> QED  BY <1>1, <1>2, <1>3, <1>4, <1>5, <1>6, <1>7, <1>8 DEF Handler

(***************************************************************************)
(* What a label says of the state.                                         *)
(***************************************************************************)
Pkts == [cmd : {"NEW_JOB", "END_JOB", "ACCESS"}, job : Jobs]
FilterPcs ==
    {"none", "pop", "popped", "lock", "items", "fullThenNext", "access", "fullThenAccess",
     "signal"}
Full == {"fullThenNext", "fullThenAccess"}
Reading == {"items", "fullThenNext", "access", "fullThenAccess"}

TypeOK ==
    /\ todo \in [App -> Seq(Step)]
    /\ calls \in [App -> 0 .. MaxCalls]
    /\ buf \in [App -> [0 .. 1 -> Seq(Pkts)]]
    /\ out \in [App -> 0 .. 1]
    /\ fHasWork \in [App -> BOOLEAN]
    /\ fDone \in [App -> BOOLEAN]
    /\ filter \in [App -> [pc : FilterPcs, in : 0 .. 1, pos : Nat,
                           pkt : Pkts \cup {Marker("NONE")}]]
    /\ cache \in [App -> SUBSET [job : 1 .. MaxCalls + 1, dev : Dev]]
    /\ rscDev \in Dev
    /\ job \in [App -> Jobs \cup {NoJob}]
    /\ nextJob \in Nat \ {0}
    /\ stop \in Nat
    /\ exited \in {"no", "stop", "finish", "abort"}

\* Whose the filter queue is.
Shares(x) ==
    /\ x.own = "none" =>
           gids = <<>> /\ ~ fHasWork[main] /\ ~ fDone[main] /\ filter[main].pc = "none"
    /\ x.own # "none" => gids = <<main>> /\ filter[main].pc # "none"
    /\ x.own = "out" =>
           \/ /\ fDone[main] /\ ~ fHasWork[main] /\ filter[main].pc = "pop"
              /\ Fin(main) = <<>>
           \/ /\ ~ fDone[main]
              /\ fHasWork[main] <=> filter[main].pc \in {"pop", "popped"}
    /\ x.own = "ready" => fDone[main] /\ ~ fHasWork[main] /\ filter[main].pc = "pop"
    /\ x.own = "held" => ~ fDone[main] /\ ~ fHasWork[main] /\ filter[main].pc = "pop"

\* What x knows to be empty.
Empties(x) ==
    /\ "gpu" \in x.empty => Gpu(main) = <<>>
    /\ "fin" \in x.empty => Fin(main) = <<>>
    /\ "lines" \in x.empty => cache[main] = {}
    /\ "fout" \in x.empty => queue.fout = <<>>

\* Where the filter thread is in its buffer.
Place ==
    LET f == filter[main] IN
    /\ f.pc \in Reading =>
           f.in = 1 - out[main] /\ f.pos >= 1 /\ f.pos <= Len(Fin(main)) + 1
    /\ f.pc \in Reading \ {"items"} => f.pos <= Len(Fin(main))
    /\ f.pc \in {"access", "fullThenAccess"} => f.pkt = Fin(main)[f.pos] /\ f.pkt.cmd = "ACCESS"
    /\ f.pc = "signal" => Fin(main) = <<>>

AccessOf(j, s) == \A i \in 1 .. Len(s) : s[i].cmd = "ACCESS" => s[i].job = j

\* Accesses and dirty lines belong to the job that runs.
JobData(x) ==
    /\ x.job = "none" => job[main] = NoJob
    /\ x.job # "none" => job[main] \in Jobs
    /\ AccessOf(job[main], Gpu(main))
    /\ AccessOf(job[main], Fin(main))
    /\ \A l \in cache[main] : JobOf(l.job, l.dev) = job[main]

\* Who is inside the analysis queue.
Calling(x) ==
    /\ x.mode = "paused" => paused = {main}
    /\ x.mode # "paused" => paused = {}
    /\ x.mode = "handOver" =>
           producerMtx = main /\ Fills(queue) /\ filter[main].pc \notin Full
    /\ filter[main].pc \in Full => producerMtx = Filter(main) /\ Fills(queue)
    /\ Fills(queue) => x.mode = "handOver" \/ filter[main].pc \in Full

\* The process stops in a pause, with all packets processed.
Stopped(x) == exited = "stop" => x.mode = "paused" /\ x.own = "held" /\ "fout" \in x.empty

\* The packets the filter thread has left to process.
Left ==
    IF filter[main].pc = "items" THEN Len(Fin(main)) + 1 - filter[main].pos
    ELSE IF filter[main].pc \in Reading THEN Len(Fin(main)) - filter[main].pos
    ELSE Len(Fin(main))

\* The stream stays within its bound, and job ids within theirs.
Counts(x) ==
    /\ Len(pushed) + Left + Len(Gpu(main)) + x.spare <= 2 * calls[main] + 2
    /\ nextJob + x.creates <= calls[main] + 2

Matches(x) ==
    Shares(x) /\ Empties(x) /\ Place /\ JobData(x) /\ Calling(x) /\ Stopped(x) /\ Counts(x)

\* x labels the state: it holds, and the steps left lead on from it.
Doing(x) == Leads(x, todo[main]) /\ Matches(x)

GInv == TypeOK /\ QueueTypeOK /\ \E x \in Label : Doing(x)

LEMMA MainThread == ASSUME OneThread PROVE main \in App /\ \A t \in App : t = main
  BY DEF OneThread

\* The buffers, the job and the queue are as they were: so is all that a label of the same
\* mode and job says of them, whoever has the filter queue.
LEMMA SameRest ==
    ASSUME NEW x \in Label, NEW y \in Label, Matches(x),
           queue'.fout = queue.fout,
           UNCHANGED <<producerMtx, pushed, buf, out, filter, cache, job, nextJob, calls, paused>>,
           y.mode = x.mode, y.job = x.job, y.spare = x.spare, y.creates = x.creates
    PROVE  Place' /\ JobData(y)' /\ Calling(y)' /\ Counts(y)'
<1>1. Gpu(main)' = Gpu(main) /\ Fin(main)' = Fin(main)
  BY DEF Gpu, Fin
<1>2. Left' = Left
  BY <1>1 DEF Left
<1>3. Place'
  BY <1>1 DEF Matches, Place
<1>4. JobData(y)'
  BY <1>1 DEF Matches, JobData, AccessOf
<1>5. Calling(y)'
  BY DEF Matches, Calling, Fills
<1>6. Counts(y)'
  BY <1>1, <1>2 DEF Matches, Counts
<1> QED  BY <1>3, <1>4, <1>5, <1>6

\* Nothing a label speaks of has changed.
LEMMA SameState ==
    ASSUME NEW x \in Label, Matches(x),
           queue'.fout = queue.fout,
           UNCHANGED <<producerMtx, pushed, stageVars, jobVars, calls, gids, exited, historyVars>>
    PROVE  Matches(x)'
<1>1. UNCHANGED <<buf, out, fHasWork, fDone, filter, cache, job, nextJob, paused>>
  BY DEF stageVars, jobVars, historyVars
<1>2. Place' /\ JobData(x)' /\ Calling(x)' /\ Counts(x)'
  BY <1>1, SameRest
<1>3. Gpu(main)' = Gpu(main) /\ Fin(main)' = Fin(main)
  BY <1>1 DEF Gpu, Fin
<1>4. Shares(x)'
  BY <1>1, <1>3 DEF Matches, Shares
<1>5. Empties(x)'
  BY <1>1, <1>3 DEF Matches, Empties
<1>6. Stopped(x)'
  BY DEF Matches, Stopped
<1> QED  BY <1>2, <1>4, <1>5, <1>6 DEF Matches

\* The first step left follows the rules, and the rest leads on.
LEMMA NextStep ==
    ASSUME NEW x \in Label, NEW s \in Seq(Step), s # <<>>, Leads(x, s)
    PROVE  \E y \in Label : Rule(x, Head(s), y) /\ Leads(y, Tail(s))
<1>1. PICK z \in Label : Ready(z) /\ Runs(s, x, z)
  BY DEF Leads
<1>2. PICK y \in Label : Rule(x, Head(s), y) /\ Runs(Tail(s), y, z)
  BY <1>1, RunsHead
<1>3. Tail(s) \in Seq(Step)
  OBVIOUS
<1> QED  BY <1>1, <1>2, <1>3 DEF Leads

LEMMA NothingLeft == ASSUME NEW x \in Label, Leads(x, <<>>) PROVE Ready(x)
<1>1. PICK z \in Label : Ready(z) /\ Runs(<<>>, x, z)
  BY DEF Leads
<1>2. PICK L : L[1] = x /\ L[Len(<<>>) + 1] = z
  BY <1>1 DEF Runs
<1>3. Len(<<>>) + 1 = 1
  OBVIOUS
<1> QED  BY <1>1, <1>2, <1>3

\* What the two buffers are, and what the steps do to them.
LEMMA Buffers ==
    ASSUME OneThread, TypeOK
    PROVE  /\ Gpu(main) \in Seq(Pkts) /\ Fin(main) \in Seq(Pkts)
           /\ out[main] \in 0 .. 1 /\ 1 - out[main] \in 0 .. 1 /\ 1 - out[main] # out[main]
           /\ Gpu(main) = buf[main][out[main]] /\ Fin(main) = buf[main][1 - out[main]]
<1>1. main \in App
  BY MainThread
<1>2. out[main] \in 0 .. 1 /\ buf[main] \in [0 .. 1 -> Seq(Pkts)]
  BY <1>1 DEF TypeOK
<1>3. out[main] = 0 \/ out[main] = 1
  BY <1>2
<1> QED  BY <1>2, <1>3 DEF Gpu, Fin

LEMMA Appending ==
    ASSUME OneThread, TypeOK, NEW p \in Pkts, AppendPacket(main, p), UNCHANGED out
    PROVE  /\ buf' \in [App -> [0 .. 1 -> Seq(Pkts)]]
           /\ Gpu(main)' = Append(Gpu(main), p) /\ Fin(main)' = Fin(main)
           /\ buf'[main][out[main]] = Gpu(main)'
<1>1. main \in App /\ Gpu(main) \in Seq(Pkts) /\ out[main] \in 0 .. 1
      /\ 1 - out[main] \in 0 .. 1 /\ 1 - out[main] # out[main]
      /\ Gpu(main) = buf[main][out[main]] /\ Fin(main) = buf[main][1 - out[main]]
  BY MainThread, Buffers
<1> DEFINE g == Append(Gpu(main), p)
<1>2. g \in Seq(Pkts)
  BY <1>1
<1>3. buf' = [buf EXCEPT ![main][out[main]] = g]
  BY <1>1 DEF AppendPacket
<1> HIDE DEF g
<1>4. buf \in [App -> [0 .. 1 -> Seq(Pkts)]]
  BY DEF TypeOK
<1>5. buf' \in [App -> [0 .. 1 -> Seq(Pkts)]]
  BY <1>1, <1>2, <1>3, <1>4
<1>6. buf'[main][out[main]] = g /\ buf'[main][1 - out[main]] = buf[main][1 - out[main]]
  BY <1>1, <1>3, <1>4
<1> QED  BY <1>1, <1>5, <1>6 DEF Gpu, Fin, g

LEMMA Rotating ==
    ASSUME OneThread, TypeOK,
           out' = [out EXCEPT ![main] = 1 - @],
           buf' = [buf EXCEPT ![main][1 - out[main]] = <<>>]
    PROVE  /\ buf' \in [App -> [0 .. 1 -> Seq(Pkts)]]
           /\ out' \in [App -> 0 .. 1]
           /\ Gpu(main)' = <<>> /\ Fin(main)' = Gpu(main)
<1>1. main \in App /\ out[main] \in 0 .. 1
      /\ 1 - out[main] \in 0 .. 1 /\ 1 - out[main] # out[main]
      /\ Gpu(main) = buf[main][out[main]]
  BY MainThread, Buffers
<1> DEFINE b == 1 - out[main]
           none == <<>>
<1>2. none \in Seq(Pkts) /\ b \in 0 .. 1 /\ b # out[main] /\ 1 - b = out[main]
  BY <1>1
<1>3. out' = [out EXCEPT ![main] = b] /\ buf' = [buf EXCEPT ![main][b] = none]
  OBVIOUS
<1> HIDE DEF b, none
<1>4. buf \in [App -> [0 .. 1 -> Seq(Pkts)]] /\ out \in [App -> 0 .. 1]
  BY DEF TypeOK
<1>5. buf' \in [App -> [0 .. 1 -> Seq(Pkts)]] /\ out' \in [App -> 0 .. 1]
  BY <1>1, <1>2, <1>3, <1>4
<1>6. out'[main] = b /\ buf'[main][b] = none /\ buf'[main][out[main]] = buf[main][out[main]]
  BY <1>1, <1>2, <1>3, <1>4
<1> QED  BY <1>1, <1>2, <1>5, <1>6 DEF Gpu, Fin, none

(***************************************************************************)
(* The steps of the thread on its filter queue.                            *)
(***************************************************************************)
LEMMA StepTaken ==
    ASSUME OneThread, TypeOK, NEW x \in Label, Leads(x, todo[main]), NEW name, At(main, name)
    PROVE  \E y \in Label :
              /\ Rule(x, Head(todo[main]), y) /\ Leads(y, Tail(todo[main]))
              /\ Head(todo[main])[1] = name
<1>1. todo[main] \in Seq(Step) /\ todo[main] # <<>>
  BY MainThread DEF TypeOK, At
<1> QED  BY <1>1, NextStep DEF At

LEMMA Continued ==
    ASSUME OneThread, TypeOK, todo[main] # <<>>, NEW steps \in Seq(Step), Continue(main, steps)
    PROVE  /\ todo' \in [App -> Seq(Step)]
           /\ todo'[main] = steps \o Tail(todo[main])
<1>1. todo[main] \in Seq(Step) /\ main \in App /\ todo \in [App -> Seq(Step)]
  BY MainThread DEF TypeOK
<1> DEFINE s == steps \o Tail(todo[main])
<1>2. s \in Seq(Step)
  BY <1>1
<1>3. todo' = [todo EXCEPT ![main] = s]
  BY DEF Continue
<1> HIDE DEF s
<1>4. todo' \in [App -> Seq(Step)] /\ todo'[main] = s
  BY <1>1, <1>2, <1>3
<1> QED  BY <1>4 DEF s

LEMMA Finished ==
    ASSUME OneThread, TypeOK, todo[main] # <<>>, Finish(main)
    PROVE  todo' \in [App -> Seq(Step)] /\ todo'[main] = Tail(todo[main])
<1>1. Tail(todo[main]) \in Seq(Step) /\ <<>> \in Seq(Step)
  BY MainThread DEF TypeOK
<1>2. Continue(main, <<>>)
  BY DEF Finish
<1>3. todo' \in [App -> Seq(Step)] /\ todo'[main] = <<>> \o Tail(todo[main])
  BY <1>1, <1>2, Continued
<1>4. <<>> \o Tail(todo[main]) = Tail(todo[main])
  BY <1>1
<1> QED  BY <1>3, <1>4

LEMMA Inserted ==
    ASSUME OneThread, TypeOK, todo[main] # <<>>, NEW steps \in Seq(Step), Continue(main, steps),
           NEW x \in Label, NEW y \in Label, Runs(steps, x, y), Leads(y, Tail(todo[main]))
    PROVE  Leads(x, todo'[main])
  BY Continued, LeadsAppended

LEMMA AwaitKeeps ==
    ASSUME OneThread, TypeOK, NEW x \in Label, Doing(x), Await(main)
    PROVE  TypeOK' /\ \E y \in Label : Doing(y)' /\ y.mode = x.mode
<1>1. PICK y \in Label :
        /\ Rule(x, Head(todo[main]), y) /\ Leads(y, Tail(todo[main]))
        /\ Head(todo[main])[1] = "await"
  BY StepTaken DEF Await, Doing
<1>2. /\ Head(todo[main]) = <<"await", main>> /\ x.own = "out"
      /\ y = Hold(x, "ready", x.empty \cup {"fin"})
  BY <1>1 DEF Rule, FilterRule, JobRule, QueueRule, HandRule, PauseRule, PausedRule
<1>3. todo' \in [App -> Seq(Step)] /\ Leads(y, todo'[main])
  BY <1>1, Finished DEF Await, At
<1>4. TypeOK'
  BY <1>3 DEF TypeOK, Await, stageVars, jobVars, runVars
<1>5. /\ y.own = "ready" /\ y.empty = x.empty \cup {"fin"} /\ y.job = x.job /\ y.mode = x.mode
      /\ y.spare = x.spare /\ y.creates = x.creates
  BY <1>2 DEF Hold, Label, Labels
<1>6. Arg(main) = main
  BY <1>2 DEF Arg
<1>7. fDone[main]
  BY <1>6 DEF Await
<1>8. UNCHANGED <<queueVars, stageVars, jobVars, rwVars, runVars, historyVars>>
  BY DEF Await
<1>9. Matches(x)
  BY DEF Doing
<1>10. Shares(y)'
  BY <1>2, <1>5, <1>7, <1>8, <1>9 DEF Matches, Shares, stageVars, runVars
<1>11. Empties(y)'
  BY <1>2, <1>5, <1>7, <1>8, <1>9 DEF Matches, Shares, Empties, stageVars, queueVars, Gpu, Fin
<1>12. Place' /\ JobData(y)' /\ Calling(y)' /\ Counts(y)'
  BY <1>5, <1>8, <1>9, SameRest DEF stageVars, queueVars, jobVars, runVars, historyVars
<1>13. Stopped(y)'
  BY <1>8 DEF Await, At, Stopped, runVars
<1> QED  BY <1>3, <1>4, <1>5, <1>10, <1>11, <1>12, <1>13 DEF Doing, Matches

LEMMA ClearKeeps ==
    ASSUME OneThread, TypeOK, NEW x \in Label, Doing(x), Clear(main)
    PROVE  TypeOK' /\ \E y \in Label : Doing(y)' /\ y.mode = x.mode
<1>1. PICK y \in Label :
        /\ Rule(x, Head(todo[main]), y) /\ Leads(y, Tail(todo[main]))
        /\ Head(todo[main])[1] = "clear"
  BY StepTaken DEF Clear, Doing
<1>2. /\ Head(todo[main]) = <<"clear", main>> /\ x.own = "ready"
      /\ y = Hold(x, "held", x.empty)
  BY <1>1 DEF Rule, FilterRule, JobRule, QueueRule, HandRule, PauseRule, PausedRule
<1>3. todo' \in [App -> Seq(Step)] /\ Leads(y, todo'[main])
  BY <1>1, Finished DEF Clear, At
<1>4. /\ y.own = "held" /\ y.empty = x.empty /\ y.job = x.job /\ y.mode = x.mode
      /\ y.spare = x.spare /\ y.creates = x.creates
  BY <1>2 DEF Hold, Label, Labels
<1>5. Arg(main) = main /\ main \in App
  BY <1>2, MainThread DEF Arg
<1>6. /\ UNCHANGED <<queueVars, buf, out, fHasWork, filter, cache, rscDev, jobVars,
                     rwVars, runVars, historyVars>>
      /\ fDone' = [fDone EXCEPT ![main] = FALSE]
  BY <1>5 DEF Clear
<1>7. ~ fDone'[main] /\ fDone' \in [App -> BOOLEAN]
  BY <1>5, <1>6 DEF TypeOK
<1>8. TypeOK'
  BY <1>3, <1>6, <1>7 DEF TypeOK, jobVars, runVars
<1>9. Matches(x)
  BY DEF Doing
<1>10. Shares(y)' /\ Empties(y)'
  BY <1>2, <1>4, <1>6, <1>7, <1>9 DEF Matches, Shares, Empties, queueVars, runVars, Gpu, Fin
<1>11. Place' /\ JobData(y)' /\ Calling(y)' /\ Counts(y)'
  BY <1>4, <1>6, <1>9, SameRest DEF queueVars, jobVars, runVars, historyVars
<1>12. Stopped(y)'
  BY <1>6 DEF Clear, At, Stopped, runVars
<1> QED  BY <1>3, <1>4, <1>8, <1>10, <1>11, <1>12 DEF Doing, Matches

LEMMA RotateKeeps ==
    ASSUME OneThread, TypeOK, NEW x \in Label, Doing(x), RotateFilter(main)
    PROVE  /\ TypeOK' /\ \E y \in Label : Doing(y)' /\ y.mode = x.mode
           /\ Fin(main) = <<>>
<1>1. PICK y \in Label :
        /\ Rule(x, Head(todo[main]), y) /\ Leads(y, Tail(todo[main]))
        /\ Head(todo[main])[1] = "rotate"
  BY StepTaken DEF RotateFilter, Doing
<1>2. /\ Head(todo[main]) = <<"rotate", main>> /\ x.own = "held" /\ "fin" \in x.empty
      /\ \/ y = x /\ "gpu" \in x.empty
         \/ y = Hold(x, "held", {"gpu"})
      /\ x.mode = "running" /\ x.job # "none"
  BY <1>1 DEF Rule, FilterRule, JobRule, QueueRule, HandRule, PauseRule, PausedRule
<1>3. todo' \in [App -> Seq(Step)] /\ Leads(y, todo'[main])
  BY <1>1, Finished DEF RotateFilter, At
<1>4. /\ y.own = "held" /\ y.job = x.job /\ y.mode = x.mode
      /\ y.spare = x.spare /\ y.creates = x.creates
      /\ (y.empty = x.empty /\ "gpu" \in x.empty) \/ y.empty = {"gpu"}
  BY <1>2 DEF Hold, Label, Labels
<1>5. Arg(main) = main /\ main \in App
  BY <1>2, MainThread DEF Arg
<1>6. /\ UNCHANGED <<queueVars, fHasWork, fDone, filter, cache, rscDev, jobVars,
                     rwVars, runVars, historyVars>>
      /\ out' = [out EXCEPT ![main] = 1 - @]
      /\ buf' = [buf EXCEPT ![main][1 - out[main]] = <<>>]
  BY <1>5 DEF RotateFilter
<1>7. /\ buf' \in [App -> [0 .. 1 -> Seq(Pkts)]] /\ out' \in [App -> 0 .. 1]
      /\ Gpu(main)' = <<>> /\ Fin(main)' = Gpu(main)
  BY <1>6, Rotating
<1>8. TypeOK'
  BY <1>3, <1>6, <1>7 DEF TypeOK, jobVars, runVars
<1>9. Matches(x)
  BY DEF Doing
<1>10. Fin(main) = <<>> /\ filter[main].pc = "pop"
  BY <1>2, <1>9 DEF Matches, Shares, Empties
<1>11. Shares(y)'
  BY <1>2, <1>4, <1>6, <1>9 DEF Matches, Shares, runVars
<1>12. Empties(y)'
  BY <1>4, <1>6, <1>7, <1>9 DEF Matches, Empties, queueVars
<1>13. Place'
  BY <1>6, <1>10 DEF Place, Reading
<1>14. JobData(y)'
  <2>1. AccessOf(job[main], Gpu(main))' /\ AccessOf(job[main], Fin(main))'
    BY <1>6, <1>7, <1>9 DEF Matches, JobData, AccessOf, jobVars
  <2> QED  BY <1>4, <1>6, <1>9, <2>1 DEF Matches, JobData, jobVars
<1>15. Calling(y)' /\ Stopped(y)'
  BY <1>2, <1>4, <1>6, <1>9 DEF Matches, Calling, Stopped, queueVars, historyVars, runVars, Fills, At,
     RotateFilter
<1>16. Counts(y)'
  <2>1. Left = 0 /\ Left' = Len(Gpu(main)) /\ Len(Gpu(main))' = 0 /\ Len(Gpu(main)) \in Nat
    BY <1>6, <1>7, <1>10, Buffers DEF Left, Reading
  <2> QED  BY <1>4, <1>6, <1>9, <2>1 DEF Matches, Counts, queueVars, jobVars, runVars
<1> QED  BY <1>3, <1>4, <1>8, <1>10, <1>11, <1>12, <1>13, <1>14, <1>15, <1>16 DEF Doing, Matches

\* The filter thread gets its buffer.
LEMMA FeedKeeps ==
    ASSUME OneThread, TypeOK, NEW x \in Label, Doing(x),
           NEW y \in Label, Leads(y, Tail(todo[main])), todo[main] # <<>>,
           x.own = "held", y.empty \subseteq x.empty, y = Hold(x, "out", y.empty),
           exited = "no",
           Feed(main, {main})
    PROVE  TypeOK' /\ Doing(y)' /\ y.mode = x.mode
<1>1. todo' \in [App -> Seq(Step)] /\ Leads(y, todo'[main])
  BY Finished DEF Feed
<1>2. /\ y.own = "out" /\ y.job = x.job /\ y.mode = x.mode
      /\ y.spare = x.spare /\ y.creates = x.creates
  BY DEF Hold, Label, Labels
<1>3. /\ UNCHANGED <<queueVars, buf, out, fDone, filter, cache, rscDev, jobVars,
                     rwVars, runVars, historyVars>>
      /\ fHasWork' = [u \in App |-> u \in {main} \/ fHasWork[u]]
  BY DEF Feed
<1>4. fHasWork'[main] /\ fHasWork' \in [App -> BOOLEAN]
  BY <1>3, MainThread DEF TypeOK
<1>5. TypeOK'
  BY <1>1, <1>3, <1>4 DEF TypeOK, jobVars, runVars
<1>6. Matches(x)
  BY DEF Doing
<1>7. Shares(y)' /\ Empties(y)'
  BY <1>2, <1>3, <1>4, <1>6 DEF Matches, Shares, Empties, queueVars, runVars, Gpu, Fin
<1>8. Place' /\ JobData(y)' /\ Calling(y)' /\ Counts(y)'
  BY <1>2, <1>3, <1>6, SameRest DEF queueVars, jobVars, runVars, historyVars
<1>9. Stopped(y)'
  BY <1>3 DEF Stopped, runVars
<1> QED  BY <1>1, <1>2, <1>5, <1>7, <1>8, <1>9 DEF Doing, Matches

LEMMA FeedOneKeeps ==
    ASSUME OneThread, TypeOK, NEW x \in Label, Doing(x), FeedOne(main)
    PROVE  TypeOK' /\ \E y \in Label : Doing(y)' /\ y.mode = x.mode
<1>1. PICK y \in Label :
        /\ Rule(x, Head(todo[main]), y) /\ Leads(y, Tail(todo[main]))
        /\ Head(todo[main])[1] = "feed"
  BY StepTaken DEF FeedOne, Doing
<1>2. /\ Head(todo[main]) = <<"feed", main>> /\ x.own = "held"
      /\ y.empty \subseteq x.empty /\ y = Hold(x, "out", y.empty)
  BY <1>1 DEF Rule, FilterRule, JobRule, QueueRule, HandRule, PauseRule, PausedRule
<1>3. Feed(main, {main}) /\ exited = "no" /\ todo[main] # <<>>
  <2>1. Arg(main) = main
    BY <1>2 DEF Arg
  <2> QED  BY <2>1 DEF FeedOne, At
<1> QED  BY <1>1, <1>2, <1>3, FeedKeeps

LEMMA FeedAllKeeps ==
    ASSUME OneThread, TypeOK, NEW x \in Label, Doing(x), FeedAll(main)
    PROVE  TypeOK' /\ \E y \in Label : Doing(y)' /\ y.mode = x.mode
<1>1. PICK y \in Label :
        /\ Rule(x, Head(todo[main]), y) /\ Leads(y, Tail(todo[main]))
        /\ Head(todo[main])[1] = "feedAll"
  BY StepTaken DEF FeedAll, Doing
<1>2. x.own = "held" /\ y = Hold(x, "out", x.empty)
  BY <1>1 DEF Rule, FilterRule, JobRule, QueueRule, HandRule, PauseRule, PausedRule
<1>3. y.empty = x.empty
  BY <1>2 DEF Hold, Label, Labels
<1>4. gids = <<main>>
  BY <1>2 DEF Doing, Matches, Shares
<1>5. {gids[i] : i \in 1 .. Len(gids)} = {main}
  BY <1>4
<1>6. Feed(main, {main}) /\ exited = "no" /\ todo[main] # <<>>
  BY <1>5 DEF FeedAll, At
<1> QED  BY <1>1, <1>2, <1>3, <1>6, FeedKeeps

LEMMA FlushKeeps ==
    ASSUME OneThread, TypeOK, NEW x \in Label, Doing(x), FlushFilterCache(main)
    PROVE  TypeOK' /\ \E y \in Label : Doing(y)' /\ y.mode = x.mode
<1>1. PICK y \in Label :
        /\ Rule(x, Head(todo[main]), y) /\ Leads(y, Tail(todo[main]))
        /\ Head(todo[main])[1] = "flush"
  BY StepTaken DEF FlushFilterCache, Doing
<1>2. /\ Head(todo[main]) = <<"flush", main>> /\ x.own = "held"
      /\ y = Hold(x, "held", x.empty \cup {"lines"})
  BY <1>1 DEF Rule, FilterRule, JobRule, QueueRule, HandRule, PauseRule, PausedRule
<1>3. todo' \in [App -> Seq(Step)] /\ Leads(y, todo'[main])
  BY <1>1, Finished DEF FlushFilterCache, At
<1>4. /\ y.own = "held" /\ y.empty = x.empty \cup {"lines"} /\ y.job = x.job /\ y.mode = x.mode
      /\ y.spare = x.spare /\ y.creates = x.creates
  BY <1>2 DEF Hold, Label, Labels
<1>5. Arg(main) = main /\ main \in App
  BY <1>2, MainThread DEF Arg
<1>6. /\ UNCHANGED <<queueVars, buf, out, fHasWork, fDone, filter, rscDev, jobVars,
                     rwVars, runVars, historyVars>>
      /\ cache' = [cache EXCEPT ![main] = {}]
  BY <1>5 DEF FlushFilterCache
<1>7. cache'[main] = {} /\ cache' \in [App -> SUBSET [job : 1 .. MaxCalls + 1, dev : Dev]]
  BY <1>5, <1>6 DEF TypeOK
<1>8. TypeOK'
  BY <1>3, <1>6, <1>7 DEF TypeOK, jobVars, runVars
<1>9. Matches(x)
  BY DEF Doing
<1>10. Shares(y)' /\ Empties(y)'
  BY <1>2, <1>4, <1>6, <1>7, <1>9 DEF Matches, Shares, Empties, queueVars, runVars, Gpu, Fin
<1>11. Gpu(main)' = Gpu(main) /\ Fin(main)' = Fin(main) /\ Left' = Left
  BY <1>6 DEF Gpu, Fin, Left
<1>12. Place' /\ JobData(y)'
  BY <1>4, <1>6, <1>7, <1>9, <1>11 DEF Matches, Place, JobData, AccessOf, jobVars
<1>13. Calling(y)' /\ Counts(y)'
  BY <1>4, <1>6, <1>9, <1>11 DEF Matches, Calling, Counts, Fills,
     queueVars, jobVars, runVars, historyVars
<1>14. Stopped(y)'
  BY <1>6 DEF FlushFilterCache, At, Stopped, runVars
<1> QED  BY <1>3, <1>4, <1>8, <1>10, <1>12, <1>13, <1>14 DEF Doing, Matches

\* The loop over the one thread: one round, then the end.
LEMMA DrainKeeps ==
    ASSUME OneThread, TypeOK, NEW x \in Label, Doing(x), DrainNext(main)
    PROVE  TypeOK' /\ \E y \in Label : Doing(y)' /\ y.mode = x.mode
<1>1. PICK y \in Label :
        /\ Rule(x, Head(todo[main]), y) /\ Leads(y, Tail(todo[main]))
        /\ Head(todo[main])[1] = "drain"
  BY StepTaken DEF DrainNext, Doing
<1>2. /\ x.mode = "running" /\ x.job # "none"
      /\ \/ /\ Head(todo[main]) = <<"drain", 1>> /\ x.own = "out"
            /\ y = Hold(x, "held", Drained)
         \/ Head(todo[main]) = <<"drain", 2>> /\ x.own = "held" /\ y = x
  BY <1>1 DEF Rule, FilterRule, JobRule, QueueRule, HandRule, PauseRule, PausedRule
<1>3. Matches(x) /\ gids = <<main>> /\ todo[main] # <<>>
  BY <1>2 DEF Doing, Matches, Shares, DrainNext, At
<1>4. UNCHANGED <<queueVars, stageVars, jobVars, rwVars, runVars, historyVars>>
  BY DEF DrainNext
<1>5. Matches(x)'
  BY <1>3, <1>4, SameState DEF queueVars, runVars
<1>6. ASSUME todo' \in [App -> Seq(Step)] PROVE TypeOK'
  BY <1>4, <1>6 DEF TypeOK, stageVars, jobVars, runVars
<1>7. CASE Head(todo[main]) = <<"drain", 1>>
  <2>1. x.own = "out" /\ y = Hold(x, "held", Drained)
    BY <1>2, <1>7
  <2>2. Runs(DrainFilter(main), x, y) /\ DrainFilter(main) \in Seq(Step)
    BY <1>2, <2>1, DrainRuns
  <2>3. Rule(y, <<"drain", 2>>, y)
    <3>1. y.own = "held" /\ y.mode = "running" /\ y.job # "none"
      BY <1>2, <2>1 DEF Hold, Label, Labels
    <3> QED  BY <3>1 DEF Rule, FilterRule
  <2> DEFINE last == << <<"drain", 2>> >>
  <2>4. Runs(last, y, y) /\ last \in Seq(Step)
    <3>1. <<"drain", 2>> \in Step
      BY DEF Step
    <3> QED  BY <2>3, <3>1, RunsOne
  <2>5. Continue(main, DrainFilter(main) \o last)
    <3>1. Arg(main) = 1 /\ ~ (Arg(main) > Len(gids)) /\ gids[Arg(main)] = main /\ Arg(main) + 1 = 2
      BY <1>3, <1>7 DEF Arg
    <3> QED  BY <3>1 DEF DrainNext
  <2> HIDE DEF last
  <2>6. Runs(DrainFilter(main) \o last, x, y) /\ DrainFilter(main) \o last \in Seq(Step)
    BY <2>2, <2>4, RunsAppended
  <2>7. Leads(x, todo'[main])
    BY <1>1, <1>3, <2>5, <2>6, Inserted
  <2>8. todo' \in [App -> Seq(Step)]
    BY <1>3, <2>5, <2>6, Continued
  <2> QED  BY <1>5, <1>6, <2>7, <2>8 DEF Doing
<1>8. CASE Head(todo[main]) = <<"drain", 2>>
  <2>1. Arg(main) = 2 /\ Arg(main) > Len(gids) /\ y = x
    BY <1>2, <1>3, <1>8 DEF Arg
  <2>2. Finish(main)
    BY <2>1 DEF DrainNext, Finish
  <2>3. todo' \in [App -> Seq(Step)] /\ Leads(x, todo'[main])
    BY <1>1, <1>3, <2>1, <2>2, Finished
  <2> QED  BY <1>5, <1>6, <2>3 DEF Doing
<1> QED  BY <1>2, <1>7, <1>8

LEMMA FilterQueueStepKeeps ==
    ASSUME OneThread, TypeOK, NEW x \in Label, Doing(x), FilterQueueStep(main)
    PROVE  TypeOK' /\ \E y \in Label : Doing(y)' /\ y.mode = x.mode
  BY AwaitKeeps, ClearKeeps, RotateKeeps, FeedOneKeeps, FeedAllKeeps, FlushKeeps, DrainKeeps
  DEF FilterQueueStep

(***************************************************************************)
(* The steps that begin jobs.                                              *)
(***************************************************************************)
\* The labels of the steps of a job, as the steps need them.
LEMMA JobLabels ==
    ASSUME NEW x \in Label, x.mode = "running", x.own = "out"
    PROVE  /\ \A j \in {"open", "ended"} : x.spare > 0 =>
                /\ Spend(x, j, {}) \in Label
                /\ Spend(x, j, {}).own = "out" /\ Spend(x, j, {}).empty = {}
                /\ Spend(x, j, {}).job = j /\ Spend(x, j, {}).mode = "running"
                /\ Spend(x, j, {}).spare = x.spare - 1 /\ Spend(x, j, {}).creates = x.creates
           /\ x.creates > 0 =>
                /\ Create(x) \in Label
                /\ Create(x).own = "out" /\ Create(x).empty = x.empty
                /\ Create(x).job = x.job /\ Create(x).mode = "running"
                /\ Create(x).spare = x.spare /\ Create(x).creates = x.creates - 1
<1> DEFINE none == {}
<1>1. x \in Labels /\ none \in SUBSET Known /\ "lines" \notin none /\ "fout" \notin none
  BY DEF Label
<1> HIDE DEF none
<1>2. ASSUME NEW j \in {"open", "ended"}, x.spare > 0
      PROVE  /\ Spend(x, j, none) \in Label
             /\ Spend(x, j, none).own = "out" /\ Spend(x, j, none).empty = none
             /\ Spend(x, j, none).job = j /\ Spend(x, j, none).mode = "running"
             /\ Spend(x, j, none).spare = x.spare - 1 /\ Spend(x, j, none).creates = x.creates
  <2> DEFINE y == Spend(x, j, none)
  <2>1. /\ y \in Labels /\ y.own = "out" /\ y.empty = none /\ y.job = j /\ y.mode = "running"
        /\ y.spare = x.spare - 1 /\ y.creates = x.creates
    BY <1>1, <1>2, SpendFields
  <2> HIDE DEF y
  <2>2. y \in Label
    BY <1>1, <1>2, <2>1 DEF Label, PauseModes
  <2> QED  BY <2>1, <2>2 DEF y
<1>3. ASSUME x.creates > 0
      PROVE  /\ Create(x) \in Label
             /\ Create(x).own = "out" /\ Create(x).empty = x.empty
             /\ Create(x).job = x.job /\ Create(x).mode = "running"
             /\ Create(x).spare = x.spare /\ Create(x).creates = x.creates - 1
  <2> DEFINE y == Create(x)
  <2>1. /\ y \in Labels /\ y.own = "out" /\ y.empty = x.empty /\ y.job = x.job /\ y.mode = "running"
        /\ y.spare = x.spare /\ y.creates = x.creates - 1
    BY <1>1, <1>3, CreateFields
  <2> HIDE DEF y
  <2>2. y \in Label
    BY <2>1 DEF Label, PauseModes
  <2> QED  BY <2>1, <2>2 DEF y
<1> QED  BY <1>2, <1>3 DEF none

\* The two buffers and the queue are as they were: all that a label of the same
\* mode and owner needs, when it knows less to be empty.
LEMMA SameStage ==
    ASSUME NEW x \in Label, NEW y \in Label, Matches(x),
           UNCHANGED <<queueVars, stageVars, gids, paused, exited>>, exited # "stop",
           y.own = x.own, y.mode = x.mode, y.empty \subseteq x.empty
    PROVE  Shares(y)' /\ Empties(y)' /\ Place' /\ Calling(y)' /\ Stopped(y)' /\ Left' = Left
<1>1. Shares(y)' /\ Empties(y)'
  BY DEF Matches, Shares, Empties, stageVars, queueVars, Gpu, Fin
<1>2. Place' /\ Left' = Left
  BY DEF Matches, Place, Left, stageVars, Fin
<1>3. Calling(y)' /\ Stopped(y)'
  BY DEF Matches, Calling, Stopped, stageVars, queueVars, Fills
<1> QED  BY <1>1, <1>2, <1>3

LEMMA Numeric ==
    ASSUME OneThread, TypeOK, QueueTypeOK, NEW x \in Label, Matches(x)
    PROVE  /\ Len(pushed) \in Nat /\ Len(Gpu(main)) \in Nat /\ Left \in Nat
           /\ calls[main] \in 0 .. MaxCalls /\ MaxCalls \in Nat /\ x.spare \in Nat /\ x.creates \in Nat
           /\ nextJob \in Nat \ {0}
<1>1. Len(Fin(main)) \in Nat /\ Len(Gpu(main)) \in Nat
  BY Buffers
<1>2. filter[main].pos \in Nat
  BY MainThread DEF TypeOK
<1>3. Left \in Nat
  BY <1>1, <1>2 DEF Left, Matches, Place, Reading
<1> QED  BY <1>1, <1>3, MainThread, GeneratorAssumption DEF TypeOK, QueueTypeOK, Label, Labels

LEMMA CreateSpends ==
    ASSUME NEW x \in Label, NEW j, NEW e
    PROVE  Create(Spend(x, j, e)) = Spend(Create(x), j, e)
  BY DEF Create, Spend, Label, Labels

LEMMA HoldSame ==
    ASSUME NEW x \in Label, NEW o, NEW e, x.own = o, x.empty = e
    PROVE  Hold(x, o, e) = x
  BY DEF Hold, Label, Labels

LEMMA CreateJobKeeps ==
    ASSUME OneThread, TypeOK, QueueTypeOK, NEW x \in Label, Doing(x), CreateJob(main)
    PROVE  TypeOK' /\ \E y \in Label : Doing(y)' /\ y.mode = x.mode
<1>1. PICK y \in Label :
        /\ Rule(x, Head(todo[main]), y) /\ Leads(y, Tail(todo[main]))
        /\ Head(todo[main])[1] = "createJob"
  BY StepTaken DEF CreateJob, Doing
<1>2. /\ Arg(main) \in Dev /\ x.own = "out" /\ x.job = "none" /\ x.mode = "running"
      /\ x.spare > 0 /\ x.creates > 0 /\ y = Create(Spend(x, "open", {}))
  BY <1>1 DEF Rule, FilterRule, JobRule, QueueRule, HandRule, PauseRule, PausedRule, Arg
<1> DEFINE c == Create(x)
           j == JobOf(nextJob, Arg(main))
           b == <<"beginJob", j>>
           r == <<"recordJob", main>>
<1>3. /\ c \in Label /\ c.own = "out" /\ c.empty = x.empty /\ c.job = x.job /\ c.mode = "running"
      /\ c.spare = x.spare /\ c.creates = x.creates - 1
  BY <1>2, JobLabels
<1>4. Matches(x) /\ todo[main] # <<>>
  BY DEF Doing, CreateJob, At
<1>5. /\ Len(pushed) \in Nat /\ Len(Gpu(main)) \in Nat /\ Left \in Nat
      /\ calls[main] \in 0 .. MaxCalls /\ MaxCalls \in Nat /\ x.spare \in Nat /\ x.creates \in Nat
      /\ nextJob \in Nat \ {0}
  BY <1>4, Numeric
<1>6. j \in Jobs
  <2>1. nextJob \in 1 .. MaxCalls + 1
    BY <1>2, <1>4, <1>5 DEF Matches, Counts
  <2> QED  BY <1>2, <2>1 DEF Jobs, JobOf
<1>7. y = Spend(c, "open", {})
  BY <1>2, CreateSpends
<1>8. y.own = "out" /\ y.job = "open" /\ y.mode = "running" /\ y.empty = {}
  BY <1>3, <1>7, <1>2, JobLabels
<1> HIDE DEF c, j
<1>9. Rule(c, b, y)
  BY <1>2, <1>3, <1>6, <1>7 DEF Rule, JobRule
<1>10. Rule(y, r, y)
  <2>1. Hold(y, "out", {}) = y
    BY <1>8, HoldSame
  <2> QED  BY <1>8, <2>1 DEF Rule, JobRule
<1>11. b \in Step /\ r \in Step
  BY <1>6 DEF Step
<1> HIDE DEF b, r
<1>12. Runs(<<b, r>>, c, y) /\ <<b, r>> \in Seq(Step)
  BY <1>3, <1>9, <1>10, <1>11, RunsTwo
<1>13. Continue(main, <<b, r>>)
  BY DEF CreateJob, b, r, j
<1>14. todo' \in [App -> Seq(Step)] /\ Leads(c, todo'[main])
  BY <1>1, <1>3, <1>4, <1>12, <1>13, Continued, Inserted
<1>15. /\ UNCHANGED <<queueVars, stageVars, job, rwVars, runVars, historyVars>>
       /\ nextJob' = nextJob + 1 /\ exited = "no"
  BY DEF CreateJob, At
<1>16. TypeOK'
  <2>1. nextJob' \in Nat \ {0}
    BY <1>5, <1>15
  <2> QED  BY <1>14, <1>15, <2>1 DEF TypeOK, stageVars, runVars
<1>17. Shares(c)' /\ Empties(c)' /\ Place' /\ Calling(c)' /\ Stopped(c)' /\ Left' = Left
  <2>1. UNCHANGED <<queueVars, stageVars, gids, paused, exited>> /\ exited # "stop"
    BY <1>15 DEF runVars, historyVars
  <2> QED  BY <1>2, <1>3, <1>4, <2>1, SameStage
<1>18. JobData(c)'
  BY <1>3, <1>4, <1>15 DEF Matches, JobData, stageVars, Gpu, Fin, AccessOf
<1>19. Counts(c)'
  <2>1. Len(pushed)' = Len(pushed) /\ Len(Gpu(main))' = Len(Gpu(main)) /\ calls' = calls
    BY <1>15 DEF queueVars, stageVars, runVars, Gpu
  <2> QED  BY <1>3, <1>4, <1>5, <1>15, <1>17, <2>1 DEF Matches, Counts
<1> QED  BY <1>2, <1>3, <1>14, <1>16, <1>17, <1>18, <1>19 DEF Doing, Matches

LEMMA ThreadStartKeeps ==
    ASSUME OneThread, TypeOK, QueueTypeOK, NEW x \in Label, Doing(x), ThreadStart(main)
    PROVE  TypeOK' /\ \E y \in Label : Doing(y)' /\ y.mode = x.mode
<1>1. PICK y \in Label :
        /\ Rule(x, Head(todo[main]), y) /\ Leads(y, Tail(todo[main]))
        /\ Head(todo[main])[1] = "threadStart"
  BY StepTaken DEF ThreadStart, Doing
<1>2. /\ x.own = "none" /\ x.mode = "running" /\ x.spare > 0 /\ x.creates > 0
      /\ y = Create(Spend(Hold(x, "out", x.empty), "open", {}))
  BY <1>1 DEF Rule, FilterRule, JobRule, QueueRule, HandRule, PauseRule, PausedRule
<1>3. x.job = "none" /\ Drained \subseteq x.empty /\ x.empty \in SUBSET Known /\ x \in Labels
      /\ "fout" \notin x.empty
  BY <1>2 DEF Label, Labels
<1> DEFINE c == Hold(x, "out", x.empty)
           b == <<"createJob", "CPU">>
<1>4. /\ c \in Labels /\ c.own = "out" /\ c.empty = x.empty /\ c.job = "none" /\ c.mode = "running"
      /\ c.spare = x.spare /\ c.creates = x.creates
  BY <1>2, <1>3, HoldFields
<1>5. y = Create(Spend(c, "open", {}))
  BY <1>2
<1> HIDE DEF c
<1>6. c \in Label
  BY <1>3, <1>4 DEF Label, PauseModes, Drained
<1>7. Rule(c, b, y)
  BY <1>2, <1>4, <1>5 DEF Rule, JobRule, Dev
<1>8. b \in Step
  BY DEF Step, Dev
<1> HIDE DEF b
<1>9. Runs(<<b>>, c, y) /\ <<b>> \in Seq(Step)
  BY <1>6, <1>7, <1>8, RunsOne
<1>10. Continue(main, <<b>>) /\ todo[main] # <<>> /\ Matches(x)
  BY DEF ThreadStart, HandleNewJob, b, At, Doing
<1>11. todo' \in [App -> Seq(Step)] /\ Leads(c, todo'[main])
  BY <1>1, <1>6, <1>9, <1>10, Continued, Inserted
<1>12. /\ UNCHANGED <<queueVars, buf, out, fDone, cache, rscDev, jobVars, rwVars,
                      calls, stop, exited, historyVars>>
       /\ gids' = Append(gids, main) /\ filter' = [filter EXCEPT ![main].pc = "pop"]
       /\ fHasWork' = [fHasWork EXCEPT ![main] = TRUE] /\ exited = "no"
  BY DEF ThreadStart, At
<1>13. /\ gids = <<>> /\ ~ fDone[main] /\ filter[main].pc = "none"
  BY <1>2, <1>10 DEF Matches, Shares
<1>14. /\ gids' = <<main>> /\ fHasWork'[main] /\ fHasWork' \in [App -> BOOLEAN]
       /\ filter'[main].pc = "pop"
       /\ filter' \in [App -> [pc : FilterPcs, in : 0 .. 1, pos : Nat,
                               pkt : Pkts \cup {Marker("NONE")}]]
  <2>1. "pop" \in FilterPcs /\ main \in App
    BY MainThread DEF FilterPcs
  <2>2. /\ filter'[main].pc = "pop"
        /\ filter' \in [App -> [pc : FilterPcs, in : 0 .. 1, pos : Nat,
                                pkt : Pkts \cup {Marker("NONE")}]]
    BY <1>12, <2>1 DEF TypeOK
  <2>3. gids' = <<main>>
    BY <1>12, <1>13
  <2> QED  BY <1>12, <2>1, <2>2, <2>3 DEF TypeOK
<1>15. TypeOK'
  BY <1>11, <1>12, <1>14 DEF TypeOK, jobVars
<1>16. Shares(c)' /\ Empties(c)' /\ Place'
  BY <1>4, <1>10, <1>12, <1>13, <1>14 DEF Matches, Shares, Empties, Place, Reading, queueVars, Gpu, Fin
<1>17. JobData(c)'
  BY <1>3, <1>4, <1>10, <1>12 DEF Matches, JobData, jobVars, Gpu, Fin, AccessOf
<1>18. Calling(c)' /\ Stopped(c)'
  BY <1>2, <1>4, <1>10, <1>12, <1>13, <1>14 DEF Matches, Calling, Stopped, queueVars, historyVars, Fills, Full
<1>19. Counts(c)'
  <2>1. Len(pushed)' = Len(pushed) /\ Len(Gpu(main))' = Len(Gpu(main)) /\ Left' = Left
    BY <1>12, <1>13, <1>14 DEF Left, Reading, queueVars, Gpu, Fin
  <2> QED  BY <1>4, <1>10, <1>12, <2>1 DEF Matches, Counts, jobVars
<1> QED  BY <1>2, <1>4, <1>6, <1>11, <1>15, <1>16, <1>17, <1>18, <1>19 DEF Doing, Matches

(***************************************************************************)
(* The steps that fill the buffer of the thread and end jobs.              *)
(***************************************************************************)
\* A packet in the buffer of the thread: no job was open before, or the job stays.
LEMMA AppendedMatches ==
    ASSUME OneThread, TypeOK, QueueTypeOK, NEW x \in Label, Matches(x),
           x.mode = "running", x.own = "out", x.spare > 0, NEW j \in {"open", "ended"},
           NEW p \in Pkts, AppendPacket(main, p), p.cmd = "ACCESS" => p.job = job'[main],
           UNCHANGED <<queueVars, out, fHasWork, fDone, filter, cache, rscDev>>,
           UNCHANGED <<nextJob, runVars, paused>>, exited = "no",
           job'[main] \in Jobs, job' = job \/ x.job = "none"
    PROVE  Matches(Spend(x, j, {}))' /\ buf' \in [App -> [0 .. 1 -> Seq(Pkts)]]
<1> DEFINE none == {}
           y == Spend(x, j, none)
<1>1. /\ y \in Label /\ y.own = "out" /\ y.empty = none /\ y.job = j /\ y.mode = "running"
      /\ y.spare = x.spare - 1 /\ y.creates = x.creates
  BY JobLabels
<1>2. /\ "gpu" \notin none /\ "fin" \notin none /\ "lines" \notin none /\ "fout" \notin none
  OBVIOUS
<1> HIDE DEF y, none
<1>3. /\ buf' \in [App -> [0 .. 1 -> Seq(Pkts)]]
      /\ Gpu(main)' = Append(Gpu(main), p) /\ Fin(main)' = Fin(main)
      /\ Gpu(main) \in Seq(Pkts)
  BY Appending, Buffers
<1>4. /\ Len(pushed) \in Nat /\ Len(Gpu(main)) \in Nat /\ Left \in Nat
      /\ calls[main] \in 0 .. MaxCalls /\ MaxCalls \in Nat /\ x.spare \in Nat /\ x.creates \in Nat
      /\ nextJob \in Nat \ {0}
  BY Numeric
<1>5. /\ UNCHANGED <<queue, pushed, producerMtx, calls, gids, exited>>
  BY DEF queueVars, runVars
<1>6. Shares(y)' /\ Empties(y)' /\ Place'
  BY <1>1, <1>2, <1>3, <1>5 DEF Matches, Shares, Empties, Place
<1>7. JobData(y)'
  <2>1. \A i \in 1 .. Len(Gpu(main)) : Gpu(main)'[i] = Gpu(main)[i]
    BY <1>3
  <2>2. Len(Gpu(main)') = Len(Gpu(main)) + 1 /\ Gpu(main)'[Len(Gpu(main)) + 1] = p
    BY <1>3
  <2>3. CASE x.job = "none"
    <3>1. Gpu(main) = <<>> /\ Fin(main) = <<>> /\ cache[main] = {}
      BY <2>3 DEF Matches, Empties, Label, Drained
    <3>2. Gpu(main)' = <<p>> /\ Fin(main)' = <<>> /\ cache'[main] = {}
      BY <1>3, <3>1
    <3>3. AccessOf(job'[main], Gpu(main)') /\ AccessOf(job'[main], Fin(main)')
      BY <3>2 DEF AccessOf
    <3> QED  BY <1>1, <3>2, <3>3 DEF JobData
  <2>4. CASE job' = job
    <3>1. AccessOf(job[main], Gpu(main)) /\ AccessOf(job[main], Fin(main))
      BY DEF Matches, JobData
    <3>2. AccessOf(job'[main], Gpu(main)')
      BY <1>4, <2>1, <2>2, <2>4, <3>1 DEF AccessOf
    <3>3. AccessOf(job'[main], Fin(main)')
      BY <1>3, <2>4, <3>1 DEF AccessOf
    <3> QED  BY <1>1, <2>4, <3>2, <3>3 DEF Matches, JobData
  <2> QED  BY <2>3, <2>4
<1>8. Calling(y)' /\ Stopped(y)'
  BY <1>1, <1>5 DEF Matches, Calling, Stopped, Fills
<1>9. Counts(y)'
  <2>1. Len(Gpu(main))' = Len(Gpu(main)) + 1
    BY <1>3
  <2>2. Left' = Left
    BY <1>3 DEF Left
  <2> QED  BY <1>1, <1>4, <1>5, <2>1, <2>2 DEF Matches, Counts
<1> QED  BY <1>3, <1>6, <1>7, <1>8, <1>9 DEF Matches, y, none

LEMMA BeginJobKeeps ==
    ASSUME OneThread, TypeOK, QueueTypeOK, NEW x \in Label, Doing(x), BeginJob(main)
    PROVE  TypeOK' /\ \E y \in Label : Doing(y)' /\ y.mode = x.mode
<1>1. PICK y \in Label :
        /\ Rule(x, Head(todo[main]), y) /\ Leads(y, Tail(todo[main]))
        /\ Head(todo[main])[1] = "beginJob"
  BY StepTaken DEF BeginJob, Doing
<1>2. /\ Arg(main) \in Jobs /\ x.own = "out" /\ x.job = "none" /\ x.mode = "running"
      /\ x.spare > 0 /\ y = Spend(x, "open", {})
  BY <1>1 DEF Rule, FilterRule, JobRule, QueueRule, HandRule, PauseRule, PausedRule, Arg
<1>3. todo' \in [App -> Seq(Step)] /\ Leads(y, todo'[main])
  BY <1>1, Finished DEF BeginJob, At
<1>4. /\ UNCHANGED <<queueVars, out, fHasWork, fDone, filter, cache, rscDev>>
      /\ UNCHANGED <<nextJob, runVars, paused>> /\ exited = "no"
      /\ job' = [job EXCEPT ![main] = Arg(main)]
      /\ AppendPacket(main, Pkt("NEW_JOB", Arg(main)))
  BY DEF BeginJob, At
<1>5. job' \in [App -> Jobs \cup {NoJob}] /\ job'[main] \in Jobs
  BY <1>2, <1>4, MainThread DEF TypeOK
<1> DEFINE p == Pkt("NEW_JOB", Arg(main))
<1>6. p \in Pkts /\ p.cmd # "ACCESS"
  BY <1>2 DEF Pkts, Pkt
<1>7. AppendPacket(main, p) /\ Matches(x)
  BY <1>4 DEF Doing
<1> HIDE DEF p
<1>8. Matches(Spend(x, "open", {}))' /\ buf' \in [App -> [0 .. 1 -> Seq(Pkts)]]
  BY <1>2, <1>4, <1>5, <1>6, <1>7, AppendedMatches
<1>9. TypeOK'
  BY <1>3, <1>4, <1>5, <1>8 DEF TypeOK, runVars
<1>10. y.mode = x.mode
  BY <1>2, JobLabels
<1> QED  BY <1>2, <1>3, <1>8, <1>9, <1>10 DEF Doing

LEMMA AppendEndJobKeeps ==
    ASSUME OneThread, TypeOK, QueueTypeOK, NEW x \in Label, Doing(x), AppendEndJob(main)
    PROVE  TypeOK' /\ \E y \in Label : Doing(y)' /\ y.mode = x.mode
<1>1. PICK y \in Label :
        /\ Rule(x, Head(todo[main]), y) /\ Leads(y, Tail(todo[main]))
        /\ Head(todo[main])[1] = "appendEndJob"
  BY StepTaken DEF AppendEndJob, Doing
<1>2. /\ x.own = "out" /\ x.job = "open" /\ x.mode = "running"
      /\ x.spare > 0 /\ y = Spend(x, "ended", {})
  BY <1>1 DEF Rule, FilterRule, JobRule, QueueRule, HandRule, PauseRule, PausedRule
<1>3. todo' \in [App -> Seq(Step)] /\ Leads(y, todo'[main])
  BY <1>1, Finished DEF AppendEndJob, At
<1>4. /\ UNCHANGED <<queueVars, out, fHasWork, fDone, filter, cache, rscDev>>
      /\ UNCHANGED <<nextJob, runVars, paused>> /\ exited = "no" /\ job' = job
      /\ AppendPacket(main, Pkt("END_JOB", job[main]))
  BY DEF AppendEndJob, At, jobVars
<1>5. Matches(x) /\ job'[main] \in Jobs
  BY <1>2, <1>4 DEF Doing, Matches, JobData
<1> DEFINE p == Pkt("END_JOB", job[main])
<1>6. p \in Pkts /\ p.cmd # "ACCESS"
  BY <1>4, <1>5 DEF Pkts, Pkt
<1>7. AppendPacket(main, p)
  BY <1>4
<1> HIDE DEF p
<1>8. Matches(Spend(x, "ended", {}))' /\ buf' \in [App -> [0 .. 1 -> Seq(Pkts)]]
  BY <1>2, <1>4, <1>5, <1>6, <1>7, AppendedMatches
<1>9. TypeOK'
  BY <1>3, <1>4, <1>8 DEF TypeOK, runVars
<1>10. y.mode = x.mode
  BY <1>2, JobLabels
<1> QED  BY <1>2, <1>3, <1>8, <1>9, <1>10 DEF Doing

\* The test for a full buffer: the steps it inserts lead back to the label.
LEMMA ProcessedIfFull ==
    ASSUME OneThread, TypeOK, NEW y \in Label, Leads(y, Tail(todo[main])), todo[main] # <<>>,
           y.own = "out", y.mode = "running", y.job # "none", y.empty = {},
           Continue(main, ProcessIfFull(main))
    PROVE  todo' \in [App -> Seq(Step)] /\ Leads(y, todo'[main])
<1> DEFINE none == {}
           s == ProcessBuffer(main)
<1>1. Hold(y, "out", none) = y
  BY DEF Hold, Label, Labels
<1>2. Runs(s, y, y) /\ s \in Seq(Step)
  BY <1>1, ProcessRuns
<1>3. Runs(<<>>, y, y) /\ <<>> \in Seq(Step)
  BY RunsNone
<1>4. Continue(main, s) \/ Continue(main, <<>>)
  BY DEF ProcessIfFull
<1> HIDE DEF s, none
<1>5. CASE Continue(main, s)
  BY <1>2, <1>5, Continued, Inserted
<1>6. CASE Continue(main, <<>>)
  BY <1>3, <1>6, Continued, Inserted
<1> QED  BY <1>4, <1>5, <1>6

LEMMA RecordJobKeeps ==
    ASSUME OneThread, TypeOK, QueueTypeOK, NEW x \in Label, Doing(x), RecordJob(main)
    PROVE  TypeOK' /\ \E y \in Label : Doing(y)' /\ y.mode = x.mode
<1>1. PICK y \in Label :
        /\ Rule(x, Head(todo[main]), y) /\ Leads(y, Tail(todo[main]))
        /\ Head(todo[main])[1] = "recordJob"
  BY StepTaken DEF RecordJob, Doing
<1>2. x.own = "out" /\ x.job = "open" /\ x.mode = "running" /\ y = Hold(x, "out", {})
  BY <1>1 DEF Rule, FilterRule, JobRule, QueueRule, HandRule, PauseRule, PausedRule
<1>3. /\ y.own = "out" /\ y.mode = "running" /\ y.job = "open" /\ y.empty = {}
      /\ y.spare = x.spare /\ y.creates = x.creates
  BY <1>2 DEF Hold, Label, Labels
<1>4. todo[main] # <<>> /\ Continue(main, ProcessIfFull(main)) /\ exited = "no" /\ Matches(x)
  BY DEF RecordJob, At, Doing
<1>5. todo' \in [App -> Seq(Step)] /\ Leads(y, todo'[main])
  BY <1>1, <1>3, <1>4, ProcessedIfFull
<1>6. UNCHANGED <<queueVars, stageVars, jobVars, rwVars, runVars, historyVars>>
  BY DEF RecordJob, stageVars
<1>7. TypeOK'
  BY <1>5, <1>6 DEF TypeOK, stageVars, jobVars, runVars
<1>8. Shares(y)' /\ Empties(y)' /\ Place' /\ Calling(y)' /\ Stopped(y)' /\ Left' = Left
  <2>1. UNCHANGED <<queueVars, stageVars, gids, paused, exited>> /\ exited # "stop"
    BY <1>4, <1>6 DEF runVars, historyVars
  <2> QED  BY <1>2, <1>3, <1>4, <2>1, SameStage
<1>9. JobData(y)'
  BY <1>2, <1>3, <1>4, <1>6 DEF Matches, JobData, stageVars, jobVars, Gpu, Fin, AccessOf
<1>10. Counts(y)'
  <2>1. Len(pushed)' = Len(pushed) /\ Len(Gpu(main))' = Len(Gpu(main)) /\ calls' = calls
    BY <1>6 DEF queueVars, stageVars, runVars, Gpu
  <2> QED  BY <1>3, <1>4, <1>6, <1>8, <2>1 DEF Matches, Counts, jobVars
<1> QED  BY <1>2, <1>3, <1>5, <1>7, <1>8, <1>9, <1>10 DEF Doing, Matches

LEMMA AppendAccessKeeps ==
    ASSUME OneThread, TypeOK, QueueTypeOK, NEW x \in Label, Doing(x), AppendAccess(main)
    PROVE  TypeOK' /\ \E y \in Label : Doing(y)' /\ y.mode = x.mode
<1>1. PICK y \in Label :
        /\ Rule(x, Head(todo[main]), y) /\ Leads(y, Tail(todo[main]))
        /\ Head(todo[main])[1] = "appendAccess"
  BY StepTaken DEF AppendAccess, Doing
<1>2. /\ x.own = "out" /\ x.job = "open" /\ x.mode = "running"
      /\ x.spare > 0 /\ y = Spend(x, "open", {})
  BY <1>1 DEF Rule, FilterRule, JobRule, QueueRule, HandRule, PauseRule, PausedRule
<1>3. y.own = "out" /\ y.mode = "running" /\ y.job = "open" /\ y.empty = {}
  BY <1>2, JobLabels
<1>4. /\ UNCHANGED <<queueVars, out, fHasWork, fDone, filter, cache, rscDev>>
      /\ UNCHANGED <<nextJob, runVars, paused>> /\ exited = "no" /\ job' = job
      /\ AppendPacket(main, Pkt("ACCESS", job[main]))
      /\ todo[main] # <<>> /\ Continue(main, ProcessIfFull(main))
  BY DEF AppendAccess, At, jobVars, historyVars
<1>5. Matches(x) /\ job'[main] \in Jobs
  BY <1>2, <1>4 DEF Doing, Matches, JobData
<1> DEFINE p == Pkt("ACCESS", job[main])
<1>6. p \in Pkts /\ p.job = job'[main]
  BY <1>4, <1>5 DEF Pkts, Pkt
<1>7. AppendPacket(main, p)
  BY <1>4
<1> HIDE DEF p
<1>8. Matches(Spend(x, "open", {}))' /\ buf' \in [App -> [0 .. 1 -> Seq(Pkts)]]
  BY <1>2, <1>4, <1>5, <1>6, <1>7, AppendedMatches
<1>9. todo' \in [App -> Seq(Step)] /\ Leads(y, todo'[main])
  BY <1>1, <1>3, <1>4, ProcessedIfFull
<1>10. TypeOK'
  BY <1>4, <1>8, <1>9 DEF TypeOK, runVars
<1> QED  BY <1>2, <1>3, <1>8, <1>9, <1>10 DEF Doing

LEMMA CloseJobKeeps ==
    ASSUME OneThread, TypeOK, QueueTypeOK, NEW x \in Label, Doing(x), CloseJob(main)
    PROVE  TypeOK' /\ \E y \in Label : Doing(y)' /\ y.mode = x.mode
<1>1. PICK y \in Label :
        /\ Rule(x, Head(todo[main]), y) /\ Leads(y, Tail(todo[main]))
        /\ Head(todo[main])[1] = "closeJob"
  BY StepTaken DEF CloseJob, Doing
<1>2. /\ x.own = "out" /\ x.mode = "running" /\ Drained \subseteq x.empty
      /\ y = [x EXCEPT !.job = "none"]
  BY <1>1 DEF Rule, FilterRule, JobRule, QueueRule, HandRule, PauseRule, PausedRule
<1>3. /\ y.own = "out" /\ y.mode = "running" /\ y.job = "none" /\ y.empty = x.empty
      /\ y.spare = x.spare /\ y.creates = x.creates
  BY <1>2 DEF Label, Labels
<1>4. todo' \in [App -> Seq(Step)] /\ Leads(y, todo'[main])
  BY <1>1, Finished DEF CloseJob, At
<1>5. /\ UNCHANGED <<queueVars, stageVars, nextJob, rwVars, runVars, historyVars>>
      /\ job' = [job EXCEPT ![main] = NoJob] /\ exited = "no" /\ Matches(x)
  BY DEF CloseJob, At, Doing
<1>6. job' \in [App -> Jobs \cup {NoJob}] /\ job'[main] = NoJob
  BY <1>5, MainThread DEF TypeOK
<1>7. TypeOK'
  BY <1>4, <1>5, <1>6 DEF TypeOK, stageVars, runVars
<1>8. Shares(y)' /\ Empties(y)' /\ Place' /\ Calling(y)' /\ Stopped(y)' /\ Left' = Left
  <2>1. UNCHANGED <<queueVars, stageVars, gids, paused, exited>> /\ exited # "stop"
    BY <1>5 DEF runVars, historyVars
  <2> QED  BY <1>2, <1>3, <1>5, <2>1, SameStage
<1>9. JobData(y)'
  <2>1. Gpu(main) = <<>> /\ Fin(main) = <<>> /\ cache[main] = {}
    BY <1>2, <1>5 DEF Matches, Empties, Drained
  <2>2. Gpu(main)' = <<>> /\ Fin(main)' = <<>> /\ cache'[main] = {}
    BY <1>5, <2>1 DEF stageVars, Gpu, Fin
  <2> QED  BY <1>3, <1>6, <2>2 DEF JobData, AccessOf
<1>10. Counts(y)'
  <2>1. Len(pushed)' = Len(pushed) /\ Len(Gpu(main))' = Len(Gpu(main)) /\ calls' = calls
    BY <1>5 DEF queueVars, stageVars, runVars, Gpu
  <2> QED  BY <1>3, <1>5, <1>8, <2>1 DEF Matches, Counts
<1> QED  BY <1>2, <1>3, <1>4, <1>7, <1>8, <1>9, <1>10 DEF Doing, Matches

LEMMA JobStepKeeps ==
    ASSUME OneThread, TypeOK, QueueTypeOK, NEW x \in Label, Doing(x), JobStep(main)
    PROVE  TypeOK' /\ \E y \in Label : Doing(y)' /\ y.mode = x.mode
  BY ThreadStartKeeps, CreateJobKeeps, BeginJobKeeps, RecordJobKeeps, AppendAccessKeeps,
     AppendEndJobKeeps, CloseJobKeeps DEF JobStep

\* A handler begins: two more packets and one more job may follow.
LEMMA CallKeeps ==
    ASSUME OneThread, TypeOK, QueueTypeOK, NEW x \in Label, Doing(x), Call(main)
    PROVE  TypeOK' /\ \E y \in Label : Doing(y)' /\ y.mode = x.mode
<1>1. todo[main] = <<>> /\ exited = "no" /\ Matches(x) /\ calls[main] < MaxCalls
  BY DEF Call, Idle, Doing
<1>2. x.own = "out" /\ x.mode = "running" /\ x.job = "open"
  BY <1>1, NothingLeft DEF Doing, Ready
<1> DEFINE none == {}
           y == [own |-> "out", empty |-> none, job |-> "open", mode |-> "running",
                 spare |-> 2, creates |-> 1]
<1>3. /\ y.own = "out" /\ y.mode = "running" /\ y.job = "open" /\ y.empty = none
      /\ y.spare = 2 /\ y.creates = 1
  OBVIOUS
<1>4. none \in SUBSET Known /\ "lines" \notin none /\ "fout" \notin none
  OBVIOUS
<1> HIDE DEF none
<1>5. y \in Labels
  BY <1>4 DEF Labels
<1> HIDE DEF y
<1>6. y \in Label
  BY <1>3, <1>4, <1>5 DEF Label, PauseModes
<1>7. PICK h \in Handler : \E body \in Bodies(main, h) : todo' = [todo EXCEPT ![main] = body]
  BY MainThread, GeneratorAssumption DEF Call
<1>8. PICK body \in Bodies(main, h) : todo' = [todo EXCEPT ![main] = body]
  BY <1>7
<1>9. Leads(y, body)
  BY <1>3, <1>6, BodiesLead DEF Ready
<1>10. todo' \in [App -> Seq(Step)] /\ Leads(y, todo'[main])
  BY <1>8, <1>9, MainThread DEF TypeOK, Leads
<1>11. /\ UNCHANGED <<queueVars, stageVars, jobVars, rwVars, gids, stop, exited, historyVars>>
       /\ calls' = [calls EXCEPT ![main] = @ + 1]
  BY DEF Call
<1>12. calls' \in [App -> 0 .. MaxCalls] /\ calls'[main] = calls[main] + 1
  <2>1. calls[main] + 1 \in 0 .. MaxCalls
    BY <1>1, MainThread, GeneratorAssumption DEF TypeOK
  <2> QED  BY <1>11, <2>1, MainThread DEF TypeOK
<1>13. TypeOK'
  BY <1>10, <1>11, <1>12 DEF TypeOK, stageVars, jobVars
<1>14. Shares(y)' /\ Empties(y)' /\ Place' /\ Calling(y)' /\ Stopped(y)' /\ Left' = Left
  <2>1. UNCHANGED <<queueVars, stageVars, gids, paused, exited>> /\ exited # "stop"
    BY <1>1, <1>11 DEF historyVars
  <2>2. y.empty \subseteq x.empty
    BY <1>3 DEF none
  <2> QED  BY <1>1, <1>2, <1>3, <1>6, <2>1, <2>2, SameStage
<1>15. JobData(y)'
  BY <1>1, <1>2, <1>3, <1>11 DEF Matches, JobData, stageVars, jobVars, Gpu, Fin, AccessOf
<1>16. Counts(y)'
  <2>1. Len(pushed)' = Len(pushed) /\ Len(Gpu(main))' = Len(Gpu(main)) /\ nextJob' = nextJob
    BY <1>11 DEF queueVars, stageVars, jobVars, Gpu
  <2>2. /\ Len(pushed) \in Nat /\ Len(Gpu(main)) \in Nat /\ Left \in Nat
        /\ calls[main] \in 0 .. MaxCalls /\ MaxCalls \in Nat /\ x.spare \in Nat /\ x.creates \in Nat
        /\ nextJob \in Nat \ {0}
    BY <1>1, Numeric
  <2>3. /\ Len(pushed) + Left + Len(Gpu(main)) + x.spare <= 2 * calls[main] + 2
        /\ nextJob + x.creates <= calls[main] + 2
    BY <1>1 DEF Matches, Counts
  <2> DEFINE c == calls[main]
             n == Len(pushed) + Left + Len(Gpu(main))
  <2>4. c \in Nat /\ n \in Nat /\ n <= 2 * c + 2 /\ nextJob <= c + 2 /\ nextJob \in Nat
    <3>1. PICK k \in Nat : k = c
      BY <2>2
    <3>2. PICK m \in Nat : m = n
      BY <2>2
    <3>3. m + x.spare <= 2 * k + 2 /\ nextJob + x.creates <= k + 2
      BY <2>3, <3>1, <3>2
    <3> HIDE DEF c, n
    <3> QED  BY <2>2, <3>1, <3>2, <3>3
  <2>5. /\ Len(pushed)' + Left' + Len(Gpu(main))' + y.spare = n + 2
        /\ nextJob' + y.creates = nextJob + 1
        /\ calls'[main] = c + 1
    BY <1>3, <1>12, <1>14, <2>1
  <2> HIDE DEF c, n
  <2>6. n + 2 <= 2 * (c + 1) + 2 /\ nextJob + 1 <= (c + 1) + 2
    BY <2>4
  <2> QED  BY <2>5, <2>6 DEF Counts
<1> QED  BY <1>2, <1>3, <1>6, <1>10, <1>13, <1>14, <1>15, <1>16 DEF Doing, Matches

\* The process ends, as the application returns or an assertion fails.
LEMMA EndKeeps ==
    ASSUME OneThread, TypeOK, QueueTypeOK, NEW x \in Label, Doing(x),
           AppFinish(main) \/ \E w \in Worker : AnalysisAbort(w)
    PROVE  TypeOK' /\ Doing(x)'
<1>1. /\ UNCHANGED <<queueVars, todo, stageVars, jobVars, rwVars, calls, gids, stop, historyVars>>
      /\ exited' \in {"finish", "abort"} /\ Matches(x)
  BY DEF AppFinish, AnalysisAbort, Doing
<1>2. TypeOK'
  BY <1>1 DEF TypeOK, stageVars, jobVars
<1>3. Matches(x)'
  <2>1. UNCHANGED <<buf, out, fHasWork, fDone, filter, cache, job, nextJob, paused, calls, gids>>
    BY <1>1 DEF stageVars, jobVars, historyVars
  <2>2. Place' /\ JobData(x)' /\ Calling(x)' /\ Counts(x)'
    BY <1>1, <2>1, SameRest DEF queueVars
  <2>3. Shares(x)' /\ Empties(x)'
    BY <1>1, <2>1 DEF Matches, Shares, Empties, queueVars, Gpu, Fin
  <2>4. Stopped(x)'
    BY <1>1 DEF Stopped
  <2> QED  BY <2>2, <2>3, <2>4 DEF Matches
<1> QED  BY <1>1, <1>2, <1>3 DEF Doing

(***************************************************************************)
(* The calls of the analysis queue: packets and waits.                     *)
(***************************************************************************)
\* What the operations of the queue do to fout_buffer.
LEMMA FoutFields ==
    ASSUME NEW q \in Queues, NEW pkt
    PROVE  /\ Stored(q, pkt).fout = Append(q.fout, pkt)
           /\ Rotated(q).fout = <<>>
           /\ WorkPosted(q).fout = q.fout
           /\ WorkPosted(Rotated(q)).fout = <<>>
           /\ q.fout \in Seq(Packet)
  BY DEF Queues, Stored, Rotated, WorkPosted

LEMMA EmptyDoesNotFill == ASSUME NEW q, q.fout = <<>> PROVE ~ Fills(q)
  BY QueueAssumption DEF Fills

\* A step on the analysis queue leaves the filter stage and the job as they are.
LEMMA SameBuffers ==
    ASSUME NEW x \in Label, NEW y \in Label, Matches(x), UNCHANGED <<stageVars, jobVars, gids>>,
           y.own = x.own, y.job = x.job
    PROVE  /\ Shares(y)' /\ Place' /\ JobData(y)' /\ Left' = Left
           /\ Gpu(main)' = Gpu(main) /\ Fin(main)' = Fin(main) /\ UNCHANGED <<cache, filter>>
<1>1. Shares(y)' /\ Place'
  BY DEF Matches, Shares, Place, stageVars, Gpu, Fin
<1>2. JobData(y)' /\ Left' = Left
  BY DEF Matches, JobData, AccessOf, Left, stageVars, jobVars, Gpu, Fin
<1> QED  BY <1>1, <1>2 DEF stageVars, Gpu, Fin

LEMMA Producers ==
    ASSUME NoThread = producerMtx, OneThread, NEW x \in Label, Matches(x)
    PROVE  x.mode # "handOver" /\ filter[main].pc \notin Full /\ ~ Fills(queue)
<1>1. main \in Thread /\ Filter(main) \in Thread
  BY MainThread, GeneratorAssumption
<1> QED  BY <1>1, QueueAssumption DEF Matches, Calling

\* The mode of the protocol that a label stands for.
Shown(x) == IF x.mode = "handOver" THEN "running" ELSE x.mode

LEMMA PushMarkerKeeps ==
    ASSUME OneThread, TypeOK, QueueTypeOK, NEW x \in Label, Doing(x), PushMarker(main)
    PROVE  TypeOK' /\ \E y \in Label : Doing(y)' /\ Shown(y) = Shown(x)
<1>1. PICK y \in Label :
        /\ Rule(x, Head(todo[main]), y) /\ Leads(y, Tail(todo[main]))
        /\ Head(todo[main])[1] = "push"
  BY StepTaken DEF PushMarker, Doing
<1>2. /\ x.spare > 0
      /\ \/ x.mode = "running" /\ x.own = "out" /\ x.job # "none" /\ y = Spend(x, x.job, x.empty)
         \/ x.mode = "paused" /\ "fout" \in x.empty /\ y = Spend(x, x.job, Drained)
  BY <1>1 DEF Rule, FilterRule, JobRule, QueueRule, HandRule, PauseRule, PausedRule
<1>3. /\ x.job # "none" /\ Drained \subseteq Known /\ "fout" \notin Drained /\ x.empty \in SUBSET Known
      /\ x.mode = "paused" => Drained \subseteq x.empty
      /\ x.mode # "paused" => "fout" \notin x.empty
      /\ x \in Labels
  BY <1>2 DEF Label, Labels, Drained, Known
<1>4. /\ y.own = x.own /\ y.job = x.job /\ y.mode = x.mode /\ "fout" \notin y.empty
      /\ y.spare = x.spare - 1 /\ y.creates = x.creates /\ y.empty \subseteq x.empty
  <2>1. CASE x.mode = "running"
    <3>1. y = Spend(x, x.job, x.empty)
      BY <1>2, <2>1
    <3> QED  BY <1>2, <1>3, <2>1, <3>1, SpendLabel
  <2>2. CASE x.mode = "paused"
    <3>1. y = Spend(x, x.job, Drained)
      BY <1>2, <2>2
    <3> QED  BY <1>2, <1>3, <2>2, <3>1, SpendLabel
  <2> QED  BY <1>2, <2>1, <2>2
<1>5. /\ producerMtx = NoThread /\ queue' = Stored(queue, Marker(Arg(main)))
      /\ pushed' = Append(pushed, Marker(Arg(main)))
      /\ producerMtx' = IF Fills(queue') THEN main ELSE NoThread
      /\ UNCHANGED <<stageVars, jobVars, rwVars, runVars, paused>>
      /\ Continue(main, IF Fills(queue') THEN << <<"handOver", 0>> >> ELSE <<>>)
      /\ exited = "no" /\ todo[main] # <<>> /\ Matches(x)
  BY DEF PushMarker, Push, At, Doing
<1>6. filter[main].pc \notin Full /\ ~ Fills(queue) /\ x.mode # "handOver"
  BY <1>5, Producers
<1>7. queue'.fout = Append(queue.fout, Marker(Arg(main))) /\ queue.fout \in Seq(Packet)
  BY <1>5, FoutFields DEF QueueTypeOK
<1>8. ASSUME NEW z \in Label, z.own = x.own, z.job = x.job, "fout" \notin z.empty,
             z.empty \subseteq x.empty, z.spare = x.spare - 1, z.creates = x.creates,
             \/ Fills(queue') /\ z.mode = "handOver" /\ x.mode = "running"
             \/ ~ Fills(queue') /\ z.mode = x.mode
      PROVE  Matches(z)'
  <2>1. /\ Shares(z)' /\ Place' /\ JobData(z)' /\ Left' = Left
        /\ Gpu(main)' = Gpu(main) /\ Fin(main)' = Fin(main) /\ UNCHANGED <<cache, filter>>
    BY <1>5, <1>8, SameBuffers DEF runVars
  <2>2. Empties(z)'
    BY <1>5, <1>8, <2>1 DEF Matches, Empties
  <2>3. Calling(z)'
    BY <1>5, <1>6, <1>8, <2>1 DEF Matches, Calling
  <2>4. Stopped(z)'
    BY <1>5 DEF Stopped, runVars
  <2>5. Counts(z)'
    <3>1. /\ Len(pushed) \in Nat /\ Len(Gpu(main)) \in Nat /\ Left \in Nat
          /\ calls[main] \in 0 .. MaxCalls /\ MaxCalls \in Nat /\ x.spare \in Nat /\ x.creates \in Nat
          /\ nextJob \in Nat \ {0}
      BY <1>5, Numeric
    <3>2. Len(pushed)' = Len(pushed) + 1
      BY <1>5 DEF QueueTypeOK
    <3>3. /\ Len(pushed) + Left + Len(Gpu(main)) + x.spare <= 2 * calls[main] + 2
          /\ nextJob + x.creates <= calls[main] + 2
      BY <1>5 DEF Matches, Counts
    <3> QED  BY <1>5, <1>8, <2>1, <3>1, <3>2, <3>3 DEF Counts, jobVars, runVars
  <2> QED  BY <2>1, <2>2, <2>3, <2>4, <2>5 DEF Matches
<1>9. ASSUME todo' \in [App -> Seq(Step)] PROVE TypeOK'
  BY <1>5, <1>9 DEF TypeOK, stageVars, jobVars, runVars
<1>10. CASE ~ Fills(queue')
  <2>1. Continue(main, <<>>) /\ <<>> \in Seq(Step) /\ Runs(<<>>, y, y)
    BY <1>5, <1>10, RunsNone
  <2>2. todo' \in [App -> Seq(Step)] /\ Leads(y, todo'[main])
    BY <1>1, <1>5, <2>1, Continued, Inserted
  <2>3. Matches(y)'
    BY <1>4, <1>8, <1>10
  <2> QED  BY <1>4, <1>9, <2>2, <2>3 DEF Doing, Shown
<1>11. CASE Fills(queue')
  <2>1. x.mode = "running"
    <3>1. ASSUME x.mode = "paused" PROVE FALSE
      <4>1. queue.fout = <<>>
        BY <1>2, <1>5, <3>1 DEF Matches, Empties
      <4>2. Len(queue'.fout) = 1
        BY <1>7, <4>1
      <4> QED  BY <1>11, <4>2, QueueAssumption DEF Fills
    <3> QED  BY <1>2, <3>1
  <2> DEFINE z == Mode(y, "handOver", y.empty)
             h == <<"handOver", 0>>
  <2>2. y \in Labels /\ y.empty \in SUBSET Known
    BY DEF Label, Labels
  <2>3. /\ z \in Labels /\ z.own = y.own /\ z.empty = y.empty /\ z.job = y.job
        /\ z.mode = "handOver" /\ z.spare = y.spare /\ z.creates = y.creates
    BY <2>2, ModeFields
  <2>4. Mode(z, "running", z.empty) = y
    <3>1. y.mode = "running"
      BY <1>4, <2>1
    <3> QED  BY <3>1 DEF Mode, Label, Labels
  <2> HIDE DEF z
  <2>5. y.own = "out" /\ y.job # "none" /\ ("lines" \in y.empty => "fin" \in y.empty)
    BY <1>2, <1>3, <1>4, <2>1 DEF Label
  <2>6. z \in Label
    BY <1>4, <2>3, <2>5 DEF Label, PauseModes
  <2>7. Rule(z, h, y)
    BY <2>3, <2>4 DEF Rule, HandRule
  <2>8. h \in Step
    BY DEF Step
  <2> HIDE DEF h
  <2>9. Runs(<<h>>, z, y) /\ <<h>> \in Seq(Step)
    BY <2>6, <2>7, <2>8, RunsOne
  <2>10. Continue(main, <<h>>)
    BY <1>5, <1>11 DEF h
  <2>11. todo' \in [App -> Seq(Step)] /\ Leads(z, todo'[main])
    BY <1>1, <1>5, <2>6, <2>9, <2>10, Continued, Inserted
  <2>12. Matches(z)'
    BY <1>4, <1>8, <1>11, <2>1, <2>3, <2>6
  <2> QED  BY <1>9, <2>1, <2>3, <2>6, <2>11, <2>12 DEF Doing, Shown
<1> QED  BY <1>10, <1>11

LEMMA HandOverFullKeeps ==
    ASSUME OneThread, TypeOK, QueueTypeOK, NEW x \in Label, Doing(x), HandOverFull(main)
    PROVE  TypeOK' /\ \E y \in Label : Doing(y)' /\ Shown(y) = Shown(x)
<1>1. PICK y \in Label :
        /\ Rule(x, Head(todo[main]), y) /\ Leads(y, Tail(todo[main]))
        /\ Head(todo[main])[1] = "handOver"
  BY StepTaken DEF HandOverFull, Doing
<1>2. x.mode = "handOver" /\ y = Mode(x, "running", x.empty)
  BY <1>1 DEF Rule, FilterRule, JobRule, QueueRule, HandRule, PauseRule, PausedRule
<1>3. /\ y.own = x.own /\ y.empty = x.empty /\ y.job = x.job /\ y.mode = "running"
      /\ y.spare = x.spare /\ y.creates = x.creates /\ "fout" \notin y.empty
  BY <1>2 DEF Mode, Label, Labels
<1>4. todo' \in [App -> Seq(Step)] /\ Leads(y, todo'[main])
  BY <1>1, Finished DEF HandOverFull, At
<1>5. /\ queue' = WorkPosted(Rotated(queue)) /\ producerMtx' = NoThread /\ UNCHANGED pushed
      /\ UNCHANGED <<stageVars, jobVars, rwVars, runVars, historyVars>>
      /\ exited = "no" /\ Matches(x)
  BY DEF HandOverFull, HandOver, At, Doing
<1>6. ~ Fills(queue')
  BY <1>5, FoutFields, EmptyDoesNotFill DEF QueueTypeOK
<1>7. TypeOK'
  BY <1>4, <1>5 DEF TypeOK, stageVars, jobVars, runVars
<1>8. /\ Shares(y)' /\ Place' /\ JobData(y)' /\ Left' = Left
      /\ Gpu(main)' = Gpu(main) /\ Fin(main)' = Fin(main) /\ UNCHANGED <<cache, filter>>
  BY <1>3, <1>5, SameBuffers DEF runVars
<1>9. Empties(y)' /\ Stopped(y)'
  BY <1>3, <1>5, <1>8 DEF Matches, Empties, Stopped, runVars
<1>10. Calling(y)'
  BY <1>2, <1>3, <1>5, <1>6, <1>8 DEF Matches, Calling, historyVars
<1>11. Counts(y)'
  BY <1>3, <1>5, <1>8 DEF Matches, Counts, jobVars, runVars
<1> QED  BY <1>2, <1>3, <1>4, <1>7, <1>8, <1>9, <1>10, <1>11 DEF Doing, Matches, Shown

WaitedFor(m) == IF m = "running" THEN "rotateBack" ELSE "rotateFront"

LEMMA QueueWaitKeeps ==
    ASSUME OneThread, TypeOK, QueueTypeOK, NEW x \in Label, Doing(x), QueueWait(main)
    PROVE  /\ TypeOK'
           /\ x.mode \in {"running", "waitFront"} /\ x.own = "held"
           /\ \/ WaitBegin(main) /\ Doing(x)'
              \/ /\ WaitEnd(main)
                 /\ \E y \in Label : Doing(y)' /\ y.mode = WaitedFor(x.mode)
<1>1. PICK y \in Label :
        /\ Rule(x, Head(todo[main]), y) /\ Leads(y, Tail(todo[main]))
        /\ Head(todo[main])[1] = "queueWait"
  BY StepTaken DEF QueueWait, Doing
<1>2. /\ x.own = "held" /\ x.job # "none" /\ Drained \subseteq x.empty
      /\ \/ x.mode = "running" /\ y = Mode(x, "rotateBack", Drained)
         \/ x.mode = "waitFront" /\ y = Mode(x, "rotateFront", Drained)
  BY <1>1 DEF Rule, FilterRule, JobRule, QueueRule, HandRule, PauseRule, PausedRule, Label, PauseModes
<1>3. /\ UNCHANGED <<stageVars, jobVars, rwVars, runVars, historyVars>>
      /\ UNCHANGED <<queue, pushed>>
      /\ exited = "no" /\ Matches(x) /\ todo[main] # <<>>
      /\ \/ producerMtx' = main /\ WaitBegin(main) /\ UNCHANGED todo
         \/ producerMtx' = NoThread /\ WaitEnd(main) /\ Finish(main)
  BY DEF QueueWait, WaitBegin, WaitEnd, At, Doing
<1>4. filter[main].pc \notin Full /\ "fout" \notin x.empty
  BY <1>2, <1>3 DEF Matches, Shares, Full, Label
<1>5. ASSUME NEW z \in Label, z.own = x.own, z.job = x.job, z.empty \subseteq x.empty,
             z.spare = x.spare, z.creates = x.creates, z.mode # "paused", z.mode # "handOver"
      PROVE  Matches(z)'
  <2>1. /\ Shares(z)' /\ Place' /\ JobData(z)' /\ Left' = Left
        /\ Gpu(main)' = Gpu(main) /\ Fin(main)' = Fin(main) /\ UNCHANGED <<cache, filter>>
    BY <1>3, <1>5, SameBuffers DEF runVars
  <2>2. Empties(z)' /\ Stopped(z)'
    BY <1>3, <1>4, <1>5, <2>1 DEF Matches, Empties, Stopped, runVars
  <2>3. Calling(z)'
    BY <1>2, <1>3, <1>4, <1>5, <2>1 DEF Matches, Calling, historyVars, Fills
  <2>4. Counts(z)'
    BY <1>3, <1>5, <2>1 DEF Matches, Counts, jobVars, runVars
  <2> QED  BY <2>1, <2>2, <2>3, <2>4 DEF Matches
<1>6. ASSUME todo' \in [App -> Seq(Step)] PROVE TypeOK'
  BY <1>3, <1>6 DEF TypeOK, stageVars, jobVars, runVars
<1>7. CASE WaitBegin(main) /\ UNCHANGED todo
  <2>1. Matches(x)'
    BY <1>2, <1>5
  <2>2. todo' \in [App -> Seq(Step)]
    BY <1>7 DEF TypeOK
  <2> QED  BY <1>2, <1>6, <1>7, <2>1, <2>2 DEF Doing
<1>8. CASE WaitEnd(main) /\ Finish(main)
  <2>1. todo' \in [App -> Seq(Step)] /\ Leads(y, todo'[main])
    BY <1>1, <1>3, <1>8, Finished
  <2>2. /\ y.own = x.own /\ y.job = x.job /\ y.empty \subseteq x.empty
        /\ y.spare = x.spare /\ y.creates = x.creates /\ y.mode # "paused" /\ y.mode # "handOver"
        /\ y.mode = WaitedFor(x.mode)
    <3>1. PICK m \in {"rotateBack", "rotateFront"} :
            y = Mode(x, m, Drained) /\ m = WaitedFor(x.mode)
      BY <1>2 DEF WaitedFor
    <3>2. m \in PauseModes /\ m # "paused" /\ m # "handOver"
      BY DEF PauseModes
    <3> QED  BY <1>2, <3>1, <3>2, PauseLabels
  <2>3. Matches(y)'
    BY <1>5, <2>2
  <2> QED  BY <1>2, <1>6, <1>8, <2>1, <2>2, <2>3 DEF Doing
<1> QED  BY <1>3, <1>7, <1>8

(***************************************************************************)
(* The calls of the analysis queue: rotations, starts, and the stop.       *)
(***************************************************************************)
RotatedTo(m) == IF m = "rotateBack" THEN "drain" ELSE "paused"
StartedTo(m) == IF m = "drain" THEN "waitFront" ELSE "running"

LEMMA QueueRotateKeeps ==
    ASSUME OneThread, TypeOK, QueueTypeOK, NEW x \in Label, Doing(x), QueueRotate(main)
    PROVE  /\ TypeOK' /\ x.mode \in {"rotateBack", "rotateFront"}
           /\ \E y \in Label : Doing(y)' /\ y.mode = RotatedTo(x.mode)
<1>1. PICK y \in Label :
        /\ Rule(x, Head(todo[main]), y) /\ Leads(y, Tail(todo[main]))
        /\ Head(todo[main])[1] = "queueRotate"
  BY StepTaken DEF QueueRotate, Doing
<1>2. \/ Arg(main) = "back" /\ x.mode = "rotateBack" /\ y = Mode(x, "drain", Drained)
      \/ Arg(main) = "front" /\ x.mode = "rotateFront" /\ y = Mode(x, "paused", Known)
  BY <1>1 DEF Rule, FilterRule, JobRule, QueueRule, HandRule, PauseRule, PausedRule, Arg
<1>3. x.own = "held" /\ x.job # "none" /\ Drained \subseteq x.empty /\ "drain" \in PauseModes
  BY <1>2 DEF Label, PauseModes
<1>4. /\ y.own = x.own /\ y.job = x.job /\ y.empty \subseteq Drained \cup {"fout"}
      /\ y.spare = x.spare /\ y.creates = x.creates
      /\ \/ y.mode = "drain" /\ Arg(main) = "back" /\ x.mode = "rotateBack"
         \/ y.mode = "paused" /\ Arg(main) = "front" /\ x.mode = "rotateFront"
  <2>1. CASE Arg(main) = "back"
    <3>1. y = Mode(x, "drain", Drained)
      BY <1>2, <2>1
    <3>2. x.mode = "rotateBack"
      BY <1>2, <2>1
    <3> QED  BY <1>3, <2>1, <3>1, <3>2, PauseLabels
  <2>2. CASE Arg(main) = "front"
    <3>1. y = Mode(x, "paused", Known)
      BY <1>2, <2>2
    <3>2. Known \subseteq Drained \cup {"fout"}
      BY DEF Known, Drained
    <3>3. x.mode = "rotateFront"
      BY <1>2, <2>2
    <3> QED  BY <1>3, <2>2, <3>1, <3>2, <3>3, PausedLabel
  <2> QED  BY <1>2, <2>1, <2>2
<1>5. todo' \in [App -> Seq(Step)] /\ Leads(y, todo'[main])
  BY <1>1, Finished DEF QueueRotate, At
<1>6. /\ queue' = Rotated(queue) /\ UNCHANGED <<producerMtx, pushed>>
      /\ UNCHANGED <<stageVars, jobVars, rwVars, runVars>>
      /\ paused' = IF Arg(main) = "front" THEN paused \cup {main} ELSE paused
      /\ exited = "no" /\ Matches(x)
  BY DEF QueueRotate, Rotate, At, Doing
<1>7. queue'.fout = <<>> /\ ~ Fills(queue')
  BY <1>6, FoutFields, EmptyDoesNotFill DEF QueueTypeOK
<1>8. TypeOK'
  BY <1>5, <1>6 DEF TypeOK, stageVars, jobVars, runVars
<1>9. /\ Shares(y)' /\ Place' /\ JobData(y)' /\ Left' = Left
      /\ Gpu(main)' = Gpu(main) /\ Fin(main)' = Fin(main) /\ UNCHANGED <<cache, filter>>
  BY <1>4, <1>6, SameBuffers DEF runVars
<1>10. Empties(y)' /\ Stopped(y)'
  <2>1. Gpu(main) = <<>> /\ Fin(main) = <<>> /\ cache[main] = {}
    BY <1>3, <1>6 DEF Matches, Empties, Drained
  <2> QED  BY <1>6, <1>7, <1>9, <2>1 DEF Empties, Stopped, runVars
<1>11. Calling(y)'
  <2>1. paused = {} /\ filter[main].pc \notin Full
    BY <1>2, <1>3, <1>6 DEF Matches, Calling, Shares, Full
  <2>2. "drain" # "paused" /\ "back" # "front"
    OBVIOUS
  <2> QED  BY <1>4, <1>6, <1>7, <1>9, <2>1, <2>2 DEF Calling
<1>12. Counts(y)'
  BY <1>4, <1>6, <1>9 DEF Matches, Counts, jobVars, runVars
<1> QED  BY <1>4, <1>5, <1>8, <1>9, <1>10, <1>11, <1>12 DEF Doing, Matches, RotatedTo

LEMMA QueueStartKeeps ==
    ASSUME OneThread, TypeOK, QueueTypeOK, NEW x \in Label, Doing(x), QueueStart(main)
    PROVE  /\ TypeOK' /\ x.mode \in {"drain", "paused"}
           /\ \E y \in Label : Doing(y)' /\ y.mode = StartedTo(x.mode)
<1>1. PICK y \in Label :
        /\ Rule(x, Head(todo[main]), y) /\ Leads(y, Tail(todo[main]))
        /\ Head(todo[main])[1] = "queueStart"
  BY StepTaken DEF QueueStart, Doing
<1>2. \/ x.mode = "drain" /\ y = Mode(x, "waitFront", Drained)
      \/ x.mode = "paused" /\ y = Mode(x, "running", Drained)
  BY <1>1 DEF Rule, FilterRule, JobRule, QueueRule, HandRule, PauseRule, PausedRule
<1>3. /\ Drained \subseteq x.empty /\ x \in Labels /\ Drained \in SUBSET Known
      /\ "waitFront" \in PauseModes /\ "fout" \notin Drained
  BY <1>2 DEF Label, PauseModes, Drained, Known
<1>4. /\ y.own = x.own /\ y.job = x.job /\ y.empty = Drained
      /\ y.spare = x.spare /\ y.creates = x.creates /\ y.mode # "paused" /\ y.mode # "handOver"
      /\ y.mode = StartedTo(x.mode)
  <2>1. PICK m \in {"waitFront", "running"} : y = Mode(x, m, Drained) /\ m = StartedTo(x.mode)
    BY <1>2 DEF StartedTo
  <2>2. m \in {"running", "handOver", "paused"} \cup PauseModes
    BY <1>3
  <2> QED  BY <1>3, <2>1, <2>2, ModeFields
<1>5. todo' \in [App -> Seq(Step)] /\ Leads(y, todo'[main])
  BY <1>1, Finished DEF QueueStart, At
<1>6. /\ queue' = WorkPosted(queue) /\ producerMtx = NoThread /\ UNCHANGED <<producerMtx, pushed>>
      /\ UNCHANGED <<stageVars, jobVars, rwVars, runVars>>
      /\ paused' = paused \ {main} /\ exited = "no" /\ Matches(x)
  BY DEF QueueStart, Start, At, Doing
<1>7. queue'.fout = queue.fout
  BY <1>6, FoutFields DEF QueueTypeOK
<1>8. TypeOK'
  BY <1>5, <1>6 DEF TypeOK, stageVars, jobVars, runVars
<1>9. /\ Shares(y)' /\ Place' /\ JobData(y)' /\ Left' = Left
      /\ Gpu(main)' = Gpu(main) /\ Fin(main)' = Fin(main) /\ UNCHANGED <<cache, filter>>
  BY <1>4, <1>6, SameBuffers DEF runVars
<1>10. Empties(y)' /\ Stopped(y)'
  BY <1>3, <1>4, <1>6, <1>9 DEF Matches, Empties, Stopped, runVars
<1>11. Calling(y)'
  <2>1. filter[main].pc \notin Full /\ ~ Fills(queue)
    BY <1>6, Producers
  <2>2. ~ Fills(queue')
    BY <1>7, <2>1 DEF Fills
  <2>3. paused \ {main} = {}
    <3>1. paused = {} \/ paused = {main}
      BY <1>6 DEF Matches, Calling
    <3> QED  BY <3>1
  <2> QED  BY <1>4, <1>6, <1>9, <2>1, <2>2, <2>3 DEF Calling
<1>12. Counts(y)'
  BY <1>4, <1>6, <1>9 DEF Matches, Counts, jobVars, runVars
<1> QED  BY <1>2, <1>4, <1>5, <1>8, <1>9, <1>10, <1>11, <1>12 DEF Doing, Matches

\* The steps under rw_mtx that change nothing the labels speak of.
LEMMA RwKeeps ==
    ASSUME OneThread, TypeOK, QueueTypeOK, NEW x \in Label, Doing(x),
           RwLock(main) \/ RwUnlock(main)
    PROVE  TypeOK' /\ Doing(x)'
<1>1. PICK name \in {"rwLock", "rwUnlock"} : At(main, name)
  BY DEF RwLock, RwUnlock
<1>2. PICK y \in Label :
        /\ Rule(x, Head(todo[main]), y) /\ Leads(y, Tail(todo[main]))
        /\ Head(todo[main])[1] = name
  BY <1>1, StepTaken DEF Doing
<1>3. y = x
  BY <1>2 DEF Rule, FilterRule, JobRule, QueueRule, HandRule, PauseRule, PausedRule
<1>4. Finish(main) /\ UNCHANGED <<queueVars, stageVars, jobVars, runVars, historyVars>> /\ Matches(x)
  BY DEF RwLock, RwUnlock, Doing
<1>5. todo' \in [App -> Seq(Step)] /\ Leads(x, todo'[main])
  BY <1>1, <1>2, <1>3, <1>4, Finished DEF At
<1>6. TypeOK'
  BY <1>4, <1>5 DEF TypeOK, stageVars, jobVars, runVars
<1>7. Matches(x)'
  BY <1>4, SameState DEF queueVars, runVars
<1> QED  BY <1>5, <1>6, <1>7 DEF Doing

LEMMA ProcessMarkerKeeps ==
    ASSUME OneThread, TypeOK, QueueTypeOK, NEW x \in Label, Doing(x), ProcessMarker(main)
    PROVE  TypeOK' /\ \E y \in Label : Doing(y)' /\ y.mode = x.mode
<1>1. PICK y \in Label :
        /\ Rule(x, Head(todo[main]), y) /\ Leads(y, Tail(todo[main]))
        /\ Head(todo[main])[1] = "process"
  BY StepTaken DEF ProcessMarker, Doing
<1>2. x.mode = "paused" /\ "fout" \in x.empty /\ x.spare > 0 /\ y = Spend(x, x.job, x.empty)
  BY <1>1 DEF Rule, FilterRule, JobRule, QueueRule, HandRule, PauseRule, PausedRule
<1>3. x.job # "none" /\ x.empty = Known /\ Known \in SUBSET Known
  BY <1>2 DEF Label, Labels, Known, Drained
<1>4. /\ y.own = x.own /\ y.job = x.job /\ y.empty = x.empty /\ y.mode = x.mode
      /\ y.spare = x.spare - 1 /\ y.creates = x.creates
  BY <1>2, <1>3, SpendLabel
<1>5. todo' \in [App -> Seq(Step)] /\ Leads(y, todo'[main])
  BY <1>1, Finished DEF ProcessMarker, At
<1>6. /\ UNCHANGED <<queue, producerMtx>> /\ pushed' = Append(pushed, Marker(Arg(main)))
      /\ UNCHANGED <<stageVars, jobVars, rwVars, runVars, paused>>
      /\ exited = "no" /\ Matches(x)
  BY DEF ProcessMarker, ProcessAll, At, Doing
<1>7. TypeOK'
  BY <1>5, <1>6 DEF TypeOK, stageVars, jobVars, runVars
<1>8. /\ Shares(y)' /\ Place' /\ JobData(y)' /\ Left' = Left
      /\ Gpu(main)' = Gpu(main) /\ Fin(main)' = Fin(main) /\ UNCHANGED <<cache, filter>>
  BY <1>4, <1>6, SameBuffers DEF runVars
<1>9. Empties(y)' /\ Stopped(y)'
  BY <1>4, <1>6, <1>8 DEF Matches, Empties, Stopped, runVars
<1>10. Calling(y)'
  BY <1>4, <1>6, <1>8 DEF Matches, Calling, Fills
<1>11. Counts(y)'
  <2>1. /\ Len(pushed) \in Nat /\ Len(Gpu(main)) \in Nat /\ Left \in Nat
        /\ calls[main] \in 0 .. MaxCalls /\ MaxCalls \in Nat /\ x.spare \in Nat /\ x.creates \in Nat
        /\ nextJob \in Nat \ {0}
    BY <1>6, Numeric
  <2>2. Len(pushed)' = Len(pushed) + 1
    BY <1>6 DEF QueueTypeOK
  <2>3. /\ Len(pushed) + Left + Len(Gpu(main)) + x.spare <= 2 * calls[main] + 2
        /\ nextJob + x.creates <= calls[main] + 2
    BY <1>6 DEF Matches, Counts
  <2> QED  BY <1>4, <1>6, <1>8, <2>1, <2>2, <2>3 DEF Counts, jobVars, runVars
<1> QED  BY <1>4, <1>5, <1>7, <1>8, <1>9, <1>10, <1>11 DEF Doing, Matches

\* The end of swap_buffers(): the process stops, or the pause ends.
LEMMA StopOrGoKeeps ==
    ASSUME OneThread, TypeOK, QueueTypeOK, NEW x \in Label, Doing(x), StopOrGo(main)
    PROVE  TypeOK' /\ Doing(x)'
<1>1. PICK y \in Label :
        /\ Rule(x, Head(todo[main]), y) /\ Leads(y, Tail(todo[main]))
        /\ Head(todo[main])[1] = "stopOrGo"
  BY StepTaken DEF StopOrGo, Doing
<1>2. /\ x.mode = "paused" /\ x.own = "held" /\ "fout" \in x.empty
      /\ y = Mode(Hold(x, "out", Drained), "running", Drained)
  BY <1>1 DEF Rule, FilterRule, JobRule, QueueRule, HandRule, PauseRule, PausedRule
<1>3. x.job # "none" /\ x \in Labels
  BY <1>2 DEF Label
<1>4. /\ y.own = "out" /\ y.job = x.job /\ y.empty = Drained /\ y.mode = "running"
      /\ y.spare = x.spare /\ y.creates = x.creates
  <2> DEFINE h == Hold(x, "out", Drained)
  <2>1. Drained \in SUBSET Known
    BY DEF Drained, Known
  <2>2. /\ h \in Labels /\ h.own = "out" /\ h.job = x.job /\ h.spare = x.spare
        /\ h.creates = x.creates
    BY <1>3, <2>1, HoldFields
  <2>3. y = Mode(h, "running", Drained)
    BY <1>2
  <2> HIDE DEF h
  <2> QED  BY <2>1, <2>2, <2>3, ModeFields
<1> DEFINE u == <<"rwUnlock", 0>>
           e == <<"exit", 0>>
<1>5. u \in Step /\ e \in Step
  BY DEF Step
<1>6. Rule(x, u, x) /\ Rule(x, e, y) /\ Rule(y, u, y)
  BY <1>2, <1>3, <1>4 DEF Rule, QueueRule, PausedRule
<1>7. /\ todo[main] # <<>> /\ exited = "no" /\ Matches(x)
      /\ \/ Continue(main, <<u, e>>) /\ stop' = stop
         \/ stop # 0 /\ Continue(main, Resume \o <<u>>) /\ stop' = stop - 1
      /\ UNCHANGED <<queueVars, stageVars, jobVars, rwVars, calls, gids, exited, historyVars>>
  BY DEF StopOrGo, At, Doing
<1> HIDE DEF u, e
<1>8. Runs(<<u, e>>, x, y) /\ <<u, e>> \in Seq(Step)
  BY <1>5, <1>6, RunsTwo
<1>9. Runs(Resume \o <<u>>, x, y) /\ Resume \o <<u>> \in Seq(Step)
  <2> DEFINE last == <<u>>
  <2>1. PICK z \in Label :
          /\ z.own = "out" /\ z.mode = "running" /\ z.empty = Drained
          /\ z.job = x.job /\ z.spare = x.spare /\ z.creates = x.creates
          /\ Runs(Resume, x, z) /\ Resume \in Seq(Step)
    BY <1>2, ResumeRuns
  <2>2. z = y
    BY <1>4, <2>1 DEF Label, Labels
  <2>3. Runs(last, y, y) /\ last \in Seq(Step)
    BY <1>5, <1>6, RunsOne
  <2> HIDE DEF last
  <2>4. Runs(Resume, x, y) /\ Resume \in Seq(Step)
    BY <2>1, <2>2
  <2>5. Runs(Resume \o last, x, y) /\ Resume \o last \in Seq(Step)
    BY <2>3, <2>4, RunsAppended
  <2> QED  BY <2>5 DEF last
<1>10. todo' \in [App -> Seq(Step)] /\ Leads(x, todo'[main])
  <2>1. CASE Continue(main, <<u, e>>)
    BY <1>1, <1>7, <1>8, <2>1, Continued, Inserted
  <2>2. CASE Continue(main, Resume \o <<u>>)
    BY <1>1, <1>7, <1>9, <2>2, Continued, Inserted
  <2> QED  BY <1>7, <2>1, <2>2
<1>11. TypeOK'
  BY <1>7, <1>10 DEF TypeOK, stageVars, jobVars
<1>12. Matches(x)'
  BY <1>7, SameState DEF queueVars
<1> QED  BY <1>10, <1>11, <1>12 DEF Doing

LEMMA ExitKeeps ==
    ASSUME OneThread, TypeOK, QueueTypeOK, NEW x \in Label, Doing(x), Exit(main)
    PROVE  TypeOK' /\ Doing(x)'
<1>1. PICK y \in Label :
        /\ Rule(x, Head(todo[main]), y) /\ Leads(y, Tail(todo[main]))
        /\ Head(todo[main])[1] = "exit"
  BY StepTaken DEF Exit, Doing
<1>2. x.mode = "paused" /\ x.own = "held" /\ "fout" \in x.empty
  BY <1>1 DEF Rule, FilterRule, JobRule, QueueRule, HandRule, PauseRule, PausedRule
<1>3. /\ UNCHANGED <<queueVars, todo, stageVars, jobVars, rwVars, calls, gids, stop, historyVars>>
      /\ exited' = "stop" /\ Matches(x)
  BY DEF Exit, Doing
<1>4. TypeOK'
  BY <1>3 DEF TypeOK, stageVars, jobVars
<1>5. Matches(x)'
  BY <1>2, <1>3 DEF Matches, Shares, Empties, Place, JobData, Calling, Stopped, Counts, Left,
     queueVars, stageVars, jobVars, historyVars, Gpu, Fin, AccessOf, Fills
<1> QED  BY <1>3, <1>4, <1>5 DEF Doing

(***************************************************************************)
(* The filter thread: its states, and the start of its loop.               *)
(***************************************************************************)
FilterStates ==
    [pc : FilterPcs, in : 0 .. 1, pos : Nat, pkt : Pkts \cup {Marker("NONE")}]

\* What the steps of the filter thread do to its record.
LEMMA Goes ==
    ASSUME OneThread, TypeOK, NEW p \in FilterPcs, FilterGoto(main, p)
    PROVE  /\ filter' \in [App -> FilterStates] /\ filter'[main].pc = p
           /\ filter'[main].in = filter[main].in /\ filter'[main].pos = filter[main].pos
           /\ filter'[main].pkt = filter[main].pkt
<1>1. main \in App /\ filter \in [App -> FilterStates]
  BY MainThread DEF TypeOK, FilterStates
<1>2. filter[main] \in FilterStates /\ filter' = [filter EXCEPT ![main].pc = p]
  BY <1>1 DEF FilterGoto
<1> DEFINE f == [filter[main] EXCEPT !.pc = p]
<1>3. /\ f \in FilterStates /\ f.pc = p /\ f.in = filter[main].in /\ f.pos = filter[main].pos
      /\ f.pkt = filter[main].pkt
  BY <1>2 DEF FilterStates
<1>4. filter' = [filter EXCEPT ![main] = f]
  BY <1>1, <1>2
<1> HIDE DEF f
<1> QED  BY <1>1, <1>3, <1>4

LEMMA GoesOn ==
    ASSUME OneThread, TypeOK, NextItem(main)
    PROVE  /\ filter' \in [App -> FilterStates] /\ filter'[main].pc = "items"
           /\ filter'[main].in = filter[main].in /\ filter'[main].pos = filter[main].pos + 1
           /\ filter'[main].pkt = filter[main].pkt
<1> DEFINE n == filter[main].pos + 1
<1>1. main \in App /\ filter \in [App -> FilterStates] /\ "items" \in FilterPcs
  BY MainThread DEF TypeOK, FilterStates, FilterPcs
<1>2. n \in Nat
  BY <1>1 DEF FilterStates
<1>3. filter' = [filter EXCEPT ![main].pc = "items", ![main].pos = n]
  BY <1>1 DEF NextItem
<1> HIDE DEF n
<1>4. /\ filter' \in [App -> FilterStates] /\ filter'[main].pc = "items"
      /\ filter'[main].in = filter[main].in /\ filter'[main].pos = n
      /\ filter'[main].pkt = filter[main].pkt
  BY <1>1, <1>2, <1>3 DEF FilterStates
<1> QED  BY <1>4 DEF n

LEMMA Takes ==
    ASSUME OneThread, TypeOK, NEW p \in FilterPcs, TakeItem(main, p), FilterPkt(main) \in Pkts
    PROVE  /\ filter' \in [App -> FilterStates] /\ filter'[main].pc = p
           /\ filter'[main].in = filter[main].in /\ filter'[main].pos = filter[main].pos
           /\ filter'[main].pkt = FilterPkt(main)
<1> DEFINE k == FilterPkt(main)
<1>1. main \in App /\ filter \in [App -> FilterStates] /\ k \in Pkts \cup {Marker("NONE")}
  BY MainThread DEF TypeOK, FilterStates
<1>2. filter' = [filter EXCEPT ![main].pc = p, ![main].pkt = k]
  BY DEF TakeItem
<1> HIDE DEF k
<1>3. /\ filter' \in [App -> FilterStates] /\ filter'[main].pc = p
      /\ filter'[main].in = filter[main].in /\ filter'[main].pos = filter[main].pos
      /\ filter'[main].pkt = k
  BY <1>1, <1>2 DEF FilterStates
<1> QED  BY <1>3 DEF k

LEMMA TypeKept ==
    ASSUME TypeOK, UNCHANGED <<todo, out, jobVars, runVars>>,
           filter' \in [App -> FilterStates],
           buf' \in [App -> [0 .. 1 -> Seq(Pkts)]],
           fHasWork' \in [App -> BOOLEAN], fDone' \in [App -> BOOLEAN],
           cache' \in [App -> SUBSET [job : 1 .. MaxCalls + 1, dev : Dev]],
           rscDev' \in Dev
    PROVE  TypeOK'
  BY DEF TypeOK, FilterStates, jobVars, runVars

LEMMA BuffersKept ==
    ASSUME TypeOK
    PROVE  /\ buf \in [App -> [0 .. 1 -> Seq(Pkts)]] /\ filter \in [App -> FilterStates]
           /\ fHasWork \in [App -> BOOLEAN] /\ fDone \in [App -> BOOLEAN]
           /\ cache \in [App -> SUBSET [job : 1 .. MaxCalls + 1, dev : Dev]]
           /\ rscDev \in Dev
  BY DEF TypeOK, FilterStates

LEMMA FilterPopKeeps ==
    ASSUME OneThread, TypeOK, QueueTypeOK, NEW x \in Label, Doing(x), FilterPop(main)
    PROVE  TypeOK' /\ Doing(x)'
<1>1. /\ filter[main].pc = "pop" /\ fHasWork[main] /\ FilterGoto(main, "popped")
      /\ UNCHANGED <<queueVars, todo, buf, out, fHasWork, fDone, cache, rscDev, jobVars,
                     rwVars, runVars, historyVars>>
      /\ Matches(x)
  BY DEF FilterPop, FilterAt, Doing
<1>2. filter' \in [App -> FilterStates] /\ filter'[main].pc = "popped"
  BY <1>1, Goes DEF FilterPcs
<1>3. TypeOK'
  BY <1>1, <1>2, TypeKept, BuffersKept
<1>4. Shares(x)'
  BY <1>1, <1>2 DEF Matches, Shares, Label, Labels, runVars
<1>5. Empties(x)' /\ JobData(x)'
  BY <1>1 DEF Matches, Empties, JobData, AccessOf, queueVars, jobVars, Gpu, Fin
<1>6. Place' /\ Left' = Left
  BY <1>1, <1>2 DEF Place, Left, Reading, Fin
<1>7. Calling(x)' /\ Stopped(x)'
  BY <1>1, <1>2 DEF Matches, Calling, Stopped, queueVars, historyVars, runVars, Full, Fills
<1>8. Counts(x)'
  BY <1>1, <1>6 DEF Matches, Counts, queueVars, jobVars, runVars, Gpu
<1> QED  BY <1>1, <1>3, <1>4, <1>5, <1>6, <1>7, <1>8 DEF Doing, Matches

LEMMA FilterClearKeeps ==
    ASSUME OneThread, TypeOK, QueueTypeOK, NEW x \in Label, Doing(x), FilterClear(main)
    PROVE  TypeOK' /\ Doing(x)'
<1>1. /\ filter[main].pc = "popped" /\ FilterGoto(main, "lock")
      /\ fHasWork' = [fHasWork EXCEPT ![main] = FALSE]
      /\ UNCHANGED <<queueVars, todo, buf, out, fDone, cache, rscDev, jobVars,
                     rwVars, runVars, historyVars>>
      /\ Matches(x)
  BY DEF FilterClear, FilterAt, Doing
<1>2. filter' \in [App -> FilterStates] /\ filter'[main].pc = "lock"
  BY <1>1, Goes DEF FilterPcs
<1>3. fHasWork' \in [App -> BOOLEAN] /\ ~ fHasWork'[main]
  BY <1>1, MainThread DEF TypeOK
<1>4. TypeOK'
  BY <1>1, <1>2, <1>3, TypeKept, BuffersKept
<1>5. Shares(x)'
  BY <1>1, <1>2, <1>3 DEF Matches, Shares, Label, Labels, runVars
<1>6. Empties(x)' /\ JobData(x)'
  BY <1>1 DEF Matches, Empties, JobData, AccessOf, queueVars, jobVars, Gpu, Fin
<1>7. Place' /\ Left' = Left
  BY <1>1, <1>2 DEF Place, Left, Reading, Fin
<1>8. Calling(x)' /\ Stopped(x)'
  BY <1>1, <1>2 DEF Matches, Calling, Stopped, queueVars, historyVars, runVars, Full, Fills
<1>9. Counts(x)'
  BY <1>1, <1>7 DEF Matches, Counts, queueVars, jobVars, runVars, Gpu
<1> QED  BY <1>1, <1>4, <1>5, <1>6, <1>7, <1>8, <1>9 DEF Doing, Matches

LEMMA FilterLockKeeps ==
    ASSUME OneThread, TypeOK, QueueTypeOK, NEW x \in Label, Doing(x), FilterLock(main)
    PROVE  TypeOK' /\ Doing(x)'
<1> DEFINE b == 1 - out[main]
<1>1. /\ filter[main].pc = "lock"
      /\ filter' = [filter EXCEPT ![main].pc = "items", ![main].in = b, ![main].pos = 1]
      /\ UNCHANGED <<queueVars, todo, buf, out, fHasWork, fDone, cache, rscDev, jobVars,
                     runVars, historyVars>>
      /\ Matches(x)
  BY DEF FilterLock, FilterAt, Doing
<1>2. b \in 0 .. 1 /\ "items" \in FilterPcs /\ main \in App /\ Len(Fin(main)) \in Nat
  BY Buffers, MainThread DEF FilterPcs
<1> HIDE DEF b
<1>3. /\ filter' \in [App -> FilterStates] /\ filter'[main].pc = "items"
      /\ filter'[main].in = b /\ filter'[main].pos = 1
  <2> DEFINE f == [filter[main] EXCEPT !.pc = "items", !.in = b, !.pos = 1]
  <2>1. filter \in [App -> FilterStates] /\ filter[main] \in FilterStates
    BY <1>2 DEF TypeOK, FilterStates
  <2>2. f \in FilterStates /\ f.pc = "items" /\ f.in = b /\ f.pos = 1
    BY <1>2, <2>1 DEF FilterStates
  <2>3. filter' = [filter EXCEPT ![main] = f]
    BY <1>1, <1>2, <2>1
  <2> HIDE DEF f
  <2> QED  BY <1>2, <2>1, <2>2, <2>3
<1>4. TypeOK'
  BY <1>1, <1>3, TypeKept, BuffersKept
<1>5. Shares(x)'
  BY <1>1, <1>3 DEF Matches, Shares, Label, Labels, runVars
<1>6. Empties(x)' /\ JobData(x)'
  BY <1>1 DEF Matches, Empties, JobData, AccessOf, queueVars, jobVars, Gpu, Fin
<1>7. Fin(main)' = Fin(main)
  BY <1>1 DEF Fin
<1>8. Place'
  BY <1>1, <1>2, <1>3, <1>7 DEF Place, Reading, b
<1>9. Left' = Left
  BY <1>1, <1>2, <1>3, <1>7 DEF Left, Reading
<1>10. Calling(x)' /\ Stopped(x)'
  BY <1>1, <1>3 DEF Matches, Calling, Stopped, queueVars, historyVars, runVars, Full, Fills
<1>11. Counts(x)'
  BY <1>1, <1>9 DEF Matches, Counts, queueVars, jobVars, runVars, Gpu
<1> QED  BY <1>1, <1>4, <1>5, <1>6, <1>8, <1>10, <1>11 DEF Doing, Matches

\* While the filter thread has a packet, no pause can have begun.
LEMMA FilterHasPacket ==
    ASSUME OneThread, TypeOK, NEW x \in Label, Matches(x), filter[main].pc \in Reading,
           filter[main].pc = "items" => MoreItems(main)
    PROVE  /\ x.own = "out" /\ x.mode \in {"running", "handOver"}
           /\ "fin" \notin x.empty /\ "lines" \notin x.empty /\ "fout" \notin x.empty
           /\ InBuffer(main) = Fin(main) /\ filter[main].pos \in 1 .. Len(Fin(main))
           /\ FilterPkt(main) = Fin(main)[filter[main].pos] /\ FilterPkt(main) \in Pkts
           /\ Fin(main) \in Seq(Pkts) /\ job[main] \in Jobs
           /\ FilterPkt(main).cmd = "ACCESS" => FilterPkt(main).job = job[main]
<1>1. Fin(main) \in Seq(Pkts) /\ Fin(main) = buf[main][1 - out[main]]
  BY Buffers
<1>2. InBuffer(main) = Fin(main)
  BY <1>1 DEF Matches, Place, InBuffer
<1>3. filter[main].pos \in Nat
  BY MainThread DEF TypeOK
<1>4. filter[main].pos \in 1 .. Len(Fin(main))
  BY <1>1, <1>2, <1>3 DEF Matches, Place, Reading, MoreItems
<1>5. FilterPkt(main) = Fin(main)[filter[main].pos] /\ FilterPkt(main) \in Pkts
  BY <1>1, <1>2, <1>4 DEF FilterPkt
<1>6. Fin(main) # <<>>
  BY <1>1, <1>4
<1>7. "fin" \notin x.empty
  BY <1>6 DEF Matches, Empties
<1>8. x.own = "out"
  BY DEF Matches, Shares, Reading, Label, Labels
<1>9. "lines" \notin x.empty
  BY <1>7 DEF Label
<1>10. x.mode \in {"running", "handOver"} /\ x.job # "none"
  BY <1>7 DEF Label, Labels, Drained
<1>11. "fout" \notin x.empty
  BY <1>10 DEF Label
<1> QED  BY <1>1, <1>2, <1>4, <1>5, <1>7, <1>8, <1>9, <1>10, <1>11 DEF Matches, JobData, AccessOf

LEMMA LessLeft ==
    ASSUME NEW p \in Nat, NEW l \in Nat, NEW g \in Nat, NEW s \in Nat, NEW m \in Nat,
           NEW q \in Nat, NEW k \in Nat, p + l + g + s <= m, q + k <= p + l
    PROVE  q + k + g + s <= m
  OBVIOUS

\* The part of the invariant a step within the buffer disturbs.
LEMMA WithinBuffer ==
    ASSUME OneThread, TypeOK, QueueTypeOK, NEW x \in Label, Matches(x),
           filter[main].pc \in Reading, filter[main].pc = "items" => MoreItems(main),
           filter'[main].pc \in Reading, filter'[main].in = filter[main].in,
           UNCHANGED <<buf, out, fHasWork, fDone, jobVars, runVars, historyVars>>,
           \A l \in cache'[main] : JobOf(l.job, l.dev) = job[main],
           Place', Calling(x)', Len(pushed') + Left' <= Len(pushed) + Left,
           Left' \in Nat, Len(pushed') \in Nat
    PROVE  Matches(x)'
<1>1. /\ x.own = "out" /\ x.mode \in {"running", "handOver"}
      /\ "fin" \notin x.empty /\ "lines" \notin x.empty /\ "fout" \notin x.empty
  BY FilterHasPacket
<1>2. Gpu(main)' = Gpu(main) /\ Fin(main)' = Fin(main)
  BY DEF Gpu, Fin
<1>3. Shares(x)'
  BY <1>1, <1>2 DEF Matches, Shares, Reading, runVars
<1>4. Empties(x)'
  BY <1>1, <1>2 DEF Matches, Empties
<1>5. JobData(x)'
  BY <1>2 DEF Matches, JobData, AccessOf, jobVars
<1>6. Stopped(x)'
  BY <1>1 DEF Matches, Stopped, runVars
<1>7. Counts(x)'
  <2>1. /\ Len(pushed) \in Nat /\ Len(Gpu(main)) \in Nat /\ Left \in Nat
        /\ calls[main] \in 0 .. MaxCalls /\ MaxCalls \in Nat /\ x.spare \in Nat /\ x.creates \in Nat
        /\ nextJob \in Nat \ {0}
    BY Numeric
  <2>2. /\ Len(pushed) + Left + Len(Gpu(main)) + x.spare <= 2 * calls[main] + 2
        /\ nextJob + x.creates <= calls[main] + 2
    BY DEF Matches, Counts
  <2>3. Len(pushed') + Left' + Len(Gpu(main)) + x.spare <= 2 * calls[main] + 2
    <3>1. 2 * calls[main] + 2 \in Nat
      <4>1. \A c \in Nat : 2 * c + 2 \in Nat
        OBVIOUS
      <4> QED  BY <2>1, <4>1
    <3>2. PICK q \in Nat : q = Len(pushed')
      OBVIOUS
    <3>3. PICK k \in Nat : k = Left'
      OBVIOUS
    <3>4. q + k <= Len(pushed) + Left
      BY <3>2, <3>3
    <3>5. PICK m \in Nat : m = 2 * calls[main] + 2
      BY <3>1
    <3>6. Len(pushed) + Left + Len(Gpu(main)) + x.spare <= m
      BY <2>2, <3>5
    <3>7. q + k + Len(Gpu(main)) + x.spare <= m
      BY <2>1, <3>4, <3>6, LessLeft
    <3> QED  BY <3>2, <3>3, <3>5, <3>7
  <2> QED  BY <1>2, <2>2, <2>3 DEF Counts, jobVars, runVars
<1> QED  BY <1>3, <1>4, <1>5, <1>6, <1>7 DEF Matches

(***************************************************************************)
(* The filter thread: its buffer.                                          *)
(***************************************************************************)
\* What is left of the buffer after a packet, and before.
LEMMA PacketsLeft ==
    ASSUME OneThread, TypeOK, UNCHANGED <<buf, out>>, Place,
           filter[main].pc \in Reading, filter'[main].pc \in Reading,
           filter[main].pos \in 1 .. Len(Fin(main))
    PROVE  /\ Len(Fin(main)) \in Nat /\ Fin(main)' = Fin(main)
           /\ filter[main].pc = "items" => Left = Len(Fin(main)) + 1 - filter[main].pos
           /\ filter[main].pc # "items" => Left = Len(Fin(main)) - filter[main].pos
           /\ filter'[main].pc = "items" => Left' = Len(Fin(main)) + 1 - filter'[main].pos
           /\ filter'[main].pc # "items" => Left' = Len(Fin(main)) - filter'[main].pos
<1>1. Len(Fin(main)) \in Nat /\ Fin(main)' = Fin(main)
  BY Buffers DEF Fin
<1> QED  BY <1>1 DEF Left

LEMMA FilterJobPacketKeeps ==
    ASSUME OneThread, TypeOK, QueueTypeOK, NEW x \in Label, Doing(x), FilterJobPacket(main)
    PROVE  TypeOK' /\ Doing(x)'
<1> DEFINE pkt == FilterPkt(main)
           lines == {l \in cache[main] : l.dev # pkt.job.dev}
<1>1. /\ filter[main].pc = "items" /\ MoreItems(main)
      /\ cache' = cache \/ cache' = [cache EXCEPT ![main] = lines]
      /\ Push(Filter(main), pkt)
      /\ \/ Fills(queue') /\ FilterGoto(main, "fullThenNext")
         \/ ~ Fills(queue') /\ NextItem(main)
      /\ UNCHANGED <<todo, buf, out, fHasWork, fDone, rscDev, jobVars,
                     rwVars, runVars, historyVars>>
      /\ Matches(x) /\ main \in App
  BY MainThread DEF FilterJobPacket, FilterAt, Doing
<1>2. lines \subseteq cache[main]
  OBVIOUS
<1> HIDE DEF pkt, lines
<1>3. filter[main].pc \in Reading /\ (filter[main].pc = "items" => MoreItems(main))
  BY <1>1 DEF Reading
<1>4. /\ x.own = "out" /\ x.mode \in {"running", "handOver"}
      /\ filter[main].pos \in 1 .. Len(Fin(main))
  BY <1>1, <1>3, FilterHasPacket
<1>5. /\ cache' \in [App -> SUBSET [job : 1 .. MaxCalls + 1, dev : Dev]]
      /\ cache'[main] \subseteq cache[main]
  <2>1. lines \in SUBSET [job : 1 .. MaxCalls + 1, dev : Dev]
    BY <1>1, <1>2, BuffersKept
  <2> QED  BY <1>1, <1>2, <2>1, BuffersKept
<1>6. /\ filter' \in [App -> FilterStates] /\ filter'[main].in = filter[main].in
      /\ \/ /\ Fills(queue') /\ filter'[main].pc = "fullThenNext"
            /\ filter'[main].pos = filter[main].pos
         \/ /\ ~ Fills(queue') /\ filter'[main].pc = "items"
            /\ filter'[main].pos = filter[main].pos + 1
  <2>1. CASE Fills(queue') /\ FilterGoto(main, "fullThenNext")
    BY <2>1, Goes DEF FilterPcs
  <2>2. CASE ~ Fills(queue') /\ NextItem(main)
    BY <2>2, GoesOn
  <2> QED  BY <1>1, <2>1, <2>2
<1>7. TypeOK'
  BY <1>1, <1>5, <1>6, TypeKept, BuffersKept
<1>8. filter'[main].pc \in Reading
  BY <1>6 DEF Reading
<1>9. /\ Len(Fin(main)) \in Nat /\ Fin(main)' = Fin(main)
      /\ Left = Len(Fin(main)) + 1 - filter[main].pos
      /\ filter'[main].pc = "items" => Left' = Len(Fin(main)) + 1 - filter'[main].pos
      /\ filter'[main].pc # "items" => Left' = Len(Fin(main)) - filter'[main].pos
  BY <1>1, <1>3, <1>4, <1>8, PacketsLeft DEF Matches
<1>10. Left' \in Nat /\ Left = Left' + 1
  <2> DEFINE n == Len(Fin(main))
             p == filter[main].pos
  <2>1. n \in Nat /\ p \in 1 .. n /\ Left = n + 1 - p
    BY <1>4, <1>9
  <2>2. Left' = n - p \/ Left' = n + 1 - (p + 1)
    BY <1>6, <1>9
  <2> HIDE DEF n, p
  <2> QED  BY <2>1, <2>2
<1>11. /\ producerMtx = NoThread /\ pushed' = Append(pushed, pkt)
       /\ producerMtx' = IF Fills(queue') THEN Filter(main) ELSE NoThread
  BY <1>1 DEF Push
<1>12. Len(pushed') = Len(pushed) + 1 /\ Len(pushed) \in Nat
  BY <1>11 DEF QueueTypeOK
<1>13. Place'
  <2>1. Fin(main)' = Fin(main) /\ UNCHANGED out /\ filter[main].in = 1 - out[main]
    BY <1>1, <1>3, <1>9 DEF Matches, Place
  <2>2. CASE filter'[main].pc = "fullThenNext" /\ filter'[main].pos = filter[main].pos
    BY <1>4, <1>6, <2>1, <2>2 DEF Place, Reading
  <2>3. CASE filter'[main].pc = "items" /\ filter'[main].pos = filter[main].pos + 1
    BY <1>4, <1>6, <1>9, <2>1, <2>3 DEF Place, Reading
  <2> QED  BY <1>6, <2>2, <2>3
<1>14. Calling(x)'
  <2>1. x.mode = "running" /\ paused = {}
    BY <1>1, <1>4, <1>11, Producers DEF Matches, Calling
  <2> QED  BY <1>1, <1>6, <1>11, <2>1 DEF Calling, Full, historyVars
<1>15. \A l \in cache'[main] : JobOf(l.job, l.dev) = job[main]
  BY <1>1, <1>5 DEF Matches, JobData
<1>16. Len(pushed') + Left' <= Len(pushed) + Left
  BY <1>10, <1>12
<1>17. Matches(x)'
  BY <1>1, <1>3, <1>6, <1>8, <1>10, <1>12, <1>13, <1>14, <1>15, <1>16, WithinBuffer
<1> QED  BY <1>1, <1>7, <1>17 DEF Doing

LEMMA FilterAccessKeeps ==
    ASSUME OneThread, TypeOK, QueueTypeOK, NEW x \in Label, Doing(x), FilterAccess(main)
    PROVE  TypeOK' /\ Doing(x)'
<1> DEFINE pkt == FilterPkt(main)
           move == Marker(IF pkt.job.dev = "CPU" THEN "MV_TO_CPU" ELSE "MV_TO_GPU")
<1>1. /\ filter[main].pc = "items" /\ MoreItems(main) /\ pkt.cmd = "ACCESS"
      /\ UNCHANGED <<todo, buf, out, fHasWork, fDone, cache, jobVars,
                     rwVars, runVars, historyVars>>
      /\ Matches(x) /\ main \in App
  BY MainThread DEF FilterAccess, FilterAt, Doing
<1>2. \/ NextItem(main) /\ UNCHANGED <<queueVars, rscDev>>
      \/ TakeItem(main, "access") /\ UNCHANGED <<queueVars, rscDev>>
      \/ /\ rscDev' = pkt.job.dev /\ Push(Filter(main), move)
         /\ Fills(queue') /\ TakeItem(main, "fullThenAccess")
      \/ /\ rscDev' = pkt.job.dev /\ Push(Filter(main), move)
         /\ ~ Fills(queue') /\ TakeItem(main, "access")
  BY DEF FilterAccess
<1> HIDE DEF move
<1>3. filter[main].pc \in Reading /\ (filter[main].pc = "items" => MoreItems(main))
  BY <1>1 DEF Reading
<1>4. /\ x.own = "out" /\ x.mode \in {"running", "handOver"}
      /\ filter[main].pos \in 1 .. Len(Fin(main)) /\ pkt = Fin(main)[filter[main].pos]
      /\ pkt \in Pkts
  BY <1>1, <1>3, FilterHasPacket
<1>5. pkt.job.dev \in Dev
  BY <1>4 DEF Pkts, Jobs
<1>6. /\ filter' \in [App -> FilterStates] /\ filter'[main].in = filter[main].in
      /\ \/ filter'[main].pc = "items" /\ filter'[main].pos = filter[main].pos + 1
         \/ /\ filter'[main].pc \in {"access", "fullThenAccess"}
            /\ filter'[main].pos = filter[main].pos /\ filter'[main].pkt = pkt
      /\ NextItem(main) => filter'[main].pc = "items"
      /\ TakeItem(main, "access") => filter'[main].pc = "access"
      /\ TakeItem(main, "fullThenAccess") => filter'[main].pc = "fullThenAccess"
  <2>1. CASE NextItem(main)
    BY <2>1, GoesOn, Takes, <1>4 DEF FilterPcs
  <2>2. CASE TakeItem(main, "access")
    BY <2>2, GoesOn, Takes, <1>4 DEF FilterPcs
  <2>3. CASE TakeItem(main, "fullThenAccess")
    BY <2>3, GoesOn, Takes, <1>4 DEF FilterPcs
  <2> QED  BY <1>2, <2>1, <2>2, <2>3
<1>7. rscDev' \in Dev
  BY <1>2, <1>5, BuffersKept
<1>8. TypeOK'
  BY <1>1, <1>6, <1>7, TypeKept, BuffersKept
<1>9. filter'[main].pc \in Reading
  BY <1>6 DEF Reading
<1>10. /\ Len(Fin(main)) \in Nat /\ Fin(main)' = Fin(main)
       /\ Left = Len(Fin(main)) + 1 - filter[main].pos
       /\ filter'[main].pc = "items" => Left' = Len(Fin(main)) + 1 - filter'[main].pos
       /\ filter'[main].pc # "items" => Left' = Len(Fin(main)) - filter'[main].pos
  BY <1>1, <1>3, <1>4, <1>9, PacketsLeft DEF Matches
<1>11. Left' \in Nat /\ Left = Left' + 1
  <2> DEFINE n == Len(Fin(main))
             p == filter[main].pos
  <2>1. n \in Nat /\ p \in 1 .. n /\ Left = n + 1 - p
    BY <1>4, <1>10
  <2>2. Left' = n - p \/ Left' = n + 1 - (p + 1)
    BY <1>6, <1>10
  <2> HIDE DEF n, p
  <2> QED  BY <2>1, <2>2
<1>12. \/ /\ UNCHANGED <<queue, pushed, producerMtx>>
          /\ filter'[main].pc \notin Full
       \/ /\ producerMtx = NoThread /\ pushed' = Append(pushed, move)
          /\ producerMtx' = IF Fills(queue') THEN Filter(main) ELSE NoThread
          /\ Fills(queue') <=> filter'[main].pc \in Full
  BY <1>2, <1>6 DEF Push, queueVars, Full
<1>13. Len(pushed') \in Nat /\ Len(pushed') <= Len(pushed) + 1 /\ Len(pushed) \in Nat
  <2>1. pushed \in Seq(Packet)
    BY DEF QueueTypeOK
  <2> QED  BY <1>12, <2>1
<1>14. Place'
  <2>1. Fin(main)' = Fin(main) /\ UNCHANGED out /\ filter[main].in = 1 - out[main]
    BY <1>1, <1>3, <1>10 DEF Matches, Place
  <2>2. CASE filter'[main].pc = "items" /\ filter'[main].pos = filter[main].pos + 1
    BY <1>4, <1>6, <1>10, <2>1, <2>2 DEF Place, Reading
  <2>3. CASE /\ filter'[main].pc \in {"access", "fullThenAccess"}
             /\ filter'[main].pos = filter[main].pos /\ filter'[main].pkt = pkt
    <3>1. filter'[main].pkt = Fin(main)'[filter'[main].pos] /\ filter'[main].pkt.cmd = "ACCESS"
      BY <1>1, <1>4, <2>1, <2>3
    <3> HIDE DEF pkt
    <3> QED  BY <1>4, <1>6, <1>10, <2>1, <2>3, <3>1 DEF Place, Reading
  <2> QED  BY <1>6, <2>2, <2>3
<1>15. Calling(x)'
  <2>1. CASE UNCHANGED <<queue, pushed, producerMtx>> /\ filter'[main].pc \notin Full
    <3>1. filter[main].pc \notin Full /\ Fills(queue') = Fills(queue)
      BY <1>1, <2>1 DEF Full, Fills
    <3> QED  BY <1>1, <2>1, <3>1 DEF Matches, Calling, historyVars
  <2>2. CASE /\ producerMtx = NoThread /\ pushed' = Append(pushed, move)
             /\ producerMtx' = IF Fills(queue') THEN Filter(main) ELSE NoThread
             /\ Fills(queue') <=> filter'[main].pc \in Full
    <3>1. x.mode = "running" /\ paused = {}
      BY <1>1, <1>4, <2>2, Producers DEF Matches, Calling
    <3> QED  BY <1>1, <2>2, <3>1 DEF Calling, historyVars
  <2> QED  BY <1>12, <2>1, <2>2
<1>16. \A l \in cache'[main] : JobOf(l.job, l.dev) = job[main]
  BY <1>1 DEF Matches, JobData
<1>17. Len(pushed') + Left' <= Len(pushed) + Left
  BY <1>11, <1>13
<1>18. Matches(x)'
  BY <1>1, <1>3, <1>6, <1>9, <1>11, <1>13, <1>14, <1>15, <1>16, <1>17, WithinBuffer
<1> QED  BY <1>1, <1>8, <1>18 DEF Doing

LEMMA FilterHandOverKeeps ==
    ASSUME OneThread, TypeOK, QueueTypeOK, NEW x \in Label, Doing(x), FilterHandOver(main)
    PROVE  TypeOK' /\ Doing(x)'
<1>1. /\ queue' = WorkPosted(Rotated(queue)) /\ producerMtx' = NoThread /\ UNCHANGED pushed
      /\ \/ filter[main].pc = "fullThenNext" /\ NextItem(main)
         \/ filter[main].pc = "fullThenAccess" /\ FilterGoto(main, "access")
      /\ UNCHANGED <<todo, buf, out, fHasWork, fDone, cache, rscDev, jobVars,
                     rwVars, runVars, historyVars>>
      /\ Matches(x)
  BY DEF FilterHandOver, HandOver, FilterAt, Doing
<1>2. filter[main].pc \in Reading /\ filter[main].pc # "items" /\ filter[main].pc \in Full
  BY <1>1 DEF Reading, Full
<1>3. /\ x.own = "out" /\ x.mode \in {"running", "handOver"}
      /\ filter[main].pos \in 1 .. Len(Fin(main))
  BY <1>1, <1>2, FilterHasPacket
<1>4. /\ filter' \in [App -> FilterStates] /\ filter'[main].in = filter[main].in
      /\ filter'[main].pkt = filter[main].pkt
      /\ \/ filter'[main].pc = "items" /\ filter'[main].pos = filter[main].pos + 1
         \/ /\ filter'[main].pc = "access" /\ filter[main].pc = "fullThenAccess"
            /\ filter'[main].pos = filter[main].pos
  <2>1. CASE filter[main].pc = "fullThenNext" /\ NextItem(main)
    BY <2>1, GoesOn
  <2>2. CASE filter[main].pc = "fullThenAccess" /\ FilterGoto(main, "access")
    BY <2>2, Goes DEF FilterPcs
  <2> QED  BY <1>1, <2>1, <2>2
<1>5. TypeOK'
  BY <1>1, <1>4, TypeKept, BuffersKept
<1>6. filter'[main].pc \in Reading /\ filter'[main].pc \notin Full
  BY <1>4 DEF Reading, Full
<1>7. /\ Len(Fin(main)) \in Nat /\ Fin(main)' = Fin(main)
      /\ Left = Len(Fin(main)) - filter[main].pos
      /\ filter'[main].pc = "items" => Left' = Len(Fin(main)) + 1 - filter'[main].pos
      /\ filter'[main].pc # "items" => Left' = Len(Fin(main)) - filter'[main].pos
  BY <1>1, <1>2, <1>3, <1>6, PacketsLeft DEF Matches
<1>8. Left' = Left /\ Left' \in Nat
  <2> DEFINE n == Len(Fin(main))
             p == filter[main].pos
  <2>1. n \in Nat /\ p \in 1 .. n /\ Left = n - p
    BY <1>3, <1>7
  <2>2. Left' = n - p \/ Left' = n + 1 - (p + 1)
    BY <1>4, <1>7
  <2> HIDE DEF n, p
  <2> QED  BY <2>1, <2>2
<1>9. Len(pushed') = Len(pushed) /\ Len(pushed') \in Nat /\ Len(pushed') + Left' <= Len(pushed) + Left
  BY <1>1, <1>8 DEF QueueTypeOK
<1>10. Place'
  BY <1>1, <1>2, <1>3, <1>4, <1>7 DEF Matches, Place, Reading
<1>11. ~ Fills(queue')
  BY <1>1, FoutFields, EmptyDoesNotFill DEF QueueTypeOK
<1>12. Calling(x)'
  BY <1>1, <1>2, <1>3, <1>6, <1>11 DEF Matches, Calling, historyVars
<1>13. \A l \in cache'[main] : JobOf(l.job, l.dev) = job[main]
  BY <1>1 DEF Matches, JobData
<1>14. Matches(x)'
  BY <1>1, <1>2, <1>4, <1>6, <1>8, <1>9, <1>10, <1>12, <1>13, WithinBuffer
<1> QED  BY <1>1, <1>5, <1>14 DEF Doing

\* A line becomes dirty under the job of the access, which is the job that runs.
LEMMA FilterCacheAccessKeeps ==
    ASSUME OneThread, TypeOK, QueueTypeOK, NEW x \in Label, Doing(x), FilterCacheAccess(main)
    PROVE  TypeOK' /\ Doing(x)'
<1> DEFINE j == filter[main].pkt.job
           mine == [job |-> j.id, dev |-> j.dev]
<1>1. /\ filter[main].pc = "access" /\ NextItem(main)
      /\ UNCHANGED <<queueVars, todo, buf, out, fHasWork, fDone, rscDev, jobVars,
                     rwVars, runVars, historyVars>>
      /\ \E victims \in {{}} \cup {{l} : l \in {m \in cache[main] : m.dev = j.dev}},
            dirtied \in SUBSET {mine} :
              cache' = [cache EXCEPT ![main] = (@ \ victims) \cup dirtied]
      /\ Matches(x) /\ main \in App
  BY MainThread DEF FilterCacheAccess, FilterAt, Doing
<1> HIDE DEF mine
<1>2. PICK victims, dirtied :
        dirtied \subseteq {mine} /\ cache' = [cache EXCEPT ![main] = (@ \ victims) \cup dirtied]
  BY <1>1
<1>3. filter[main].pc \in Reading /\ filter[main].pc # "items" /\ filter[main].pc \notin Full
  BY <1>1 DEF Reading, Full
<1>4. /\ x.own = "out" /\ x.mode \in {"running", "handOver"} /\ job[main] \in Jobs
      /\ filter[main].pos \in 1 .. Len(Fin(main))
  BY <1>1, <1>3, FilterHasPacket
<1>5. j = job[main]
  BY <1>1, <1>3, <1>4 DEF Matches, Place, JobData, AccessOf
<1>6. mine \in [job : 1 .. MaxCalls + 1, dev : Dev] /\ JobOf(mine.job, mine.dev) = job[main]
  BY <1>4, <1>5 DEF mine, Jobs, JobOf
<1>7. /\ cache' \in [App -> SUBSET [job : 1 .. MaxCalls + 1, dev : Dev]]
      /\ \A l \in cache'[main] : l \in cache[main] \/ l = mine
  <2> DEFINE c == (cache[main] \ victims) \cup dirtied
  <2>1. c \in SUBSET [job : 1 .. MaxCalls + 1, dev : Dev]
    BY <1>1, <1>2, <1>6, BuffersKept
  <2>2. cache' = [cache EXCEPT ![main] = c] /\ \A l \in c : l \in cache[main] \/ l = mine
    BY <1>2
  <2> HIDE DEF c
  <2> QED  BY <1>1, <2>1, <2>2, BuffersKept
<1>8. /\ filter' \in [App -> FilterStates] /\ filter'[main].in = filter[main].in
      /\ filter'[main].pc = "items" /\ filter'[main].pos = filter[main].pos + 1
  BY <1>1, GoesOn
<1>9. TypeOK'
  BY <1>1, <1>7, <1>8, TypeKept, BuffersKept
<1>10. filter'[main].pc \in Reading /\ filter'[main].pc \notin Full
  BY <1>8 DEF Reading, Full
<1>11. /\ Len(Fin(main)) \in Nat /\ Fin(main)' = Fin(main)
       /\ Left = Len(Fin(main)) - filter[main].pos
       /\ Left' = Len(Fin(main)) + 1 - filter'[main].pos
  BY <1>1, <1>3, <1>4, <1>8, <1>10, PacketsLeft DEF Matches
<1>12. Left' = Left /\ Left' \in Nat
  BY <1>4, <1>8, <1>11
<1>13. Len(pushed') = Len(pushed) /\ Len(pushed') \in Nat /\ Len(pushed') + Left' <= Len(pushed) + Left
  BY <1>1, <1>12 DEF QueueTypeOK, queueVars
<1>14. Place'
  BY <1>1, <1>3, <1>4, <1>8, <1>11 DEF Matches, Place, Reading
<1>15. Calling(x)'
  BY <1>1, <1>3, <1>10 DEF Matches, Calling, historyVars, queueVars, Fills
<1>16. \A l \in cache'[main] : JobOf(l.job, l.dev) = job[main]
  BY <1>1, <1>6, <1>7 DEF Matches, JobData
<1>17. Matches(x)'
  BY <1>1, <1>3, <1>8, <1>10, <1>12, <1>13, <1>14, <1>15, <1>16, WithinBuffer
<1> QED  BY <1>1, <1>9, <1>17 DEF Doing

LEMMA FilterFinishKeeps ==
    ASSUME OneThread, TypeOK, QueueTypeOK, NEW x \in Label, Doing(x), FilterFinish(main)
    PROVE  TypeOK' /\ Doing(x)'
<1> DEFINE b == filter[main].in
           none == <<>>
           f == [NoFilter EXCEPT !.pc = "signal"]
<1>1. /\ filter[main].pc = "items" /\ ~ MoreItems(main)
      /\ buf' = [buf EXCEPT ![main][b] = none]
      /\ filter' = [filter EXCEPT ![main] = f]
      /\ UNCHANGED <<queueVars, todo, out, fHasWork, fDone, cache, rscDev, jobVars,
                     runVars, historyVars>>
      /\ Matches(x) /\ main \in App
  BY MainThread DEF FilterFinish, FilterAt, Doing
<1>2. f \in FilterStates /\ f.pc = "signal" /\ none \in Seq(Pkts)
  BY DEF NoFilter, FilterStates, FilterPcs
<1>3. /\ Gpu(main) \in Seq(Pkts) /\ Fin(main) \in Seq(Pkts)
      /\ out[main] \in 0 .. 1 /\ b \in 0 .. 1 /\ b = 1 - out[main] /\ b # out[main]
      /\ Gpu(main) = buf[main][out[main]] /\ Fin(main) = buf[main][b]
  BY <1>1, Buffers DEF Matches, Place, Reading
<1> HIDE DEF b, none, f
<1>4. /\ buf' \in [App -> [0 .. 1 -> Seq(Pkts)]]
      /\ buf'[main][b] = none /\ buf'[main][out[main]] = buf[main][out[main]]
  BY <1>1, <1>2, <1>3, BuffersKept
<1>5. Gpu(main)' = Gpu(main) /\ Fin(main)' = <<>>
  BY <1>1, <1>3, <1>4 DEF Gpu, Fin, none
<1>6. filter' \in [App -> FilterStates] /\ filter'[main].pc = "signal"
  BY <1>1, <1>2, BuffersKept
<1>7. TypeOK'
  BY <1>1, <1>4, <1>6, TypeKept, BuffersKept
<1>8. Shares(x)'
  BY <1>1, <1>6 DEF Matches, Shares, Label, Labels, runVars
<1>9. Empties(x)'
  BY <1>1, <1>5 DEF Matches, Empties, queueVars
<1>10. Place'
  BY <1>5, <1>6 DEF Place, Reading
<1>11. JobData(x)'
  <2>1. AccessOf(job[main], Fin(main))'
    BY <1>5 DEF AccessOf
  <2> QED  BY <1>1, <1>5, <2>1 DEF Matches, JobData, AccessOf, jobVars
<1>12. Calling(x)' /\ Stopped(x)'
  BY <1>1, <1>6 DEF Matches, Calling, Stopped, queueVars, historyVars, runVars, Full, Fills
<1>13. Counts(x)'
  <2>1. /\ Len(pushed) \in Nat /\ Len(Gpu(main)) \in Nat /\ Left \in Nat
        /\ calls[main] \in 0 .. MaxCalls /\ MaxCalls \in Nat /\ x.spare \in Nat /\ x.creates \in Nat
        /\ nextJob \in Nat \ {0}
    BY <1>1, Numeric
  <2>2. Left' = 0
    BY <1>5, <1>6 DEF Left, Reading
  <2>3. /\ Len(pushed) + Left + Len(Gpu(main)) + x.spare <= 2 * calls[main] + 2
        /\ nextJob + x.creates <= calls[main] + 2
    BY <1>1 DEF Matches, Counts
  <2>4. Len(pushed) + 0 + Len(Gpu(main)) + x.spare <= 2 * calls[main] + 2
    <3>1. PICK m \in Nat : m = 2 * calls[main] + 2
      <4>1. \A c \in Nat : 2 * c + 2 \in Nat
        OBVIOUS
      <4> QED  BY <2>1, <4>1
    <3>2. Len(pushed) + Left + Len(Gpu(main)) + x.spare <= m
      BY <2>3, <3>1
    <3>3. Len(pushed) + 0 <= Len(pushed) + Left
      BY <2>1
    <3> QED  BY <2>1, <3>1, <3>2, <3>3, LessLeft
  <2> QED  BY <1>1, <1>5, <2>2, <2>3, <2>4 DEF Counts, queueVars, jobVars, runVars
<1> QED  BY <1>1, <1>7, <1>8, <1>9, <1>10, <1>11, <1>12, <1>13 DEF Doing, Matches

LEMMA FilterSignalKeeps ==
    ASSUME OneThread, TypeOK, QueueTypeOK, NEW x \in Label, Doing(x), FilterSignal(main)
    PROVE  TypeOK' /\ Doing(x)'
<1>1. /\ filter[main].pc = "signal" /\ FilterGoto(main, "pop")
      /\ fDone' = [fDone EXCEPT ![main] = TRUE]
      /\ UNCHANGED <<queueVars, todo, buf, out, fHasWork, cache, rscDev, jobVars,
                     runVars, historyVars>>
      /\ Matches(x)
  BY DEF FilterSignal, FilterAt, Doing
<1>2. filter' \in [App -> FilterStates] /\ filter'[main].pc = "pop"
  BY <1>1, Goes DEF FilterPcs
<1>3. fDone' \in [App -> BOOLEAN] /\ fDone'[main]
  BY <1>1, MainThread DEF TypeOK
<1>4. TypeOK'
  BY <1>1, <1>2, <1>3, TypeKept, BuffersKept
<1>5. Gpu(main)' = Gpu(main) /\ Fin(main)' = Fin(main) /\ Fin(main) = <<>>
  BY <1>1 DEF Gpu, Fin, Matches, Place
<1>6. Shares(x)'
  BY <1>1, <1>2, <1>3, <1>5 DEF Matches, Shares, Label, Labels, runVars
<1>7. Empties(x)' /\ JobData(x)'
  BY <1>1, <1>5 DEF Matches, Empties, JobData, AccessOf, queueVars, jobVars
<1>8. Place' /\ Left' = Left
  BY <1>1, <1>2, <1>5 DEF Place, Left, Reading
<1>9. Calling(x)' /\ Stopped(x)'
  BY <1>1, <1>2 DEF Matches, Calling, Stopped, queueVars, historyVars, runVars, Full, Fills
<1>10. Counts(x)'
  BY <1>1, <1>5, <1>8 DEF Matches, Counts, queueVars, jobVars, runVars
<1> QED  BY <1>1, <1>4, <1>6, <1>7, <1>8, <1>9, <1>10 DEF Doing, Matches

LEMMA FilterStepKeeps ==
    ASSUME OneThread, TypeOK, QueueTypeOK, NEW x \in Label, Doing(x), FilterStep(main)
    PROVE  TypeOK' /\ Doing(x)'
  BY FilterPopKeeps, FilterClearKeeps, FilterLockKeeps, FilterJobPacketKeeps, FilterAccessKeeps,
     FilterHandOverKeeps, FilterCacheAccessKeeps, FilterFinishKeeps, FilterSignalKeeps
  DEF FilterStep

(***************************************************************************)
(* The mode of the queue protocol, read off the label.                     *)
(***************************************************************************)
LEMMA NextIsHead ==
    ASSUME OneThread, NEW name, NEW arg
    PROVE  NextIs(name, arg) <=> todo[main] # <<>> /\ Head(todo[main]) = <<name, arg>>
  BY MainThread DEF NextIs

LEMMA RuleNames ==
    ASSUME NEW x \in Label, NEW y \in Label, NEW s, Rule(x, s, y)
    PROVE  /\ x.mode = "rotateBack" <=> s = <<"queueRotate", "back">>
           /\ x.mode = "drain" <=> s = <<"queueStart", "drain">>
           /\ x.mode = "waitFront" <=> s = <<"queueWait", "front">>
           /\ x.mode = "rotateFront" <=> s = <<"queueRotate", "front">>
<1>1. CASE x.mode = "running"
  BY <1>1 DEF Rule, FilterRule, JobRule, QueueRule, HandRule, PauseRule
<1>2. CASE x.mode = "handOver"
  BY <1>2 DEF Rule, HandRule, PauseRule
<1>3. CASE x.mode = "paused"
  BY <1>3 DEF Rule, HandRule, PauseRule, PausedRule
<1>4. CASE x.mode \in PauseModes
  BY <1>4 DEF Rule, HandRule, PauseRule, PauseModes
<1> QED  BY <1>1, <1>2, <1>3, <1>4 DEF Label, Labels

\* The mode of the protocol, as the properties read it off the steps to come.
LEMMA Shows ==
    ASSUME OneThread
    PROVE  \A x \in Label : TypeOK /\ Doing(x) => ProtocolMode = Shown(x)
<1> SUFFICES ASSUME NEW x \in Label, TypeOK, Doing(x) PROVE ProtocolMode = Shown(x)
  OBVIOUS
<1>1. /\ paused # {} <=> x.mode = "paused"
      /\ x.mode \in {"running", "handOver", "paused", "rotateBack", "drain", "waitFront", "rotateFront"}
  BY MainThread DEF Doing, Matches, Calling, Label, Labels, PauseModes
<1>2. /\ NextIs("queueRotate", "back") <=> x.mode = "rotateBack"
      /\ NextIs("queueStart", "drain") <=> x.mode = "drain"
      /\ NextIs("queueWait", "front") <=> x.mode = "waitFront"
      /\ NextIs("queueRotate", "front") <=> x.mode = "rotateFront"
  <2>1. CASE todo[main] = <<>>
    <3>1. x.mode = "running"
      BY <2>1, NothingLeft DEF Doing, Ready
    <3> QED  BY <2>1, <3>1, NextIsHead
  <2>2. CASE todo[main] # <<>>
    <3>1. todo[main] \in Seq(Step)
      BY MainThread DEF TypeOK
    <3>2. PICK y \in Label : Rule(x, Head(todo[main]), y)
      BY <2>2, <3>1, NextStep DEF Doing
    <3> DEFINE s == Head(todo[main])
    <3>3. \A name, arg : NextIs(name, arg) <=> s = <<name, arg>>
      BY <2>2, NextIsHead
    <3> HIDE DEF s
    <3> QED  BY <3>2, <3>3, RuleNames DEF s
  <2> QED  BY <2>1, <2>2
<1>3. CASE x.mode = "paused"
  BY <1>1, <1>2, <1>3 DEF ProtocolMode, Shown
<1>4. CASE x.mode = "rotateBack"
  BY <1>1, <1>2, <1>4 DEF ProtocolMode, Shown
<1>5. CASE x.mode = "drain"
  BY <1>1, <1>2, <1>5 DEF ProtocolMode, Shown
<1>6. CASE x.mode = "waitFront"
  BY <1>1, <1>2, <1>6 DEF ProtocolMode, Shown
<1>7. CASE x.mode = "rotateFront"
  BY <1>1, <1>2, <1>7 DEF ProtocolMode, Shown
<1>8. CASE x.mode \in {"running", "handOver"}
  BY <1>1, <1>2, <1>8 DEF ProtocolMode, Shown
<1> QED BY <1>1, <1>3, <1>4, <1>5, <1>6, <1>7, <1>8

(***************************************************************************)
(* The calls of the queue, as QueueProtocol has them.                      *)
(***************************************************************************)
Q == INSTANCE QueueProofs WITH
    mode <- ProtocolMode,
    FirstFrame <- Marker("NEW_FRAME"),
    FirstScene <- Marker("NEW_SCENE"),
    MaxPushed <- StreamBound

LEMMA QueueAssumptions == Q!QueueAssumption /\ Q!ProtocolAssumption
<1>1. StreamBound \in Nat
  BY GeneratorAssumption DEF StreamBound
<1>2. Marker("NEW_FRAME") \in Packet /\ Marker("NEW_SCENE") \in Packet
  BY PacketAssumption DEF MarkerCommands
<1> QED  BY <1>1, <1>2, QueueAssumption, GeneratorAssumption DEF Q!QueueAssumption, Q!ProtocolAssumption

\* The packets the generator pushes.
LEMMA PacketsPushed ==
    ASSUME OneThread
    PROVE  /\ \A cmd \in Markers \cup {"MV_TO_CPU", "MV_TO_GPU"} : Marker(cmd) \in Packet
           /\ \A p \in Pkts : p.cmd # "ACCESS" => p \in Packet
<1>1. \A cmd \in Markers \cup {"MV_TO_CPU", "MV_TO_GPU"} : Marker(cmd) \in Packet
  BY PacketAssumption DEF Markers, MarkerCommands
<1>2. ASSUME NEW p \in Pkts, p.cmd # "ACCESS" PROVE p \in Packet
  <2>1. MaxJobs = MaxCalls + 1
    <3>1. Cardinality(App) = 1
      BY FS_Singleton DEF OneThread
    <3> QED  BY <3>1, GeneratorAssumption DEF MaxJobs
  <2>2. p.cmd \in {"NEW_JOB", "END_JOB"} /\ p.job \in Jobs
    BY <1>2 DEF Pkts
  <2>3. p.job.id \in 1 .. MaxJobs /\ p.job.dev \in Dev /\ p.job = JobOf(p.job.id, p.job.dev)
    BY <2>1, <2>2 DEF Jobs, JobOf
  <2>4. Pkt(p.cmd, p.job) \in Packet
    BY <2>2, <2>3, PacketAssumption
  <2>5. p = Pkt(p.cmd, p.job)
    BY DEF Pkts, Pkt
  <2> QED  BY <2>4, <2>5
<1> QED  BY <1>1, <1>2

\* The stream has room for a packet that is still to come.
LEMMA RoomLeft ==
    ASSUME OneThread, TypeOK, QueueTypeOK, NEW x \in Label, Matches(x),
           x.spare > 0 \/ Left > 0
    PROVE  Len(pushed) < StreamBound
<1>1. /\ Len(pushed) \in Nat /\ Len(Gpu(main)) \in Nat /\ Left \in Nat
      /\ calls[main] \in 0 .. MaxCalls /\ MaxCalls \in Nat /\ x.spare \in Nat
  BY Numeric
<1>2. Len(pushed) + Left + Len(Gpu(main)) + x.spare <= 2 * calls[main] + 2
  BY DEF Matches, Counts
<1>3. Len(pushed) < 2 * calls[main] + 2
  BY <1>1, <1>2
<1> QED  BY <1>1, <1>3 DEF StreamBound

\* The calls of the queue, as the protocol has them.
LEMMA PushAllowed ==
    ASSUME NEW t \in Thread, NEW pkt \in Packet, Push(t, pkt),
           Len(pushed) < StreamBound, UNCHANGED ProtocolMode,
           \/ ProtocolMode = "running"
           \/ ProtocolMode = "paused" /\ queue.fout = <<>>
    PROVE  Q!Next
<1>1. Q!MayPush
  BY DEF Q!MayPush
<1>2. Q!Push(t, pkt)
  BY DEF Q!Push, Push, Q!Stored, Stored, Q!Fills, Fills
<1>3. CASE ProtocolMode = "running"
  <2>1. Q!PushRunning
    BY <1>1, <1>2, <1>3 DEF Q!PushRunning
  <2> QED  BY <2>1 DEF Q!Next
<1>4. CASE ProtocolMode = "paused" /\ queue.fout = <<>>
  <2>1. Len(queue.fout) + 1 < BufferSize
    <3>1. Len(queue.fout) = 0
      BY <1>4
    <3> QED  BY <3>1, QueueAssumption
  <2>2. Q!PushPaused
    BY <1>1, <1>2, <1>4, <2>1 DEF Q!PushPaused
  <2> QED  BY <2>2 DEF Q!Next
<1> QED  BY <1>3, <1>4

LEMMA HandOverAllowed ==
    ASSUME NEW t \in Thread, HandOver(t), Fills(queue), ProtocolMode = "running",
           UNCHANGED ProtocolMode
    PROVE  Q!Next
<1>1. Q!HandOver(t)
  BY DEF Q!HandOver, HandOver, Q!AllDone, AllDone, Q!Cleared, Cleared, Q!AllHaveWork, AllHaveWork,
     Q!WorkPosted, WorkPosted, Q!WorkItems, WorkItems, Q!Analyzer, Analyzer, Q!Rotated, Rotated
<1>2. Q!HandOverFull
  BY <1>1 DEF Q!HandOverFull, Q!Fills, Fills
<1> QED  BY <1>2 DEF Q!Next

LEMMA WaitAllowed ==
    ASSUME NEW t \in Thread, ProtocolMode \in {"running", "waitFront"},
           ProtocolMode = "running" => ~ Fills(queue),
           \/ WaitBegin(t) /\ UNCHANGED ProtocolMode
           \/ WaitEnd(t) /\ ProtocolMode' = WaitedFor(ProtocolMode)
    PROVE  Q!Next
<1>1. \/ Q!WaitBegin(t) /\ UNCHANGED ProtocolMode
      \/ Q!WaitEnd(t) /\ ProtocolMode' = WaitedFor(ProtocolMode)
  BY DEF Q!WaitBegin, WaitBegin, Q!WaitEnd, WaitEnd, Q!AllDone, AllDone, Q!Cleared, Cleared
<1>2. CASE ProtocolMode = "running"
  <2>1. Q!WaitBack
    BY <1>1, <1>2 DEF Q!WaitBack, Q!Fills, Fills, WaitedFor
  <2> QED  BY <2>1 DEF Q!Next
<1>3. CASE ProtocolMode = "waitFront"
  <2>1. Q!WaitFront
    BY <1>1, <1>3 DEF Q!WaitFront, WaitedFor
  <2> QED  BY <2>1 DEF Q!Next
<1> QED  BY <1>2, <1>3

LEMMA RotateAllowed ==
    ASSUME ProtocolMode \in {"rotateBack", "rotateFront"}, Rotate,
           ProtocolMode' = RotatedTo(ProtocolMode)
    PROVE  Q!Next
<1>1. Q!Rotate
  BY DEF Q!Rotate, Rotate, Q!Rotated, Rotated
<1>2. Q!RotateBack \/ Q!RotateFront
  BY <1>1 DEF Q!RotateBack, Q!RotateFront, RotatedTo
<1> QED  BY <1>2 DEF Q!Next

LEMMA StartAllowed ==
    ASSUME ProtocolMode \in {"drain", "paused"}, Start,
           ProtocolMode' = StartedTo(ProtocolMode)
    PROVE  Q!Next
<1>1. Q!Start
  BY DEF Q!Start, Start, Q!AllHaveWork, AllHaveWork, Q!WorkPosted, WorkPosted,
     Q!WorkItems, WorkItems, Q!Analyzer, Analyzer
<1>2. Q!StartDrain \/ Q!Resume
  BY <1>1 DEF Q!StartDrain, Q!Resume, StartedTo
<1> QED  BY <1>2 DEF Q!Next

LEMMA BypassAllowed ==
    ASSUME NEW pkt \in Packet \ Refused, ProcessAll(pkt), ProtocolMode = "paused", UNCHANGED ProtocolMode,
           Len(pushed) < StreamBound, queue.fout = <<>>
    PROVE  Q!Next
<1>1. Q!MayPush /\ Q!ProcessAll(pkt)
  BY DEF Q!MayPush, Q!ProcessAll, ProcessAll, Q!Analyzer, Analyzer
<1>2. Q!BypassPaused
  BY <1>1 DEF Q!BypassPaused
<1> QED  BY <1>2 DEF Q!Next

LEMMA WorkerAllowed ==
    ASSUME NEW w \in Worker, WorkerStep(w), UNCHANGED ProtocolMode
    PROVE  Q!Next
<1>1. Q!WorkerStep(w)
  <2>1. ASSUME Wake(w) PROVE Q!Wake(w)
    BY <2>1 DEF Q!Wake, Wake
  <2>2. ASSUME PopEmpty(w) PROVE Q!PopEmpty(w)
    BY <2>2 DEF Q!PopEmpty, PopEmpty, Q!NoMoreJobs, NoMoreJobs
  <2>3. ASSUME Pop(w) PROVE Q!Pop(w)
    BY <2>3 DEF Q!Pop, Pop
  <2>4. ASSUME Process(w) PROVE Q!Process(w)
    BY <2>4 DEF Q!Process, Process, Q!HasPacket, HasPacket, Q!NextPacket, NextPacket
  <2>5. ASSUME SignalProducer(w) PROVE Q!SignalProducer(w)
    BY <2>5 DEF Q!SignalProducer, SignalProducer, Q!NoMoreJobs, NoMoreJobs
  <2> QED  BY <2>1, <2>2, <2>3, <2>4, <2>5 DEF Q!WorkerStep, WorkerStep
<1> QED  BY <1>1 DEF Q!Next

LEMMA QueueUnchanged ==
    ASSUME UNCHANGED <<queueVars, ProtocolMode>>
    PROVE  UNCHANGED Q!protocolVars
  BY DEF Q!protocolVars, Q!queueVars, queueVars

(***************************************************************************)
(* Every step keeps a label and is a step of the protocol.                 *)
(***************************************************************************)
Follows == Q!Next \/ UNCHANGED Q!protocolVars

LEMMA ShowsNext ==
    ASSUME OneThread
    PROVE  (\A x \in Label : TypeOK /\ Doing(x) => ProtocolMode = Shown(x))'
  BY Shows, PTL

\* Steps between labels of one mode leave the mode of the protocol.
LEMMA SameMode ==
    ASSUME OneThread, TypeOK, TypeOK', NEW x \in Label, NEW y \in Label, Doing(x), Doing(y)',
           Shown(y) = Shown(x)
    PROVE  UNCHANGED ProtocolMode
<1>1. ProtocolMode = Shown(x)
  BY Shows
<1>2. ProtocolMode' = Shown(y)
  BY ShowsNext
<1> QED  BY <1>1, <1>2

\* A step that leaves the queue alone.
LEMMA Aside ==
    ASSUME OneThread, TypeOK, TypeOK', NEW x \in Label, Doing(x),
           \E y \in Label : Doing(y)' /\ y.mode = x.mode, UNCHANGED queueVars
    PROVE  Follows
<1>1. PICK y \in Label : Doing(y)' /\ y.mode = x.mode
  OBVIOUS
<1>2. Shown(y) = Shown(x)
  BY <1>1 DEF Shown
<1>3. UNCHANGED ProtocolMode
  BY <1>1, <1>2, SameMode
<1> QED  BY <1>3, QueueUnchanged DEF Follows

\* A step of the generator ends in a label and is a step of the protocol or none.
Advances == TypeOK' /\ (\E y \in Label : Doing(y)') /\ Follows

LEMMA JobStepFollows ==
    ASSUME OneThread, TypeOK, QueueTypeOK, NEW x \in Label, Doing(x),
           JobStep(main) \/ FilterQueueStep(main) \/ Call(main)
    PROVE  Advances
<1>1. TypeOK' /\ \E y \in Label : Doing(y)' /\ y.mode = x.mode
  BY JobStepKeeps, FilterQueueStepKeeps, CallKeeps
<1>2. UNCHANGED queueVars
  <2>1. CASE JobStep(main)
    BY <2>1 DEF JobStep, ThreadStart, CreateJob, BeginJob, RecordJob, AppendAccess,
       AppendEndJob, CloseJob
  <2>2. CASE FilterQueueStep(main)
    BY <2>2 DEF FilterQueueStep, Await, Clear, RotateFilter, FeedOne, FeedAll, Feed,
       FlushFilterCache, DrainNext
  <2>3. CASE Call(main)
    BY <2>3 DEF Call
  <2> QED  BY <2>1, <2>2, <2>3
<1>3. Follows
  BY <1>1, <1>2, Aside
<1> QED  BY <1>1, <1>3 DEF Advances

LEMMA StayFollows ==
    ASSUME OneThread, TypeOK, QueueTypeOK, NEW x \in Label, Doing(x),
           \/ RwLock(main) \/ RwUnlock(main) \/ StopOrGo(main) \/ Exit(main)
           \/ AppFinish(main) \/ \E w \in Worker : AnalysisAbort(w)
    PROVE  Advances
<1>1. TypeOK' /\ Doing(x)'
  BY RwKeeps, StopOrGoKeeps, ExitKeeps, EndKeeps
<1>2. UNCHANGED queueVars
  BY DEF RwLock, RwUnlock, StopOrGo, Exit, AppFinish, AnalysisAbort
<1>3. Follows
  BY <1>1, <1>2, Aside
<1> QED  BY <1>1, <1>3 DEF Advances

LEMMA PushMarkerFollows ==
    ASSUME OneThread, TypeOK, QueueTypeOK, NEW x \in Label, Doing(x), PushMarker(main)
    PROVE  Advances
<1>1. TypeOK' /\ \E y \in Label : Doing(y)' /\ Shown(y) = Shown(x)
  BY PushMarkerKeeps
<1>2. PICK y \in Label :
        /\ Rule(x, Head(todo[main]), y) /\ Leads(y, Tail(todo[main]))
        /\ Head(todo[main])[1] = "push"
  BY StepTaken DEF PushMarker, Doing
<1>3. /\ x.spare > 0 /\ Arg(main) \in Markers
      /\ \/ x.mode = "running"
         \/ x.mode = "paused" /\ "fout" \in x.empty
  BY <1>2 DEF Rule, FilterRule, JobRule, QueueRule, HandRule, PauseRule, PausedRule, Arg, Markers
<1>4. UNCHANGED ProtocolMode /\ ProtocolMode = Shown(x)
  BY <1>1, SameMode, Shows
<1>5. Matches(x) /\ Push(main, Marker(Arg(main))) /\ main \in Thread
  BY MainThread, GeneratorAssumption DEF Doing, PushMarker
<1>6. Marker(Arg(main)) \in Packet
  BY <1>3, PacketsPushed
<1>7. Len(pushed) < StreamBound
  BY <1>3, <1>5, RoomLeft
<1>8. \/ ProtocolMode = "running"
      \/ ProtocolMode = "paused" /\ queue.fout = <<>>
  BY <1>3, <1>4, <1>5 DEF Shown, Matches, Empties
<1>9. Q!Next
  BY <1>4, <1>5, <1>6, <1>7, <1>8, PushAllowed
<1> QED  BY <1>1, <1>9 DEF Advances, Follows

LEMMA HandOverFullFollows ==
    ASSUME OneThread, TypeOK, QueueTypeOK, NEW x \in Label, Doing(x), HandOverFull(main)
    PROVE  Advances
<1>1. TypeOK' /\ \E y \in Label : Doing(y)' /\ Shown(y) = Shown(x)
  BY HandOverFullKeeps
<1>2. PICK y \in Label :
        /\ Rule(x, Head(todo[main]), y) /\ Leads(y, Tail(todo[main]))
        /\ Head(todo[main])[1] = "handOver"
  BY StepTaken DEF HandOverFull, Doing
<1>3. x.mode = "handOver"
  BY <1>2 DEF Rule, FilterRule, JobRule, QueueRule, HandRule, PauseRule, PausedRule
<1>4. UNCHANGED ProtocolMode /\ ProtocolMode = "running"
  BY <1>1, <1>3, SameMode, Shows DEF Shown
<1>5. Fills(queue) /\ HandOver(main) /\ main \in Thread
  BY <1>3, MainThread, GeneratorAssumption DEF Doing, Matches, Calling, HandOverFull
<1>6. Q!Next
  BY <1>4, <1>5, HandOverAllowed
<1> QED  BY <1>1, <1>6 DEF Advances, Follows

LEMMA QueueWaitFollows ==
    ASSUME OneThread, TypeOK, QueueTypeOK, NEW x \in Label, Doing(x), QueueWait(main)
    PROVE  Advances
<1>1. /\ TypeOK'
      /\ x.mode \in {"running", "waitFront"} /\ x.own = "held"
      /\ \/ WaitBegin(main) /\ Doing(x)'
         \/ /\ WaitEnd(main)
            /\ \E y \in Label : Doing(y)' /\ y.mode = WaitedFor(x.mode)
  BY QueueWaitKeeps
<1>2. ProtocolMode = x.mode
  BY <1>1, Shows DEF Shown
<1>3. \/ WaitBegin(main) /\ UNCHANGED ProtocolMode
      \/ WaitEnd(main) /\ ProtocolMode' = WaitedFor(ProtocolMode)
  <2>1. CASE WaitBegin(main) /\ Doing(x)'
    BY <1>1, <2>1, SameMode
  <2>2. CASE WaitEnd(main) /\ \E y \in Label : Doing(y)' /\ y.mode = WaitedFor(x.mode)
    <3>1. PICK y \in Label : Doing(y)' /\ y.mode = WaitedFor(x.mode)
      BY <2>2
    <3>2. ProtocolMode' = Shown(y)
      BY <1>1, <3>1, ShowsNext
    <3> QED  BY <1>2, <2>2, <3>1, <3>2 DEF Shown, WaitedFor
  <2> QED  BY <1>1, <2>1, <2>2
<1>4. ProtocolMode = "running" => ~ Fills(queue)
  BY <1>1, <1>2 DEF Doing, Matches, Calling, Shares, Full
<1>5. main \in Thread
  BY MainThread, GeneratorAssumption
<1>6. Q!Next
  BY <1>1, <1>2, <1>3, <1>4, <1>5, WaitAllowed
<1>7. \E y \in Label : Doing(y)'
  BY <1>1
<1> QED  BY <1>1, <1>6, <1>7 DEF Advances, Follows

LEMMA QueueRotateFollows ==
    ASSUME OneThread, TypeOK, QueueTypeOK, NEW x \in Label, Doing(x), QueueRotate(main)
    PROVE  Advances
<1>1. TypeOK' /\ x.mode \in {"rotateBack", "rotateFront"}
  BY QueueRotateKeeps
<1>2. PICK y \in Label : Doing(y)' /\ y.mode = RotatedTo(x.mode)
  BY QueueRotateKeeps
<1>3. ProtocolMode = Shown(x) /\ ProtocolMode' = Shown(y)
  BY <1>1, <1>2, Shows, ShowsNext
<1>4. ProtocolMode = x.mode /\ ProtocolMode' = RotatedTo(ProtocolMode)
  BY <1>1, <1>2, <1>3 DEF Shown, RotatedTo
<1>5. Q!Next
  BY <1>1, <1>4, RotateAllowed DEF QueueRotate
<1> QED  BY <1>1, <1>2, <1>5 DEF Advances, Follows

LEMMA QueueStartFollows ==
    ASSUME OneThread, TypeOK, QueueTypeOK, NEW x \in Label, Doing(x), QueueStart(main)
    PROVE  Advances
<1>1. TypeOK' /\ x.mode \in {"drain", "paused"}
  BY QueueStartKeeps
<1>2. PICK y \in Label : Doing(y)' /\ y.mode = StartedTo(x.mode)
  BY QueueStartKeeps
<1>3. ProtocolMode = Shown(x) /\ ProtocolMode' = Shown(y)
  BY <1>1, <1>2, Shows, ShowsNext
<1>4. ProtocolMode = x.mode /\ ProtocolMode' = StartedTo(ProtocolMode)
  BY <1>1, <1>2, <1>3 DEF Shown, StartedTo
<1>5. Q!Next
  BY <1>1, <1>4, StartAllowed DEF QueueStart
<1> QED  BY <1>1, <1>2, <1>5 DEF Advances, Follows

LEMMA ProcessMarkerFollows ==
    ASSUME OneThread, TypeOK, QueueTypeOK, NEW x \in Label, Doing(x), ProcessMarker(main)
    PROVE  Advances
<1>1. TypeOK' /\ \E y \in Label : Doing(y)' /\ y.mode = x.mode
  BY ProcessMarkerKeeps
<1>2. PICK y \in Label :
        /\ Rule(x, Head(todo[main]), y) /\ Leads(y, Tail(todo[main]))
        /\ Head(todo[main])[1] = "process"
  BY StepTaken DEF ProcessMarker, Doing
<1>3. x.spare > 0 /\ Arg(main) \in Markers \ {"OPENGL_CALL"} /\ x.mode = "paused" /\ "fout" \in x.empty
  BY <1>2 DEF Rule, FilterRule, JobRule, QueueRule, HandRule, PauseRule, PausedRule, Arg
<1>4. UNCHANGED ProtocolMode /\ ProtocolMode = "paused"
  <2>1. PICK z \in Label : Doing(z)' /\ z.mode = x.mode
    BY <1>1
  <2>2. Shown(z) = Shown(x) /\ Shown(x) = "paused"
    BY <1>3, <2>1 DEF Shown
  <2> QED  BY <1>1, <2>1, <2>2, SameMode, Shows
<1>5. Matches(x) /\ ProcessAll(Marker(Arg(main)))
  BY DEF Doing, ProcessMarker
<1>6. Marker(Arg(main)) \in Packet \ Refused
  <2>1. Marker(Arg(main)) # Marker("OPENGL_CALL")
    BY <1>3 DEF Marker, Pkt
  <2> QED  BY <1>3, <2>1, PacketsPushed, AnalyzerAssumption
<1>7. Len(pushed) < StreamBound
  BY <1>3, <1>5, RoomLeft
<1>8. queue.fout = <<>>
  BY <1>3, <1>5 DEF Matches, Empties
<1>9. Q!Next
  BY <1>4, <1>5, <1>6, <1>7, <1>8, BypassAllowed
<1> QED  BY <1>1, <1>9 DEF Advances, Follows

LEMMA FilterFollows ==
    ASSUME OneThread, TypeOK, QueueTypeOK, NEW x \in Label, Doing(x), FilterStep(main)
    PROVE  Advances
<1>1. TypeOK' /\ Doing(x)' /\ Matches(x)
  BY FilterStepKeeps DEF Doing
<1>2. UNCHANGED ProtocolMode /\ ProtocolMode = Shown(x)
  BY <1>1, SameMode, Shows
<1>3. Filter(main) \in Thread
  BY MainThread, GeneratorAssumption
<1>4. ASSUME NEW pkt \in Packet, Push(Filter(main), pkt), filter[main].pc = "items", MoreItems(main)
      PROVE  Q!Next
  <2>1. filter[main].pc \in Reading /\ (filter[main].pc = "items" => MoreItems(main))
    BY <1>4 DEF Reading
  <2>2. x.mode \in {"running", "handOver"} /\ filter[main].pos \in 1 .. Len(Fin(main))
    BY <1>1, <2>1, FilterHasPacket
  <2>3. Left > 0
    <3>1. Left = Len(Fin(main)) + 1 - filter[main].pos /\ Len(Fin(main)) \in Nat
      BY <1>4, Buffers DEF Left
    <3> QED  BY <2>2, <3>1
  <2>4. Len(pushed) < StreamBound
    BY <1>1, <2>3, RoomLeft
  <2>5. ProtocolMode = "running"
    BY <1>2, <2>2 DEF Shown
  <2> QED  BY <1>2, <1>3, <1>4, <2>4, <2>5, PushAllowed
<1>5. CASE FilterJobPacket(main)
  <2>1. /\ filter[main].pc = "items" /\ MoreItems(main) /\ FilterPkt(main).cmd # "ACCESS"
        /\ Push(Filter(main), FilterPkt(main))
    BY <1>5 DEF FilterJobPacket, FilterAt
  <2>2. FilterPkt(main) \in Pkts
    BY <1>1, <2>1, FilterHasPacket DEF Reading
  <2>3. FilterPkt(main) \in Packet
    BY <2>1, <2>2, PacketsPushed
  <2>4. Q!Next
    BY <1>4, <2>1, <2>3
  <2> QED  BY <1>1, <2>4 DEF Advances, Follows
<1>6. CASE FilterAccess(main)
  <2>1. filter[main].pc = "items" /\ MoreItems(main)
    BY <1>6 DEF FilterAccess, FilterAt
  <2>2. \/ UNCHANGED queueVars
        \/ \E cmd \in {"MV_TO_CPU", "MV_TO_GPU"} : Push(Filter(main), Marker(cmd))
    BY <1>6 DEF FilterAccess
  <2>3. CASE UNCHANGED queueVars
    BY <1>1, <1>2, <2>3, QueueUnchanged DEF Advances, Follows
  <2>4. CASE \E cmd \in {"MV_TO_CPU", "MV_TO_GPU"} : Push(Filter(main), Marker(cmd))
    <3>1. PICK cmd \in {"MV_TO_CPU", "MV_TO_GPU"} : Push(Filter(main), Marker(cmd))
      BY <2>4
    <3>2. Marker(cmd) \in Packet
      BY PacketsPushed
    <3>3. Q!Next
      BY <1>4, <2>1, <3>1, <3>2
    <3> QED  BY <1>1, <3>3 DEF Advances, Follows
  <2> QED  BY <2>2, <2>3, <2>4
<1>7. CASE FilterHandOver(main)
  <2>1. HandOver(Filter(main)) /\ filter[main].pc \in Full
    BY <1>7 DEF FilterHandOver, FilterAt, Full
  <2>2. Fills(queue) /\ ProtocolMode = "running"
    <3>1. filter[main].pc \in Reading /\ filter[main].pc # "items"
      BY <2>1 DEF Full, Reading
    <3>2. x.mode \in {"running", "handOver"}
      BY <1>1, <3>1, FilterHasPacket
    <3> QED  BY <1>1, <1>2, <2>1, <3>2 DEF Matches, Calling, Shown
  <2>3. Q!Next
    BY <1>2, <1>3, <2>1, <2>2, HandOverAllowed
  <2> QED  BY <1>1, <2>3 DEF Advances, Follows
<1>8. CASE \/ FilterPop(main) \/ FilterClear(main) \/ FilterLock(main)
           \/ FilterCacheAccess(main) \/ FilterFinish(main) \/ FilterSignal(main)
  <2>1. UNCHANGED queueVars
    BY <1>8 DEF FilterPop, FilterClear, FilterLock, FilterCacheAccess, FilterFinish, FilterSignal
  <2> QED  BY <1>1, <1>2, <2>1, QueueUnchanged DEF Advances, Follows
<1> QED  BY <1>5, <1>6, <1>7, <1>8 DEF FilterStep

\* The work threads change nothing of the filter stage and no buffer it fills.
LEMMA AnalysisFollows ==
    ASSUME OneThread, TypeOK, QueueTypeOK, NEW x \in Label, Doing(x),
           NEW w \in Worker, AnalysisStep(w)
    PROVE  Advances
<1>1. /\ UNCHANGED <<todo, stageVars, jobVars, rwVars, runVars, historyVars>>
      /\ WorkerStep(w) /\ Matches(x)
  BY DEF AnalysisStep, Doing
<1>2. queue'.fout = queue.fout /\ UNCHANGED <<producerMtx, pushed>>
  <2>1. [queue EXCEPT !.jobs = Tail(@)].fout = queue.fout
    BY DEF QueueTypeOK, Queues
  <2> QED  BY <1>1, <2>1 DEF WorkerStep, Wake, PopEmpty, Pop, Process, SignalProducer
<1>3. TypeOK'
  BY <1>1 DEF TypeOK, stageVars, jobVars, runVars
<1>4. Matches(x)'
  BY <1>1, <1>2, SameState DEF runVars
<1>5. Doing(x)'
  BY <1>1, <1>4 DEF Doing
<1>6. UNCHANGED ProtocolMode
  BY <1>3, <1>5, SameMode
<1>7. Q!Next
  BY <1>1, <1>6, WorkerAllowed
<1> QED  BY <1>3, <1>5, <1>7 DEF Advances, Follows

LEMMA StutterFollows ==
    ASSUME OneThread, TypeOK, QueueTypeOK, NEW x \in Label, Doing(x), UNCHANGED vars
    PROVE  Advances
<1>1. /\ UNCHANGED <<queueVars, todo, stageVars, jobVars, rwVars, runVars, historyVars>> /\ Matches(x)
  BY DEF vars, Doing
<1>2. TypeOK'
  BY <1>1 DEF TypeOK, stageVars, jobVars, runVars
<1>3. Matches(x)'
  BY <1>1, SameState DEF queueVars, runVars
<1>4. Doing(x)'
  BY <1>1, <1>3 DEF Doing
<1>5. Follows
  BY <1>1, <1>2, <1>4, Aside
<1> QED  BY <1>2, <1>4, <1>5 DEF Advances

LEMMA NextFollows ==
    ASSUME OneThread, GInv, [Next]_vars
    PROVE  Advances
<1>1. TypeOK /\ QueueTypeOK
  BY DEF GInv
<1>2. PICK x \in Label : Doing(x)
  BY DEF GInv
<1>3. CASE UNCHANGED vars
  BY <1>1, <1>2, <1>3, StutterFollows
<1>4. CASE Exited
  BY <1>1, <1>2, <1>4, StutterFollows DEF Exited
<1>5. CASE \E w \in Worker : AnalysisStep(w) \/ AnalysisAbort(w)
  BY <1>1, <1>2, <1>5, AnalysisFollows, StayFollows
<1>6. CASE \E t \in App : Call(t) \/ AppStep(t) \/ AppFinish(t) \/ FilterStep(t)
  <2>1. Call(main) \/ AppStep(main) \/ AppFinish(main) \/ FilterStep(main)
    BY <1>6, MainThread
  <2>2. CASE Call(main) \/ JobStep(main) \/ FilterQueueStep(main)
    BY <1>1, <1>2, <2>2, JobStepFollows
  <2>3. CASE AppFinish(main)
    BY <1>1, <1>2, <2>3, StayFollows
  <2>4. CASE FilterStep(main)
    BY <1>1, <1>2, <2>4, FilterFollows
  <2>5. CASE QueueStep(main)
    BY <1>1, <1>2, <2>5, PushMarkerFollows, HandOverFullFollows, QueueWaitFollows,
       QueueRotateFollows, QueueStartFollows, StayFollows, ProcessMarkerFollows DEF QueueStep
  <2> QED  BY <2>1, <2>2, <2>3, <2>4, <2>5 DEF AppStep
<1> QED  BY <1>3, <1>4, <1>5, <1>6 DEF Next

(***************************************************************************)
(* The inductive invariant.                                                *)
(***************************************************************************)
IInv == GInv /\ Q!IInv

LEMMA InitIsQueueInit ==
    Init => /\ Q!Init /\ queue.fout = <<Marker("NEW_SCENE")>>
            /\ pushed = <<Marker("NEW_SCENE")>> /\ Len(pushed) = 1
<1> SUFFICES ASSUME Init
             PROVE  /\ Q!Init /\ queue.fout = <<Marker("NEW_SCENE")>>
                    /\ pushed = <<Marker("NEW_SCENE")>> /\ Len(pushed) = 1
  OBVIOUS
<1>1. ProtocolMode = "running"
  <2>1. paused = {}
    BY DEF Init
  <2>2. ASSUME NEW name, NEW arg, NextIs(name, arg) PROVE name = "threadStart"
    BY <2>2 DEF Init, NextIs
  <2>3. /\ ~ NextIs("queueRotate", "back") /\ ~ NextIs("queueStart", "drain")
        /\ ~ NextIs("queueWait", "front") /\ ~ NextIs("queueRotate", "front")
    BY <2>2
  <2> QED  BY <2>1, <2>3 DEF ProtocolMode
<1>2. Constructed(Marker("NEW_FRAME"), Marker("NEW_SCENE"))
        = Q!Constructed(Marker("NEW_FRAME"), Marker("NEW_SCENE"))
  BY DEF Constructed, Q!Constructed, AfterSync, Q!AfterSync, WorkPosted, Q!WorkPosted,
     WorkItems, Q!WorkItems, Stored, Q!Stored, Rotated, Q!Rotated, Analyzer, Q!Analyzer
<1>3. QueueInit(Marker("NEW_FRAME"), Marker("NEW_SCENE"))
  BY DEF Init
<1>4. Q!QueueInit(Marker("NEW_FRAME"), Marker("NEW_SCENE"))
  BY <1>2, <1>3 DEF QueueInit, Q!QueueInit, Analyzer, Q!Analyzer
<1>5. Q!Init
  BY <1>1, <1>4 DEF Q!Init
<1>6. Q!Constructed(Marker("NEW_FRAME"), Marker("NEW_SCENE")).fout = <<Marker("NEW_SCENE")>>
  BY Q!ConstructedQueue, QueueAssumptions
<1>7. queue.fout = <<Marker("NEW_SCENE")>> /\ pushed = <<Marker("NEW_SCENE")>>
  BY <1>2, <1>3, <1>6 DEF QueueInit
<1> QED  BY <1>5, <1>7

LEMMA QueueTyped == Q!IInv => QueueTypeOK
  BY DEF Q!IInv, Q!TypeOK, Q!QueueTypeOK, QueueTypeOK, Q!Queues, Queues, Q!WorkerStates, WorkerStates,
     Q!Analyzer, Analyzer

\* The label of a thread that is about to start.
Begin ==
    [own |-> "none", empty |-> Drained, job |-> "none", mode |-> "running",
     spare |-> 1, creates |-> 1]

LEMMA BeginLeads ==
    ASSUME OneThread
    PROVE  Begin \in Label /\ Leads(Begin, << <<"threadStart", main>> >>)
<1> DEFINE none == {}
           s == <<"threadStart", main>>
           x == Begin
           c == Hold(x, "out", x.empty)
           d == Spend(c, "open", none)
           y == Create(d)
<1>1. /\ x \in Label /\ x \in Labels /\ x.own = "none" /\ x.empty = Drained /\ x.job = "none"
      /\ x.mode = "running" /\ x.spare = 1 /\ x.creates = 1
  BY DEF Begin, Label, Labels, Drained, Known, PauseModes
<1> HIDE DEF x
<1>2. none \in SUBSET Known /\ Drained \in SUBSET Known
  BY DEF Drained, Known
<1> HIDE DEF none
<1>3. /\ c \in Labels /\ c.own = "out" /\ c.empty = Drained /\ c.job = "none"
      /\ c.mode = "running" /\ c.spare = 1 /\ c.creates = 1
  BY <1>1, <1>2, HoldFields
<1>4. c \in Label
  BY <1>3 DEF Label, PauseModes, Drained
<1> HIDE DEF c
<1>5. /\ d \in Label /\ d.own = "out" /\ d.job = "open" /\ d.mode = "running" /\ d.creates = 1
  BY <1>3, <1>4, JobLabels DEF none
<1> HIDE DEF d
<1>6. y \in Label /\ y.own = "out" /\ y.job = "open" /\ y.mode = "running"
  BY <1>5, JobLabels
<1>7. Rule(x, s, y)
  BY <1>1 DEF Rule, JobRule, c, d, none
<1>8. s \in Step
  BY DEF Step
<1> HIDE DEF y, s
<1>9. Runs(<<s>>, x, y)
  BY <1>1, <1>6, <1>7, <1>8, RunsOne
<1>10. <<s>> \in Seq(Step)
  BY <1>8
<1>11. Ready(y)
  BY <1>6 DEF Ready
<1>12. x \in Label /\ Leads(x, <<s>>)
  BY <1>1, <1>6, <1>9, <1>10, <1>11 DEF Leads
<1> QED  BY <1>12 DEF s, x

LEMMA InitIInv == ASSUME OneThread PROVE Init => IInv
<1> SUFFICES ASSUME Init PROVE IInv
  OBVIOUS
<1>1. Q!IInv
  BY InitIsQueueInit, QueueAssumptions, Q!InitIInv
<1>2. main \in App /\ App = {main}
  BY MainThread DEF OneThread
<1> DEFINE x == Begin
<1>3. /\ x \in Label /\ Leads(x, << <<"threadStart", main>> >>)
      /\ x.own = "none" /\ x.empty = Drained /\ x.job = "none"
      /\ x.mode = "running" /\ x.spare = 1 /\ x.creates = 1
  BY BeginLeads DEF Begin
<1> HIDE DEF x
<1>4. << <<"threadStart", main>> >> \in Seq(Step)
  BY <1>3 DEF Leads
<1>5. Leads(x, todo[main]) /\ todo \in [App -> Seq(Step)]
  BY <1>2, <1>3, <1>4 DEF Init
<1>6. /\ calls[main] = 0 /\ gids = <<>> /\ fHasWork[main] = FALSE /\ fDone[main] = FALSE
      /\ filter[main] = NoFilter /\ cache[main] = {} /\ job[main] = NoJob /\ nextJob = 1
      /\ exited = "no" /\ paused = {} /\ out[main] = 0
      /\ Gpu(main) = <<>> /\ Fin(main) = <<>>
  BY <1>2 DEF Init, Gpu, Fin
<1>7. TypeOK
  <2>1. NoFilter \in [pc : FilterPcs, in : 0 .. 1, pos : Nat, pkt : Pkts \cup {Marker("NONE")}]
    BY DEF NoFilter, FilterPcs
  <2>2. Frames \in Nat /\ MaxCalls \in Nat
    BY GeneratorAssumption
  <2>3. [b \in 0 .. 1 |-> <<>>] \in [0 .. 1 -> Seq(Pkts)]
    OBVIOUS
  <2>4. /\ calls \in [App -> 0 .. MaxCalls] /\ stop \in Nat /\ nextJob \in Nat \ {0}
        /\ fHasWork \in [App -> BOOLEAN] /\ fDone \in [App -> BOOLEAN] /\ out \in [App -> 0 .. 1]
        /\ job \in [App -> Jobs \cup {NoJob}] /\ exited \in {"no", "stop", "finish", "abort"}
        /\ cache \in [App -> SUBSET [job : 1 .. MaxCalls + 1, dev : Dev]] /\ rscDev \in Dev
    BY <2>2 DEF Init, Dev
  <2>5. buf \in [App -> [0 .. 1 -> Seq(Pkts)]]
    BY <2>3 DEF Init
  <2>6. filter \in [App -> [pc : FilterPcs, in : 0 .. 1, pos : Nat, pkt : Pkts \cup {Marker("NONE")}]]
    BY <2>1 DEF Init
  <2> QED  BY <1>5, <2>4, <2>5, <2>6 DEF TypeOK
<1>8. filter[main].pc = "none"
  BY <1>6 DEF NoFilter
<1>9. Shares(x) /\ Empties(x) /\ Place /\ Stopped(x)
  BY <1>3, <1>6, <1>8 DEF Shares, Empties, Place, Stopped, Reading, Drained
<1>10. JobData(x)
  <2>1. Len(Gpu(main)) = 0 /\ Len(Fin(main)) = 0
    BY <1>6
  <2> QED  BY <1>3, <1>6, <2>1 DEF JobData, AccessOf
<1>11. Calling(x)
  <2>1. ~ Fills(queue)
    <3>1. Len(queue.fout) = 1
      BY InitIsQueueInit
    <3> QED  BY <3>1, QueueAssumption DEF Fills
  <2> QED  BY <1>3, <1>6, <1>8, <2>1 DEF Calling, Full
<1>12. Counts(x)
  <2>1. Left = 0
    BY <1>6, <1>8 DEF Left, Reading
  <2>2. Len(Gpu(main)) = 0 /\ Len(pushed) = 1
    BY <1>6, InitIsQueueInit
  <2> QED  BY <1>3, <1>6, <2>1, <2>2 DEF Counts
<1>13. Doing(x)
  BY <1>5, <1>9, <1>10, <1>11, <1>12 DEF Doing, Matches
<1>14. QueueTypeOK
  BY <1>1, QueueTyped
<1> QED  BY <1>1, <1>3, <1>7, <1>13, <1>14 DEF IInv, GInv

LEMMA StepIInv == ASSUME OneThread PROVE IInv /\ [Next]_vars => IInv'
<1> SUFFICES ASSUME IInv, [Next]_vars PROVE IInv'
  OBVIOUS
<1>1. TypeOK' /\ (\E y \in Label : Doing(y)') /\ [Q!Next]_(Q!protocolVars)
  BY NextFollows DEF IInv, Advances, Follows
<1>2. Q!IInv'
  BY <1>1, QueueAssumptions, Q!StepIInv DEF IInv
<1>3. QueueTypeOK'
  BY <1>2, QueueTyped, PTL
<1> QED  BY <1>1, <1>2, <1>3 DEF IInv, GInv

LEMMA Invariant == ASSUME OneThread PROVE Spec => []IInv
BY InitIInv, StepIInv, PTL DEF Spec

(***************************************************************************)
(* Program order.  First what OrderedOf makes of one packet more and of    *)
(* one packet less.                                                        *)
(***************************************************************************)
\* A nonempty set of numbers has a smallest one.
LEMMA LeastOf ==
    ASSUME NEW S, S \subseteq Nat, S # {}
    PROVE  \E n \in S : \A m \in S : n <= m
<1>1. PICK x \in S : \A y \in S : ~ (<<y, x>> \in (OpToRel(<, Nat)))
  BY NatLessThanWellFounded, WFMin
<1>2. ASSUME NEW y \in S PROVE ~ (<<y, x>> \in {p \in Nat \X Nat : p[1] < p[2]})
  BY <1>1, Zenon DEF OpToRel
<1>3. ASSUME NEW y \in S PROVE x <= y
  <2>1. x \in Nat /\ y \in Nat /\ <<y, x>>[1] = y /\ <<y, x>>[2] = x
    OBVIOUS
  <2>2. ~ (y < x)
    BY <1>2, <2>1
  <2> QED  BY <2>1, <2>2
<1> QED  BY <1>3

\* What OrderedOf computes: of[i] are the ordered ones of the first i packets.
Selects(of, s, n) ==
    of = [i \in 0 .. n |->
            IF i = 0 THEN <<>>
            ELSE IF Ordered(s[i]) THEN Append(of[i - 1], s[i]) ELSE of[i - 1]]

LEMMA SelectsExist ==
    ASSUME NEW s, NEW n \in Nat
    PROVE  \E of : Selects(of, s, n)
<1> DEFINE None == {k \in Nat : ~ \E of : Selects(of, s, k)}
<1> SUFFICES ASSUME None # {} PROVE FALSE
  OBVIOUS
<1>1. PICK k \in None : \A m \in None : k <= m
  <2>1. None \subseteq Nat
    OBVIOUS
  <2> HIDE DEF None
  <2> QED  BY <2>1, LeastOf
<1>2. CASE k = 0
  <2> DEFINE f == [i \in 0 .. 0 |-> <<>>]
  <2>1. Selects(f, s, 0)
    BY DEF Selects
  <2> QED  BY <1>2, <2>1
<1>3. CASE k # 0
  <2>1. k - 1 \in Nat /\ k - 1 \notin None
    BY <1>1, <1>3
  <2>2. PICK f : Selects(f, s, k - 1)
    BY <2>1
  <2> DEFINE Next1(a, i) == IF Ordered(s[i]) THEN Append(a, s[i]) ELSE a
             g == [i \in 0 .. k |-> IF i = k THEN Next1(f[k - 1], k) ELSE f[i]]
  <2>3. \A i \in 0 .. k - 1 : f[i] = IF i = 0 THEN <<>> ELSE Next1(f[i - 1], i)
    BY <2>2 DEF Selects
  <2> HIDE DEF Next1
  <2>4. \A i \in 0 .. k : g[i] = IF i = 0 THEN <<>> ELSE Next1(g[i - 1], i)
    <3> SUFFICES ASSUME NEW i \in 0 .. k PROVE g[i] = IF i = 0 THEN <<>> ELSE Next1(g[i - 1], i)
      OBVIOUS
    <3>1. i # 0 => i - 1 \in 0 .. k - 1 /\ g[i - 1] = f[i - 1]
      OBVIOUS
    <3>2. CASE i = k
      BY <1>3, <3>1, <3>2
    <3>3. CASE i # k
      <4>1. i \in 0 .. k - 1 /\ g[i] = f[i]
        BY <3>3
      <4> QED  BY <2>3, <3>1, <4>1
    <3> QED  BY <3>2, <3>3
  <2>5. g = [i \in 0 .. k |-> g[i]]
    OBVIOUS
  <2>6. Selects(g, s, k)
    <3> HIDE DEF g
    <3> QED  BY <2>4, <2>5 DEF Selects, Next1
  <2> QED  BY <2>6
<1> QED  BY <1>2, <1>3

Agree(a, b, n) == \A i \in 1 .. n : a[i] = b[i]

LEMMA SelectsAgree ==
    ASSUME NEW s, NEW t, NEW n \in Nat, NEW m \in Nat, n <= m, NEW f, NEW g,
           Selects(f, s, n), Selects(g, t, m), Agree(s, t, n)
    PROVE  f[n] = g[n]
<1> DEFINE Differ == {i \in 0 .. n : f[i] # g[i]}
<1>1. Differ = {}
  <2> SUFFICES ASSUME Differ # {} PROVE FALSE
    OBVIOUS
  <2>1. PICK k \in Differ : \A h \in Differ : k <= h
    <3>1. Differ \subseteq Nat
      OBVIOUS
    <3> HIDE DEF Differ
    <3> QED  BY <3>1, LeastOf
  <2>2. k \in 0 .. n /\ k \in 0 .. m
    OBVIOUS
  <2>3. f[k] = IF k = 0 THEN <<>>
               ELSE IF Ordered(s[k]) THEN Append(f[k - 1], s[k]) ELSE f[k - 1]
    BY <2>2 DEF Selects
  <2>4. g[k] = IF k = 0 THEN <<>>
               ELSE IF Ordered(t[k]) THEN Append(g[k - 1], t[k]) ELSE g[k - 1]
    BY <2>2 DEF Selects
  <2>5. k # 0 => s[k] = t[k]
    BY <2>2 DEF Agree
  <2>6. k # 0 => f[k - 1] = g[k - 1]
    <3>1. ASSUME k # 0 PROVE k - 1 \in 0 .. n /\ k - 1 \notin Differ
      BY <2>1, <3>1
    <3> QED  BY <3>1
  <2> QED  BY <2>3, <2>4, <2>5, <2>6
<1> QED  BY <1>1

LEMMA OrderedSelects ==
    ASSUME NEW P, NEW s \in Seq(P)
    PROVE  \E of : Selects(of, s, Len(s)) /\ OrderedOf(s) = of[Len(s)]
<1> DEFINE F == CHOOSE of : of = [i \in 0 .. Len(s) |->
                    IF i = 0 THEN <<>>
                    ELSE IF Ordered(s[i]) THEN Append(of[i - 1], s[i]) ELSE of[i - 1]]
<1>1. Len(s) \in Nat
  OBVIOUS
<1>2. Selects(F, s, Len(s))
  <2>1. \E of : Selects(of, s, Len(s))
    BY <1>1, SelectsExist
  <2> QED  BY <2>1, Zenon DEF Selects
<1>3. OrderedOf(s) = F[Len(s)]
  BY Zenon DEF OrderedOf
<1> HIDE DEF F
<1> QED  BY <1>2, <1>3

\* The ordered ones of no packet, of one packet more, and of two sequences.
LEMMA OrderedNone == OrderedOf(<<>>) = <<>>
<1>1. <<>> \in Seq({})
  OBVIOUS
<1>2. PICK s \in Seq({}) : s = <<>>
  BY <1>1
<1>3. PICK of : Selects(of, s, Len(s)) /\ OrderedOf(s) = of[Len(s)]
  BY OrderedSelects
<1>4. Len(s) = 0
  BY <1>2
<1>5. of[0] = <<>>
  BY <1>3, <1>4 DEF Selects
<1> QED  BY <1>2, <1>3, <1>4, <1>5

LEMMA OrderedAppend ==
    ASSUME NEW P, NEW s \in Seq(P), NEW p \in P
    PROVE  OrderedOf(Append(s, p))
             = IF Ordered(p) THEN Append(OrderedOf(s), p) ELSE OrderedOf(s)
<1> DEFINE t == Append(s, p)
           n == Len(s)
<1>1. t \in Seq(P) /\ n \in Nat /\ Len(t) = n + 1 /\ t[n + 1] = p /\ \A i \in 1 .. n : s[i] = t[i]
  OBVIOUS
<1> HIDE DEF t
<1>2. PICK f : Selects(f, s, n) /\ OrderedOf(s) = f[n]
  BY OrderedSelects
<1>3. PICK g : Selects(g, t, n + 1) /\ OrderedOf(t) = g[n + 1]
  BY <1>1, OrderedSelects
<1>4. f[n] = g[n]
  <2>1. n + 1 \in Nat /\ n <= n + 1 /\ Agree(s, t, n)
    BY <1>1 DEF Agree
  <2> QED  BY <1>1, <1>2, <1>3, <2>1, SelectsAgree
<1>5. g[n + 1] = IF Ordered(p) THEN Append(g[n], p) ELSE g[n]
  <2>1. n + 1 \in 0 .. n + 1 /\ n + 1 # 0 /\ (n + 1) - 1 = n
    BY <1>1
  <2> QED  BY <1>1, <1>3, <2>1 DEF Selects
<1> QED  BY <1>2, <1>3, <1>4, <1>5 DEF t

LEMMA OrderedType ==
    ASSUME NEW P, NEW s \in Seq(P)
    PROVE  OrderedOf(s) \in Seq(P)
<1>1. PICK f : Selects(f, s, Len(s)) /\ OrderedOf(s) = f[Len(s)]
  BY OrderedSelects
<1> DEFINE Bad == {i \in 0 .. Len(s) : f[i] \notin Seq(P)}
<1>2. Len(s) \in Nat /\ Len(s) \in 0 .. Len(s) /\ \A i \in 1 .. Len(s) : s[i] \in P
  OBVIOUS
<1>3. Bad = {}
  <2> SUFFICES ASSUME Bad # {} PROVE FALSE
    OBVIOUS
  <2>1. PICK k \in Bad : \A h \in Bad : k <= h
    <3>1. Bad \subseteq Nat
      OBVIOUS
    <3> HIDE DEF Bad
    <3> QED  BY <3>1, LeastOf
  <2>2. f[k] = IF k = 0 THEN <<>>
               ELSE IF Ordered(s[k]) THEN Append(f[k - 1], s[k]) ELSE f[k - 1]
    BY <1>1 DEF Selects
  <2>3. k # 0 => f[k - 1] \in Seq(P)
    BY <1>2, <2>1
  <2>4. k # 0 => s[k] \in P
    BY <1>2
  <2>5. f[k] \in Seq(P)
    <3>1. CASE k = 0
      BY <2>2, <3>1
    <3>2. CASE k # 0
      <4>1. PICK a \in Seq(P) : a = f[k - 1]
        BY <2>3, <3>2
      <4>2. PICK b \in P : b = s[k]
        BY <2>4, <3>2
      <4>3. Append(a, b) \in Seq(P)
        OBVIOUS
      <4> QED  BY <2>2, <3>2, <4>1, <4>2, <4>3
    <3> QED  BY <3>1, <3>2
  <2> QED  BY <2>5
<1> QED  BY <1>1, <1>2, <1>3

\* The first packet leaves: the rest keep their order.
LEMMA OrderedHead ==
    ASSUME NEW P, NEW s \in Seq(P), s # <<>>
    PROVE  OrderedOf(s) = IF Ordered(Head(s)) THEN <<Head(s)>> \o OrderedOf(Tail(s))
                          ELSE OrderedOf(Tail(s))
<1> DEFINE First(q) == IF Ordered(Head(s)) THEN <<Head(s)>> \o q ELSE q
           t == Tail(s)
           n == Len(t)
<1>1. /\ t \in Seq(P) /\ n \in Nat /\ Len(s) = n + 1 /\ Head(s) = s[1] /\ Head(s) \in P
      /\ \A i \in 1 .. n : t[i] = s[i + 1]
  OBVIOUS
<1> HIDE DEF t
<1>2. PICK f : Selects(f, s, n + 1) /\ OrderedOf(s) = f[n + 1]
  BY <1>1, OrderedSelects
<1>3. PICK g : Selects(g, t, n) /\ OrderedOf(t) = g[n]
  BY <1>1, OrderedSelects
<1> DEFINE Bad == {i \in 0 .. n : f[i + 1] # First(g[i]) \/ g[i] \notin Seq(P)}
<1>4. Bad = {}
  <2> SUFFICES ASSUME Bad # {} PROVE FALSE
    OBVIOUS
  <2>1. PICK k \in Bad : \A h \in Bad : k <= h
    <3>1. Bad \subseteq Nat
      OBVIOUS
    <3> HIDE DEF Bad
    <3> QED  BY <3>1, LeastOf
  <2>2. k \in 0 .. n /\ k + 1 \in 0 .. n + 1 /\ k + 1 # 0 /\ (k + 1) - 1 = k
    BY <1>1
  <2>3. f[k + 1] = IF Ordered(s[k + 1]) THEN Append(f[k], s[k + 1]) ELSE f[k]
    BY <1>2, <2>2 DEF Selects
  <2>4. g[k] = IF k = 0 THEN <<>>
               ELSE IF Ordered(t[k]) THEN Append(g[k - 1], t[k]) ELSE g[k - 1]
    BY <1>3, <2>2 DEF Selects
  <2>5. CASE k = 0
    <3>1. f[0] = <<>>
      BY <1>1, <1>2 DEF Selects
    <3>2. f[1] = IF Ordered(Head(s)) THEN <<Head(s)>> ELSE <<>>
      BY <1>1, <2>3, <2>5, <3>1
    <3>3. g[0] = <<>> /\ <<>> \in Seq(P) /\ <<Head(s)>> \o <<>> = <<Head(s)>>
      BY <2>4, <2>5
    <3>4. f[0 + 1] = First(g[0])
      BY <3>2, <3>3
    <3> QED  BY <2>5, <3>3, <3>4
  <2>6. CASE k # 0
    <3>1. k - 1 \in 0 .. n /\ k - 1 \notin Bad /\ (k - 1) + 1 = k
      BY <2>1, <2>2, <2>6
    <3>2. f[k] = First(g[k - 1]) /\ g[k - 1] \in Seq(P)
      BY <3>1
    <3>3. t[k] = s[k + 1] /\ t[k] \in P
      BY <1>1, <2>2, <2>6
    <3>4. PICK a \in Seq(P) : a = g[k - 1]
      BY <3>2
    <3>5. PICK b \in P : b = t[k]
      BY <3>3
    <3>6. Append(First(a), b) = First(Append(a, b)) /\ Append(a, b) \in Seq(P)
      BY <1>1
    <3> HIDE DEF First
    <3>7. f[k + 1] = First(g[k]) /\ g[k] \in Seq(P)
      BY <2>3, <2>4, <2>6, <3>2, <3>3, <3>4, <3>5, <3>6
    <3> QED  BY <2>2, <3>7
  <2> QED  BY <2>5, <2>6
<1>5. n \in 0 .. n
  BY <1>1
<1>6. f[n + 1] = First(g[n])
  BY <1>4, <1>5
<1> QED  BY <1>2, <1>3, <1>6 DEF t

\* The packets of either stage, and those the filter thread has still to take.
AllPackets == Packet \cup Pkts
Rest == SubSeq(Fin(main), Len(Fin(main)) + 1 - Left, Len(Fin(main)))

\* The calls in order are the stream so far, what is left of the buffer of the filter thread,
\* and the buffer of the application thread.
OrderInv ==
    /\ pushed # <<>>
    /\ issued = (OrderedOf(Tail(pushed)) \o OrderedOf(Rest)) \o OrderedOf(Gpu(main))

LEMMA Flow ==
    ASSUME OneThread, TypeOK, QueueTypeOK, NEW x \in Label, Matches(x), pushed # <<>>
    PROVE  /\ Tail(pushed) \in Seq(AllPackets) /\ Rest \in Seq(AllPackets)
           /\ Gpu(main) \in Seq(AllPackets)
           /\ Left \in 0 .. Len(Fin(main)) /\ Fin(main) \in Seq(Pkts)
<1>1. Gpu(main) \in Seq(Pkts) /\ Fin(main) \in Seq(Pkts)
  BY Buffers
<1>2. Left \in 0 .. Len(Fin(main))
  <2>1. filter[main].pos \in Nat
    BY MainThread DEF TypeOK
  <2> QED  BY <1>1, <2>1 DEF Left, Matches, Place, Reading
<1>3. Rest \in Seq(Pkts)
  <2>1. PICK f \in Seq(Pkts) : f = Fin(main)
    BY <1>1
  <2>2. PICK k \in 0 .. Len(f) : k = Left
    BY <1>2, <2>1
  <2>3. SubSeq(f, Len(f) + 1 - k, Len(f)) \in Seq(Pkts)
    OBVIOUS
  <2> QED  BY <2>1, <2>2, <2>3 DEF Rest
<1>4. Tail(pushed) \in Seq(Packet)
  BY DEF QueueTypeOK
<1>5. \A s \in Seq(Packet) : s \in Seq(AllPackets)
  BY DEF AllPackets
<1>6. \A s \in Seq(Pkts) : s \in Seq(AllPackets)
  BY DEF AllPackets
<1> QED  BY <1>1, <1>2, <1>3, <1>4, <1>5, <1>6

\* Nothing of the flow has changed.
LEMMA FlowStays ==
    ASSUME OrderInv, UNCHANGED <<pushed, issued, buf, out>>, Left' = Left
    PROVE  OrderInv'
<1>1. Gpu(main)' = Gpu(main) /\ Fin(main)' = Fin(main)
  BY DEF Gpu, Fin
<1>2. Rest' = Rest
  BY <1>1 DEF Rest
<1> QED  BY <1>1, <1>2 DEF OrderInv

\* One packet at the end, of a sequence or of the last of three.
LEMMA Grows ==
    ASSUME NEW P, NEW s \in Seq(P), NEW t \in Seq(P), NEW u \in Seq(P), NEW p \in P
    PROVE  (s \o t) \o Append(u, p) = Append((s \o t) \o u, p)
  OBVIOUS

LEMMA MovesOver ==
  ASSUME NEW P, NEW s \in Seq(P), NEW t \in Seq(P), NEW p \in P
  PROVE  Append(s, p) \o t = s \o (<<p>> \o t)
OBVIOUS

LEMMA Longer ==
    ASSUME NEW P, NEW s \in Seq(P), s # <<>>, NEW p \in P
    PROVE  Append(s, p) # <<>> /\ Tail(Append(s, p)) = Append(Tail(s), p)
  OBVIOUS

LEMMA SameSequence ==
    ASSUME NEW P, NEW s \in Seq(P), NEW t \in Seq(P), Len(s) = Len(t),
           \A i \in 1 .. Len(s) : s[i] = t[i]
    PROVE  s = t
  OBVIOUS

\* A packet enters the buffer of the application thread.
LEMMA FlowEnters ==
    ASSUME OneThread, TypeOK, QueueTypeOK, NEW x \in Label, Matches(x), OrderInv,
           NEW p \in Pkts, AppendPacket(main, p), UNCHANGED <<pushed, out, filter>>,
           \/ Ordered(p) /\ issued' = Append(issued, p)
           \/ ~ Ordered(p) /\ issued' = issued
    PROVE  OrderInv'
<1>1. Gpu(main)' = Append(Gpu(main), p) /\ Fin(main)' = Fin(main)
  BY Appending
<1>2. Rest' = Rest
  BY <1>1 DEF Rest, Left
<1>3. /\ Tail(pushed) \in Seq(AllPackets) /\ Rest \in Seq(AllPackets)
      /\ Gpu(main) \in Seq(AllPackets) /\ p \in AllPackets
  BY Flow DEF OrderInv, AllPackets
<1>4. PICK s \in Seq(AllPackets) : s = OrderedOf(Tail(pushed))
  BY <1>3, OrderedType
<1>5. PICK t \in Seq(AllPackets) : t = OrderedOf(Rest)
  BY <1>3, OrderedType
<1>6. PICK u \in Seq(AllPackets) : u = OrderedOf(Gpu(main))
  BY <1>3, OrderedType
<1>7. OrderedOf(Gpu(main))' = IF Ordered(p) THEN Append(u, p) ELSE u
  BY <1>1, <1>3, <1>6, OrderedAppend
<1>8. issued = (s \o t) \o u
  BY <1>4, <1>5, <1>6 DEF OrderInv
<1>9. issued' = (s \o t) \o (IF Ordered(p) THEN Append(u, p) ELSE u)
  <2>1. (s \o t) \o Append(u, p) = Append((s \o t) \o u, p)
    BY <1>3, Grows
  <2> QED  BY <1>8, <2>1
<1> QED  BY <1>2, <1>4, <1>5, <1>7, <1>9 DEF OrderInv

\* A packet is pushed past what is buffered: unordered, or with nothing buffered.
LEMMA FlowPasses ==
    ASSUME OneThread, TypeOK, QueueTypeOK, NEW x \in Label, Matches(x), OrderInv,
           NEW p \in AllPackets, pushed' = Append(pushed, p), UNCHANGED <<buf, out>>, Left' = Left,
           \/ ~ Ordered(p) /\ issued' = issued
           \/ Ordered(p) /\ issued' = Append(issued, p) /\ Fin(main) = <<>> /\ Gpu(main) = <<>>
    PROVE  OrderInv'
<1>1. Gpu(main)' = Gpu(main) /\ Fin(main)' = Fin(main)
  BY DEF Gpu, Fin
<1>2. Rest' = Rest
  BY <1>1 DEF Rest
<1>3. /\ Tail(pushed) \in Seq(AllPackets) /\ Rest \in Seq(AllPackets)
      /\ Gpu(main) \in Seq(AllPackets) /\ Left \in 0 .. Len(Fin(main))
  BY Flow DEF OrderInv
<1>4. pushed' # <<>> /\ Tail(pushed') = Append(Tail(pushed), p)
  <2>1. PICK h \in Seq(AllPackets) : h = pushed
    BY DEF QueueTypeOK, AllPackets
  <2>2. h # <<>>
    BY <2>1 DEF OrderInv
  <2>3. Append(h, p) # <<>> /\ Tail(Append(h, p)) = Append(Tail(h), p)
    BY <2>2, Longer
  <2> QED  BY <2>1, <2>3
<1>5. PICK s \in Seq(AllPackets) : s = OrderedOf(Tail(pushed))
  BY <1>3, OrderedType
<1>6. OrderedOf(Tail(pushed')) = IF Ordered(p) THEN Append(s, p) ELSE s
  BY <1>3, <1>4, <1>5, OrderedAppend
<1>7. CASE ~ Ordered(p) /\ issued' = issued
  BY <1>1, <1>2, <1>4, <1>5, <1>6, <1>7 DEF OrderInv
<1>8. CASE Ordered(p) /\ issued' = Append(issued, p) /\ Fin(main) = <<>> /\ Gpu(main) = <<>>
  <2>1. Rest = <<>>
    <3>1. Left = 0 /\ Len(Fin(main)) = 0
      BY <1>3, <1>8
    <3>2. SubSeq(<<>>, 1, 0) = <<>>
      OBVIOUS
    <3> QED  BY <1>8, <3>1, <3>2 DEF Rest
  <2>2. issued = (s \o <<>>) \o <<>>
    BY <1>5, <1>8, <2>1, OrderedNone DEF OrderInv
  <2>3. Append(s, p) \in Seq(AllPackets)
    OBVIOUS
  <2>4. issued' = (Append(s, p) \o <<>>) \o <<>>
    BY <1>8, <2>2, <2>3
  <2>5. OrderedOf(Tail(pushed')) = Append(s, p)
    BY <1>6, <1>8
  <2>6. OrderedOf(Rest)' = <<>> /\ OrderedOf(Gpu(main))' = <<>>
    BY <1>1, <1>2, <1>8, <2>1, OrderedNone
  <2> QED  BY <1>4, <2>4, <2>5, <2>6 DEF OrderInv
<1> QED  BY <1>7, <1>8

\* The filter thread takes the first packet that is left: it pushes it, or drops an unordered
\* one and pushes at most another unordered one.
LEMMA FlowMoves ==
    ASSUME OneThread, TypeOK, QueueTypeOK, NEW x \in Label, Matches(x), OrderInv,
           UNCHANGED <<buf, out, issued>>, Left > 0, Left' = Left - 1,
           NEW p \in Pkts, p = Fin(main)[Len(Fin(main)) + 1 - Left],
           \/ pushed' = Append(pushed, p)
           \/ ~ Ordered(p) /\ pushed' = pushed
           \/ ~ Ordered(p) /\ \E m \in AllPackets : ~ Ordered(m) /\ pushed' = Append(pushed, m)
    PROVE  OrderInv'
<1>1. Gpu(main)' = Gpu(main) /\ Fin(main)' = Fin(main)
  BY DEF Gpu, Fin
<1>2. /\ Tail(pushed) \in Seq(AllPackets) /\ Rest \in Seq(AllPackets)
      /\ Gpu(main) \in Seq(AllPackets) /\ Left \in 0 .. Len(Fin(main)) /\ Fin(main) \in Seq(Pkts)
  BY Flow DEF OrderInv
<1>3. Rest # <<>> /\ Head(Rest) = p /\ Tail(Rest) = Rest'
  <2>1. PICK f \in Seq(Pkts) : f = Fin(main)
    BY <1>2
  <2>2. PICK k \in 1 .. Len(f) : k = Left
    BY <1>2, <2>1
  <2> DEFINE r == SubSeq(f, Len(f) + 1 - k, Len(f))
             q == SubSeq(f, Len(f) + 1 - (k - 1), Len(f))
  <2>3. /\ r \in Seq(Pkts) /\ Len(r) = k /\ q \in Seq(Pkts) /\ Len(q) = k - 1
        /\ \A i \in 1 .. k : r[i] = f[Len(f) - k + i]
        /\ \A i \in 1 .. k - 1 : q[i] = f[Len(f) - k + 1 + i]
    OBVIOUS
  <2> HIDE DEF r, q
  <2>4. r # <<>> /\ Head(r) = f[Len(f) + 1 - k]
    BY <2>3
  <2>5. Tail(r) = q
    <3>1. Tail(r) \in Seq(Pkts) /\ Len(Tail(r)) = k - 1 /\ \A i \in 1 .. k - 1 : Tail(r)[i] = r[i + 1]
      BY <2>3, <2>4
    <3>2. ASSUME NEW i \in 1 .. k - 1 PROVE Tail(r)[i] = q[i]
      <4>1. i + 1 \in 1 .. k /\ Len(f) - k + (i + 1) = Len(f) - k + 1 + i
        OBVIOUS
      <4> QED  BY <2>3, <3>1, <4>1
    <3>3. k - 1 \in Nat /\ Len(q) = Len(Tail(r))
      BY <2>3, <3>1
    <3>4. \A i \in 1 .. Len(Tail(r)) : Tail(r)[i] = q[i]
      BY <3>1, <3>2
    <3> QED  BY <2>3, <3>1, <3>3, <3>4, SameSequence
  <2>6. Rest = r /\ Rest' = q
    BY <1>1, <2>1, <2>2 DEF Rest, r, q
  <2> QED  BY <2>1, <2>2, <2>4, <2>5, <2>6
<1>4. Rest' \in Seq(AllPackets) /\ p \in AllPackets
  <2>1. PICK r \in Seq(AllPackets) : r = Rest
    BY <1>2
  <2>2. r # <<>> /\ Tail(r) = Rest'
    BY <1>3, <2>1
  <2>3. Tail(r) \in Seq(AllPackets)
    BY <2>2
  <2> QED  BY <2>2, <2>3 DEF AllPackets
<1>5. PICK s \in Seq(AllPackets) : s = OrderedOf(Tail(pushed))
  BY <1>2, OrderedType
<1>6. PICK t \in Seq(AllPackets) : t = OrderedOf(Rest')
  BY <1>4, OrderedType
<1>7. PICK u \in Seq(AllPackets) : u = OrderedOf(Gpu(main))
  BY <1>2, OrderedType
<1>8. OrderedOf(Rest) = IF Ordered(p) THEN <<p>> \o t ELSE t
  BY <1>2, <1>3, <1>6, OrderedHead
<1>9. ASSUME NEW m \in AllPackets, pushed' = Append(pushed, m)
      PROVE  pushed' # <<>> /\ OrderedOf(Tail(pushed')) = IF Ordered(m) THEN Append(s, m) ELSE s
  <2>1. PICK h \in Seq(AllPackets) : h = pushed
    BY DEF QueueTypeOK, AllPackets
  <2>2. h # <<>>
    BY <2>1 DEF OrderInv
  <2>3. Append(h, m) # <<>> /\ Tail(Append(h, m)) = Append(Tail(h), m)
    BY <2>2, Longer
  <2>4. OrderedOf(Append(Tail(pushed), m)) = IF Ordered(m) THEN Append(s, m) ELSE s
    BY <1>2, <1>5, OrderedAppend
  <2> QED  BY <1>9, <2>1, <2>3, <2>4
<1>10. pushed' # <<>> /\ OrderedOf(Tail(pushed')) \o t = s \o OrderedOf(Rest)
  <2>1. CASE pushed' = Append(pushed, p)
    <3>1. pushed' # <<>> /\ OrderedOf(Tail(pushed')) = IF Ordered(p) THEN Append(s, p) ELSE s
      BY <1>4, <1>9, <2>1
    <3>2. Append(s, p) \o t = s \o (<<p>> \o t)
      BY <1>4, MovesOver
    <3> QED  BY <1>8, <3>1, <3>2
  <2>2. CASE ~ Ordered(p) /\ pushed' = pushed
    BY <1>5, <1>8, <2>2 DEF OrderInv
  <2>3. CASE ~ Ordered(p) /\ \E m \in AllPackets : ~ Ordered(m) /\ pushed' = Append(pushed, m)
    BY <1>8, <1>9, <2>3
  <2> QED  BY <2>1, <2>2, <2>3
<1>11. issued = (s \o OrderedOf(Rest)) \o u
  BY <1>5, <1>7 DEF OrderInv
<1> QED  BY <1>1, <1>6, <1>7, <1>10, <1>11 DEF OrderInv

\* The two buffers change places.
LEMMA FlowTurns ==
    ASSUME OneThread, TypeOK, QueueTypeOK, NEW x \in Label, Doing(x), OrderInv, RotateFilter(main)
    PROVE  OrderInv'
<1>1. Fin(main) = <<>>
  BY RotateKeeps
<1>2. PICK y \in Label :
        /\ Rule(x, Head(todo[main]), y) /\ Leads(y, Tail(todo[main]))
        /\ Head(todo[main])[1] = "rotate"
  BY StepTaken DEF RotateFilter, Doing
<1>3. Head(todo[main]) = <<"rotate", main>> /\ x.own = "held"
  BY <1>2 DEF Rule, FilterRule, JobRule, QueueRule, HandRule, PauseRule, PausedRule
<1>4. Arg(main) = main /\ filter[main].pc = "pop" /\ Matches(x)
  BY <1>3 DEF Arg, Doing, Matches, Shares
<1>5. /\ UNCHANGED <<pushed, issued, filter>>
      /\ out' = [out EXCEPT ![main] = 1 - @]
      /\ buf' = [buf EXCEPT ![main][1 - out[main]] = <<>>]
  BY <1>4 DEF RotateFilter, queueVars, historyVars
<1>6. Gpu(main)' = <<>> /\ Fin(main)' = Gpu(main)
  BY <1>5, Rotating
<1>7. Left = 0 /\ Left' = Len(Gpu(main))
  BY <1>1, <1>4, <1>5, <1>6 DEF Left, Reading
<1>8. Tail(pushed) \in Seq(AllPackets) /\ Gpu(main) \in Seq(AllPackets)
  BY <1>4, Flow DEF OrderInv
<1>9. Rest = <<>> /\ Rest' = Gpu(main)
  <2>1. SubSeq(<<>>, 1, 0) = <<>> /\ Len(<<>>) = 0
    OBVIOUS
  <2>2. Rest = <<>>
    BY <1>1, <1>7, <2>1 DEF Rest
  <2>3. PICK g \in Seq(AllPackets) : g = Gpu(main)
    BY <1>8
  <2>4. Len(g) + 1 - Len(g) = 1 /\ SubSeq(g, 1, Len(g)) = g
    OBVIOUS
  <2>5. Rest' = g
    BY <1>6, <1>7, <2>3, <2>4 DEF Rest
  <2> QED  BY <2>2, <2>3, <2>5
<1>10. PICK s \in Seq(AllPackets) : s = OrderedOf(Tail(pushed))
  BY <1>8, OrderedType
<1>11. PICK u \in Seq(AllPackets) : u = OrderedOf(Gpu(main))
  BY <1>8, OrderedType
<1>12. issued = (s \o <<>>) \o u /\ OrderedOf(Gpu(main))' = <<>> /\ OrderedOf(Rest)' = u
  BY <1>6, <1>9, <1>10, <1>11, OrderedNone DEF OrderInv
<1>13. (s \o <<>>) \o u = (s \o u) \o <<>>
  OBVIOUS
<1> QED  BY <1>5, <1>10, <1>12, <1>13 DEF OrderInv

(***************************************************************************)
(* Every step keeps the order.                                             *)
(***************************************************************************)
LEMMA JobStepOrders ==
    ASSUME OneThread, TypeOK, QueueTypeOK, NEW x \in Label, Doing(x), OrderInv, JobStep(main)
    PROVE  OrderInv'
<1>1. Matches(x) /\ main \in App
  BY MainThread DEF Doing
<1>2. CASE BeginJob(main)
  <2>1. PICK y \in Label :
          /\ Rule(x, Head(todo[main]), y) /\ Leads(y, Tail(todo[main]))
          /\ Head(todo[main])[1] = "beginJob"
    BY <1>2, StepTaken DEF BeginJob, Doing
  <2>2. Arg(main) \in Jobs
    BY <2>1 DEF Rule, FilterRule, JobRule, QueueRule, HandRule, PauseRule, PausedRule, Arg
  <2> DEFINE p == Pkt("NEW_JOB", Arg(main))
  <2>3. p \in Pkts /\ Ordered(p)
    BY <2>2 DEF Pkts, Pkt, Ordered
  <2>4. /\ AppendPacket(main, p) /\ issued' = Append(issued, p)
        /\ UNCHANGED <<pushed, out, filter>>
    BY <1>2 DEF BeginJob, Issue, queueVars
  <2> HIDE DEF p
  <2> QED  BY <1>1, <2>3, <2>4, FlowEnters
<1>3. CASE AppendEndJob(main)
  <2>1. PICK y \in Label :
          /\ Rule(x, Head(todo[main]), y) /\ Leads(y, Tail(todo[main]))
          /\ Head(todo[main])[1] = "appendEndJob"
    BY <1>3, StepTaken DEF AppendEndJob, Doing
  <2>2. x.job = "open"
    BY <2>1 DEF Rule, FilterRule, JobRule, QueueRule, HandRule, PauseRule, PausedRule
  <2> DEFINE p == Pkt("END_JOB", job[main])
  <2>3. p \in Pkts /\ Ordered(p)
    BY <1>1, <2>2 DEF Pkts, Pkt, Ordered, Matches, JobData
  <2>4. /\ AppendPacket(main, p) /\ issued' = Append(issued, p)
        /\ UNCHANGED <<pushed, out, filter>>
    BY <1>3 DEF AppendEndJob, Issue, queueVars
  <2> HIDE DEF p
  <2> QED  BY <1>1, <2>3, <2>4, FlowEnters
<1>4. CASE AppendAccess(main)
  <2>1. PICK y \in Label :
          /\ Rule(x, Head(todo[main]), y) /\ Leads(y, Tail(todo[main]))
          /\ Head(todo[main])[1] = "appendAccess"
    BY <1>4, StepTaken DEF AppendAccess, Doing
  <2>2. x.job = "open"
    BY <2>1 DEF Rule, FilterRule, JobRule, QueueRule, HandRule, PauseRule, PausedRule
  <2> DEFINE p == Pkt("ACCESS", job[main])
  <2>3. p \in Pkts /\ ~ Ordered(p)
    BY <1>1, <2>2 DEF Pkts, Pkt, Ordered, Matches, JobData
  <2>4. AppendPacket(main, p) /\ issued' = issued /\ UNCHANGED <<pushed, out, filter>>
    BY <1>4 DEF AppendAccess, queueVars, historyVars
  <2> HIDE DEF p
  <2> QED  BY <1>1, <2>3, <2>4, FlowEnters
<1>5. CASE ThreadStart(main)
  <2>1. PICK y \in Label :
          /\ Rule(x, Head(todo[main]), y) /\ Leads(y, Tail(todo[main]))
          /\ Head(todo[main])[1] = "threadStart"
    BY <1>5, StepTaken DEF ThreadStart, Doing
  <2>2. x.own = "none"
    BY <2>1 DEF Rule, FilterRule, JobRule, QueueRule, HandRule, PauseRule, PausedRule
  <2>3. filter[main].pc = "none"
    BY <1>1, <2>2 DEF Matches, Shares
  <2>4. filter'[main].pc = "pop" /\ UNCHANGED <<pushed, issued, buf, out>>
    <3>1. filter \in [App -> FilterStates] /\ filter' = [filter EXCEPT ![main].pc = "pop"]
      BY <1>5, BuffersKept DEF ThreadStart
    <3>2. filter[main] \in FilterStates
      BY <1>1, <3>1
    <3>3. filter'[main].pc = "pop"
      BY <1>1, <3>1, <3>2 DEF FilterStates
    <3> QED  BY <1>5, <3>3 DEF ThreadStart, queueVars, historyVars
  <2>5. Left' = Left
    BY <2>3, <2>4 DEF Left, Reading, Fin
  <2> QED  BY <2>4, <2>5, FlowStays
<1>6. CASE CreateJob(main) \/ RecordJob(main) \/ CloseJob(main)
  <2>1. UNCHANGED <<pushed, issued, buf, out, filter>>
    BY <1>6 DEF CreateJob, RecordJob, CloseJob, queueVars, stageVars, historyVars
  <2>2. Left' = Left
    BY <2>1 DEF Left, Fin
  <2> QED  BY <2>1, <2>2, FlowStays
<1> QED  BY <1>2, <1>3, <1>4, <1>5, <1>6 DEF JobStep

LEMMA FilterQueueStepOrders ==
    ASSUME OneThread, TypeOK, QueueTypeOK, NEW x \in Label, Doing(x), OrderInv,
           FilterQueueStep(main) \/ Call(main) \/ AppFinish(main)
    PROVE  OrderInv'
<1>1. CASE RotateFilter(main)
  BY <1>1, FlowTurns
<1>2. CASE ~ RotateFilter(main)
  <2>1. UNCHANGED <<pushed, issued, buf, out, filter>>
    BY <1>2 DEF FilterQueueStep, Await, Clear, FeedOne, FeedAll, Feed, FlushFilterCache,
       DrainNext, Call, AppFinish, queueVars, stageVars, historyVars
  <2>2. Left' = Left
    BY <2>1 DEF Left, Fin
  <2> QED  BY <2>1, <2>2, FlowStays
<1> QED  BY <1>1, <1>2

\* A boundary marker is pushed in a pause, when nothing is buffered before the queue.
LEMMA QueueStepOrders ==
    ASSUME OneThread, TypeOK, QueueTypeOK, NEW x \in Label, Doing(x), OrderInv, QueueStep(main)
    PROVE  OrderInv'
<1>1. Matches(x) /\ (x.mode = "paused" => Fin(main) = <<>> /\ Gpu(main) = <<>>)
  BY DEF Doing, Matches, Empties, Label, Drained
<1> DEFINE p == Marker(Arg(main))
<1>2. CASE PushMarker(main)
  <2>1. PICK y \in Label :
          /\ Rule(x, Head(todo[main]), y) /\ Leads(y, Tail(todo[main]))
          /\ Head(todo[main])[1] = "push"
    BY <1>2, StepTaken DEF PushMarker, Doing
  <2>2. Arg(main) \in Markers /\ (Arg(main) = "OPENGL_CALL" \/ x.mode = "paused")
    BY <2>1 DEF Rule, FilterRule, JobRule, QueueRule, HandRule, PauseRule, PausedRule, Arg, Markers
  <2>3. p \in AllPackets /\ (Ordered(p) <=> InOrder(Arg(main)))
    <3>1. p \in Packet
      BY <2>2, PacketsPushed
    <3>2. p.cmd = Arg(main)
      BY DEF Marker, Pkt
    <3> QED  BY <2>2, <3>1, <3>2 DEF AllPackets, Ordered, InOrder, Markers
  <2>4. /\ pushed' = Append(pushed, p) /\ UNCHANGED <<buf, out, filter>>
        /\ \/ InOrder(Arg(main)) /\ issued' = Append(issued, p)
           \/ ~ InOrder(Arg(main)) /\ issued' = issued
    BY <1>2 DEF PushMarker, Push, Issue, stageVars
  <2>5. Left' = Left
    BY <2>4 DEF Left, Fin
  <2>6. InOrder(Arg(main)) => Fin(main) = <<>> /\ Gpu(main) = <<>>
    BY <1>1, <2>2 DEF InOrder
  <2> HIDE DEF p
  <2> QED  BY <1>1, <2>3, <2>4, <2>5, <2>6, FlowPasses
<1>3. CASE ProcessMarker(main)
  <2>1. PICK y \in Label :
          /\ Rule(x, Head(todo[main]), y) /\ Leads(y, Tail(todo[main]))
          /\ Head(todo[main])[1] = "process"
    BY <1>3, StepTaken DEF ProcessMarker, Doing
  <2>2. Head(todo[main])[2] \in Markers \ {"OPENGL_CALL"} /\ x.mode = "paused"
    BY <2>1 DEF Rule, FilterRule, JobRule, QueueRule, HandRule, PauseRule, PausedRule
  <2>3. p \in AllPackets
    BY <2>2, PacketsPushed DEF AllPackets, Arg
  <2>4. pushed' = Append(pushed, p) /\ UNCHANGED <<buf, out, filter>> /\ issued' = Append(issued, p)
    BY <1>3 DEF ProcessMarker, ProcessAll, Issue, stageVars
  <2>5. Left' = Left
    BY <2>4 DEF Left, Fin
  <2>6. Ordered(p)
    BY <2>2 DEF Ordered, Marker, Pkt, Arg, Markers
  <2> HIDE DEF p
  <2> QED  BY <1>1, <2>2, <2>3, <2>4, <2>5, <2>6, FlowPasses
<1>4. CASE ~ PushMarker(main) /\ ~ ProcessMarker(main)
  <2>1. UNCHANGED <<pushed, issued, buf, out, filter>>
    BY <1>4 DEF QueueStep, HandOverFull, HandOver, QueueWait, WaitBegin, WaitEnd, QueueRotate, Rotate,
       QueueStart, Start, RwLock, RwUnlock, StopOrGo, Exit, queueVars, stageVars, historyVars
  <2>2. Left' = Left
    BY <2>1 DEF Left, Fin
  <2> QED  BY <2>1, <2>2, FlowStays
<1> QED  BY <1>2, <1>3, <1>4

LEMMA FilterStepOrders ==
    ASSUME OneThread, TypeOK, QueueTypeOK, NEW x \in Label, Doing(x), OrderInv, FilterStep(main)
    PROVE  OrderInv'
<1>1. Matches(x) /\ main \in App
  BY MainThread DEF Doing
<1> DEFINE n == Len(Fin(main))
           pos == filter[main].pos
           pkt == FilterPkt(main)
\* Within the buffer: what is left before and after.
<1>2. ASSUME filter[main].pc \in Reading, filter[main].pc = "items" => MoreItems(main),
             filter'[main].pc \in Reading, UNCHANGED <<buf, out>>,
             \/ filter'[main].pc = "items" /\ filter'[main].pos = pos + 1
             \/ filter'[main].pc # "items" /\ filter'[main].pos = pos
      PROVE  /\ n \in Nat /\ pos \in 1 .. n /\ pkt \in Pkts /\ pkt = Fin(main)[pos]
             /\ filter[main].pc = "items" => Left = n + 1 - pos /\ Left > 0 /\ Left' = Left - 1
             /\ filter[main].pc # "items" => Left' = Left
  <2>1. pos \in 1 .. n /\ pkt \in Pkts /\ pkt = Fin(main)[pos]
    BY <1>1, <1>2, FilterHasPacket
  <2>2. /\ n \in Nat
        /\ filter[main].pc = "items" => Left = n + 1 - pos
        /\ filter[main].pc # "items" => Left = n - pos
        /\ filter'[main].pc = "items" => Left' = n + 1 - filter'[main].pos
        /\ filter'[main].pc # "items" => Left' = n - filter'[main].pos
    BY <1>1, <1>2, <2>1, PacketsLeft DEF Matches
  <2>3. Left' = n - pos
    <3> HIDE DEF n, pos
    <3> QED  BY <1>2, <2>1, <2>2
  <2> HIDE DEF n, pos, pkt
  <2> QED  BY <2>1, <2>2, <2>3
<1> HIDE DEF pkt
<1>3. CASE FilterJobPacket(main)
  <2>1. /\ filter[main].pc = "items" /\ MoreItems(main) /\ pushed' = Append(pushed, pkt)
        /\ FilterGoto(main, "fullThenNext") \/ NextItem(main)
        /\ UNCHANGED <<buf, out, issued>>
    BY <1>3 DEF FilterJobPacket, FilterAt, Push, historyVars, pkt
  <2>2. /\ filter'[main].pc \in Reading
        /\ \/ filter'[main].pc = "items" /\ filter'[main].pos = pos + 1
           \/ filter'[main].pc # "items" /\ filter'[main].pos = pos
    <3>1. CASE FilterGoto(main, "fullThenNext")
      BY <3>1, Goes DEF FilterPcs, Reading
    <3>2. CASE NextItem(main)
      BY <3>2, GoesOn DEF Reading
    <3> QED  BY <2>1, <3>1, <3>2
  <2>3. /\ n \in Nat /\ pos \in 1 .. n /\ pkt \in Pkts /\ pkt = Fin(main)[pos]
        /\ Left = n + 1 - pos /\ Left > 0 /\ Left' = Left - 1
    BY <1>2, <2>1, <2>2 DEF Reading
  <2>4. pkt = Fin(main)[n + 1 - Left]
    <3>1. n + 1 - Left = pos
      <4> HIDE DEF n, pos
      <4> QED  BY <2>3
    <3> QED  BY <2>3, <3>1
  <2> QED  BY <1>1, <2>1, <2>3, <2>4, FlowMoves
<1>4. CASE FilterAccess(main)
  <2>1. /\ filter[main].pc = "items" /\ MoreItems(main) /\ pkt.cmd = "ACCESS"
        /\ UNCHANGED <<buf, out, issued>>
        /\ NextItem(main) \/ TakeItem(main, "access") \/ TakeItem(main, "fullThenAccess")
        /\ \/ pushed' = pushed
           \/ \E cmd \in {"MV_TO_CPU", "MV_TO_GPU"} : pushed' = Append(pushed, Marker(cmd))
    BY <1>4 DEF FilterAccess, FilterAt, Push, historyVars, queueVars, pkt
  <2>2. pkt \in Pkts /\ ~ Ordered(pkt)
    BY <1>1, <2>1, FilterHasPacket DEF Reading, Ordered, pkt
  <2>3. /\ filter'[main].pc \in Reading
        /\ \/ filter'[main].pc = "items" /\ filter'[main].pos = pos + 1
           \/ filter'[main].pc # "items" /\ filter'[main].pos = pos
    <3>1. CASE NextItem(main)
      BY <3>1, GoesOn DEF Reading
    <3>2. CASE TakeItem(main, "access")
      BY <2>2, <3>2, Takes DEF FilterPcs, Reading, pkt
    <3>3. CASE TakeItem(main, "fullThenAccess")
      BY <2>2, <3>3, Takes DEF FilterPcs, Reading, pkt
    <3> QED  BY <2>1, <3>1, <3>2, <3>3
  <2>4. /\ n \in Nat /\ pos \in 1 .. n /\ pkt = Fin(main)[pos]
        /\ Left = n + 1 - pos /\ Left > 0 /\ Left' = Left - 1
    BY <1>2, <2>1, <2>3 DEF Reading
  <2>5. pkt = Fin(main)[n + 1 - Left]
    <3>1. n + 1 - Left = pos
      <4> HIDE DEF n, pos
      <4> QED  BY <2>4
    <3> QED  BY <2>4, <3>1
  <2>6. \/ pushed' = pushed
        \/ \E m \in AllPackets : ~ Ordered(m) /\ pushed' = Append(pushed, m)
    <3>1. ASSUME NEW cmd \in {"MV_TO_CPU", "MV_TO_GPU"}
          PROVE  Marker(cmd) \in AllPackets /\ ~ Ordered(Marker(cmd))
      BY PacketsPushed DEF AllPackets, Ordered, Marker, Pkt
    <3> QED  BY <2>1, <3>1
  <2> QED  BY <1>1, <2>1, <2>2, <2>4, <2>5, <2>6, FlowMoves
<1>5. CASE FilterHandOver(main)
  <2>1. /\ UNCHANGED <<pushed, issued, buf, out>>
        /\ \/ filter[main].pc = "fullThenNext" /\ NextItem(main)
           \/ filter[main].pc = "fullThenAccess" /\ FilterGoto(main, "access")
    BY <1>5 DEF FilterHandOver, HandOver, FilterAt, historyVars
  <2>2. /\ filter[main].pc \in Reading /\ filter[main].pc # "items" /\ filter'[main].pc \in Reading
        /\ \/ filter'[main].pc = "items" /\ filter'[main].pos = pos + 1
           \/ filter'[main].pc # "items" /\ filter'[main].pos = pos
    <3>1. CASE filter[main].pc = "fullThenNext" /\ NextItem(main)
      BY <3>1, GoesOn DEF Reading
    <3>2. CASE filter[main].pc = "fullThenAccess" /\ FilterGoto(main, "access")
      BY <3>2, Goes DEF FilterPcs, Reading
    <3> QED  BY <2>1, <3>1, <3>2
  <2> QED  BY <1>2, <2>1, <2>2, FlowStays
<1>6. CASE FilterCacheAccess(main)
  <2>1. /\ UNCHANGED <<pushed, issued, buf, out>> /\ filter[main].pc = "access" /\ NextItem(main)
    BY <1>6 DEF FilterCacheAccess, FilterAt, historyVars, queueVars
  <2>2. /\ filter[main].pc \in Reading /\ filter[main].pc # "items"
        /\ filter'[main].pc \in Reading /\ filter'[main].pc = "items" /\ filter'[main].pos = pos + 1
    BY <2>1, GoesOn DEF Reading
  <2> QED  BY <1>2, <2>1, <2>2, FlowStays
<1>7. CASE FilterFinish(main)
  <2> DEFINE b == filter[main].in
             f == [NoFilter EXCEPT !.pc = "signal"]
             none == <<>>
  <2>1. /\ filter[main].pc = "items" /\ ~ MoreItems(main)
        /\ buf' = [buf EXCEPT ![main][b] = none] /\ filter' = [filter EXCEPT ![main] = f]
        /\ UNCHANGED <<pushed, issued, out>>
    BY <1>7 DEF FilterFinish, FilterAt, queueVars, historyVars
  <2>2. /\ Gpu(main) \in Seq(Pkts) /\ Fin(main) \in Seq(Pkts)
        /\ out[main] \in 0 .. 1 /\ b \in 0 .. 1 /\ b = 1 - out[main] /\ b # out[main]
        /\ Gpu(main) = buf[main][out[main]] /\ Fin(main) = buf[main][b]
    BY <1>1, <2>1, Buffers DEF Matches, Place, Reading
  <2>3. f.pc = "signal" /\ filter \in [App -> FilterStates] /\ buf \in [App -> [0 .. 1 -> Seq(Pkts)]]
    BY BuffersKept DEF NoFilter
  <2>4. pos \in Nat /\ ~ (pos <= n) /\ n \in Nat
    BY <1>1, <2>1, <2>2, <2>3 DEF MoreItems, InBuffer, FilterStates
  <2>5. Left = 0
    <3>1. Left = n + 1 - pos /\ pos <= n + 1
      BY <1>1, <2>1 DEF Left, Matches, Place, Reading
    <3> HIDE DEF n, pos
    <3> QED  BY <2>4, <3>1
  <2> HIDE DEF b, f, none
  <2>6. filter'[main].pc = "signal"
    BY <1>1, <2>1, <2>3
  <2>7. Gpu(main)' = Gpu(main) /\ Fin(main)' = none
    <3>1. buf'[main][b] = none /\ buf'[main][out[main]] = buf[main][out[main]]
      BY <1>1, <2>1, <2>2, <2>3
    <3> QED  BY <2>1, <2>2, <3>1 DEF Gpu, Fin
  <2>8. Left' = 0 /\ Rest' = <<>>
    <3>1. Len(<<>>) = 0 /\ SubSeq(<<>>, 1, 0) = <<>>
      OBVIOUS
    <3>2. Left' = 0
      BY <2>6, <2>7, <3>1 DEF Left, Reading, none
    <3> QED  BY <2>7, <3>1, <3>2 DEF Rest, none
  <2>9. Rest = <<>>
    <3>1. PICK q \in Seq(Pkts) : q = Fin(main)
      BY <2>2
    <3>2. SubSeq(q, Len(q) + 1 - 0, Len(q)) = <<>>
      OBVIOUS
    <3> QED  BY <2>5, <3>1, <3>2 DEF Rest
  <2> QED  BY <2>1, <2>7, <2>8, <2>9 DEF OrderInv
<1>8. CASE FilterLock(main)
  <2>1. /\ filter[main].pc = "lock" /\ UNCHANGED <<pushed, issued, buf, out>>
        /\ filter' = [filter EXCEPT ![main].pc = "items", ![main].in = 1 - out[main], ![main].pos = 1]
    BY <1>8 DEF FilterLock, FilterAt, queueVars, historyVars
  <2>2. filter'[main].pc = "items" /\ filter'[main].pos = 1
    <3>1. filter \in [App -> FilterStates] /\ filter[main] \in FilterStates
      BY <1>1, BuffersKept
    <3> QED  BY <1>1, <2>1, <3>1 DEF FilterStates
  <2>3. n \in Nat /\ Fin(main)' = Fin(main)
    BY <2>1, Buffers DEF Fin
  <2>4. Left = n /\ Left' = n + 1 - 1
    BY <2>1, <2>2, <2>3 DEF Left, Reading
  <2>5. Left' = Left
    <3> HIDE DEF n
    <3> QED  BY <2>3, <2>4
  <2> QED  BY <2>1, <2>5, FlowStays
<1>9. CASE FilterPop(main) \/ FilterClear(main) \/ FilterSignal(main)
  <2>1. UNCHANGED <<pushed, issued, buf, out>>
    BY <1>9 DEF FilterPop, FilterClear, FilterSignal, queueVars, historyVars
  <2>2. /\ filter[main].pc \in {"pop", "popped", "signal"}
        /\ \E p \in {"pop", "popped", "lock"} : FilterGoto(main, p)
    BY <1>9 DEF FilterPop, FilterClear, FilterSignal, FilterAt
  <2>3. filter'[main].pc \in {"pop", "popped", "lock"}
    BY <2>2, Goes DEF FilterPcs
  <2>4. Left' = Left
    BY <2>1, <2>2, <2>3 DEF Left, Reading, Fin
  <2> QED  BY <2>1, <2>4, FlowStays
<1> QED  BY <1>3, <1>4, <1>5, <1>6, <1>7, <1>8, <1>9 DEF FilterStep

LEMMA OrderStep ==
    ASSUME OneThread, IInv, OrderInv, [Next]_vars
    PROVE  OrderInv'
<1>1. PICK x \in Label : TypeOK /\ QueueTypeOK /\ Doing(x)
  BY DEF IInv, GInv
<1>2. CASE Exited \/ UNCHANGED vars \/ \E w \in Worker : AnalysisAbort(w)
  <2>1. UNCHANGED <<pushed, issued, buf, out, filter>>
    BY <1>2 DEF Exited, AnalysisAbort, vars, queueVars, stageVars, historyVars
  <2>2. Left' = Left
    BY <2>1 DEF Left, Fin
  <2> QED  BY <2>1, <2>2, FlowStays
<1>3. CASE \E w \in Worker : AnalysisStep(w)
  <2>1. UNCHANGED <<pushed, issued, buf, out, filter>>
    BY <1>3 DEF AnalysisStep, WorkerStep, Wake, PopEmpty, Pop, Process, SignalProducer,
       stageVars, historyVars
  <2>2. Left' = Left
    BY <2>1 DEF Left, Fin
  <2> QED  BY <2>1, <2>2, FlowStays
<1>4. CASE \E t \in App : Call(t) \/ AppStep(t) \/ AppFinish(t) \/ FilterStep(t)
  <2>1. Call(main) \/ AppStep(main) \/ AppFinish(main) \/ FilterStep(main)
    BY <1>4, MainThread
  <2>2. CASE Call(main) \/ AppFinish(main) \/ FilterQueueStep(main)
    BY <1>1, <2>2, FilterQueueStepOrders
  <2>3. CASE JobStep(main)
    BY <1>1, <2>3, JobStepOrders
  <2>4. CASE QueueStep(main)
    BY <1>1, <2>4, QueueStepOrders
  <2>5. CASE FilterStep(main)
    BY <1>1, <2>5, FilterStepOrders
  <2> QED  BY <2>1, <2>2, <2>3, <2>4, <2>5 DEF AppStep
<1> QED  BY <1>2, <1>3, <1>4 DEF Next

LEMMA InitOrder == ASSUME OneThread PROVE Init => OrderInv
<1> SUFFICES ASSUME Init PROVE OrderInv
  OBVIOUS
<1>1. main \in App
  BY MainThread
<1>2. Gpu(main) = <<>> /\ Fin(main) = <<>> /\ filter[main].pc = "none" /\ issued = <<>>
  BY <1>1 DEF Init, Gpu, Fin, NoFilter
<1>3. IInv
  BY InitIInv
<1>4. pushed \in Seq(Packet) /\ Len(pushed) = 1
  BY <1>3, InitIsQueueInit DEF IInv, GInv, QueueTypeOK
<1>5. pushed # <<>> /\ Tail(pushed) = <<>>
  <2>1. pushed = <<Marker("NEW_SCENE")>>
    BY InitIsQueueInit
  <2>2. \A e : <<e>> # <<>> /\ Tail(<<e>>) = <<>>
    OBVIOUS
  <2> QED  BY <2>1, <2>2
<1>6. Rest = <<>>
  <2>1. Len(<<>>) = 0 /\ SubSeq(<<>>, 1, 0) = <<>>
    OBVIOUS
  <2>2. Left = 0
    BY <1>2, <2>1 DEF Left, Reading
  <2> QED  BY <1>2, <2>1, <2>2 DEF Rest
<1>7. (<<>> \o <<>>) \o <<>> = <<>>
  OBVIOUS
<1> QED  BY <1>2, <1>5, <1>6, <1>7, OrderedNone DEF OrderInv

LEMMA OrderHolds == ASSUME OneThread PROVE Spec => []OrderInv
<1>1. Spec => []IInv
  BY Invariant
<1>2. OrderInv /\ IInv /\ [Next]_vars => OrderInv'
  BY OrderStep
<1> QED  BY <1>1, <1>2, InitOrder, PTL DEF Spec

(***************************************************************************)
(* The theorems.                                                           *)
(***************************************************************************)
\* Only rotate_buffers() exchanges the two buffers.
LEMMA OnlyRotateTurns ==
    ASSUME OneThread, Next
    PROVE  RotateFilter(main) \/ UNCHANGED out
<1>1. CASE Exited
  BY <1>1 DEF Exited, vars, stageVars
<1>2. CASE \E w \in Worker : AnalysisStep(w) \/ AnalysisAbort(w)
  BY <1>2 DEF AnalysisStep, AnalysisAbort, stageVars
<1>3. CASE \E t \in App : Call(t) \/ AppStep(t) \/ AppFinish(t) \/ FilterStep(t)
  <2>1. Call(main) \/ AppStep(main) \/ AppFinish(main) \/ FilterStep(main)
    BY <1>3, MainThread
  <2>2. CASE Call(main) \/ AppFinish(main)
    BY <2>2 DEF Call, AppFinish, stageVars
  <2>3. CASE FilterStep(main)
    BY <2>3 DEF FilterStep, FilterPop, FilterClear, FilterLock, FilterJobPacket, FilterAccess,
       FilterHandOver, FilterCacheAccess, FilterFinish, FilterSignal
  <2>4. CASE JobStep(main)
    BY <2>4 DEF JobStep, ThreadStart, CreateJob, BeginJob, RecordJob, AppendAccess, AppendEndJob,
       CloseJob, stageVars
  <2>5. CASE FilterQueueStep(main)
    BY <2>5 DEF FilterQueueStep, Await, Clear, FeedOne, FeedAll, Feed, FlushFilterCache,
       DrainNext, stageVars
  <2>6. CASE QueueStep(main)
    BY <2>6 DEF QueueStep, PushMarker, HandOverFull, QueueWait, QueueRotate, QueueStart, RwLock,
       RwUnlock, ProcessMarker, StopOrGo, Exit, stageVars
  <2> QED  BY <2>1, <2>2, <2>3, <2>4, <2>5, <2>6 DEF AppStep
<1> QED  BY <1>1, <1>2, <1>3 DEF Next

\* rotate_buffers() clears the buffer it hands back to the application thread: no handler
\* rotates before the filter thread has processed all of that buffer, so no access is lost.
THEOREM NothingDiscarded == ASSUME OneThread PROVE Spec => RotationDiscardsNothing
<1> DEFINE Keeps == \A t \in App : out'[t] # out[t] => Fin(t) = <<>>
<1>1. IInv /\ [Next]_vars => [Keeps]_vars
  <2> SUFFICES ASSUME IInv, Next PROVE Keeps
    OBVIOUS
  <2>1. PICK x \in Label : TypeOK /\ Doing(x)
    BY DEF IInv, GInv
  <2>2. RotateFilter(main) => Fin(main) = <<>>
    BY <2>1, RotateKeeps
  <2> QED  BY <2>2, OnlyRotateTurns, MainThread
<1>2. Spec => []IInv
  BY Invariant
<1> QED  BY <1>1, <1>2, PTL DEF Spec, RotationDiscardsNothing

\* A write goes to the trace of whatever job runs when it leaves the filter caches: every
\* access still buffered and every dirty line then belong to that job.
THEOREM AccessesBelong == ASSUME OneThread PROVE Spec => []AccessesBelongToRunningJob
<1>1. IInv => AccessesBelongToRunningJob
  <2> SUFFICES ASSUME IInv PROVE AccessesBelongToRunningJob
    OBVIOUS
  <2>1. PICK x \in Label : TypeOK /\ Doing(x)
    BY DEF IInv, GInv
  <2>2. /\ AccessOf(job[main], Gpu(main)) /\ AccessOf(job[main], Fin(main))
        /\ \A l \in cache[main] : JobOf(l.job, l.dev) = job[main]
    BY <2>1 DEF Doing, Matches, JobData
  <2>3. Gpu(main) \in Seq(Pkts) /\ Fin(main) \in Seq(Pkts)
    BY <2>1, Buffers
  <2>4. ASSUME NEW g \in Seq(Pkts), NEW f \in Seq(Pkts), NEW p \in Range(g \o f), NEW j,
               AccessOf(j, g), AccessOf(j, f), p.cmd = "ACCESS"
        PROVE  p.job = j
    <3>1. PICK i \in 1 .. Len(g) + Len(f) : p = (g \o f)[i]
      BY DEF Range
    <3>2. CASE i <= Len(g)
      BY <2>4, <3>1, <3>2 DEF AccessOf
    <3>3. CASE i > Len(g)
      <4>1. i - Len(g) \in 1 .. Len(f) /\ (g \o f)[i] = f[i - Len(g)]
        BY <3>1, <3>3
      <4> QED  BY <2>4, <3>1, <4>1 DEF AccessOf
    <3> QED  BY <3>1, <3>2, <3>3
  <2>5. \A p \in Range(Gpu(main) \o Fin(main)) : p.cmd = "ACCESS" => p.job = job[main]
    BY <2>2, <2>3, <2>4
  <2> QED  BY <2>2, <2>5, MainThread DEF AccessesBelongToRunningJob
<1>2. Spec => []IInv
  BY Invariant
<1> QED  BY <1>1, <1>2, PTL

LEMMA PausedFacts ==
    ASSUME OneThread, IInv, paused # {}
    PROVE  /\ Gpu(main) = <<>> /\ Fin(main) = <<>> /\ cache[main] = {}
           /\ \A a \in Analyzer : log[a] \o queue.fout = pushed
<1>1. PICK x \in Label : TypeOK /\ Doing(x)
  BY DEF IInv, GInv
<1>2. x.mode = "paused" /\ Matches(x)
  BY <1>1 DEF Doing, Matches, Calling
<1>3. Drained \subseteq x.empty
  BY <1>2 DEF Label
<1>4. ProtocolMode = "paused"
  BY <1>1, <1>2, Shows DEF Shown
<1>5. \A a \in Q!Analyzer : log[a] \o queue.fout = pushed
  BY <1>4, QueueAssumptions, Q!PausedDelivered DEF IInv
<1> QED  BY <1>2, <1>3, <1>5 DEF Matches, Empties, Drained, Analyzer, Q!Analyzer

\* When pause_and_drain_buffers() returns, and until the analysis is resumed, no packet is left
\* in a buffer before the queue and no dirty line in a filter cache, and every analyzer has
\* processed all that was pushed before the pause.
THEOREM PauseDrains == ASSUME OneThread PROVE Spec => []PausedMeansDrained
<1>1. IInv => PausedMeansDrained
  BY PausedFacts, MainThread DEF PausedMeansDrained
<1>2. Spec => []IInv
  BY Invariant
<1> QED  BY <1>1, <1>2, PTL

\* The swap that ends the process leaves nothing in a buffer of either stage and no dirty
\* line: every analyzer has processed the whole stream.
THEOREM StopIsComplete ==
    ASSUME OneThread
    PROVE  Spec => [](exited = "stop" =>
               /\ \A t \in App : Gpu(t) = <<>> /\ Fin(t) = <<>> /\ cache[t] = {}
               /\ \A a \in Analyzer : log[a] = pushed)
<1> DEFINE Whole == exited = "stop" =>
               /\ \A t \in App : Gpu(t) = <<>> /\ Fin(t) = <<>> /\ cache[t] = {}
               /\ \A a \in Analyzer : log[a] = pushed
<1>1. IInv => Whole
  <2> SUFFICES ASSUME IInv, exited = "stop" PROVE Whole
    OBVIOUS
  <2>1. PICK x \in Label : QueueTypeOK /\ Doing(x)
    BY DEF IInv, GInv
  <2>2. x.mode = "paused" /\ "fout" \in x.empty /\ Matches(x)
    BY <2>1 DEF Doing, Matches, Stopped
  <2>3. queue.fout = <<>> /\ paused # {}
    BY <2>2 DEF Matches, Empties, Calling
  <2>4. ASSUME NEW a \in Analyzer PROVE log[a] = pushed
    <3>1. log[a] \in Seq(Packet) /\ log[a] \o <<>> = pushed
      BY <2>1, <2>3, PausedFacts DEF QueueTypeOK
    <3> QED  BY <3>1
  <2> QED  BY <2>3, <2>4, PausedFacts, MainThread
<1>2. Spec => []IInv
  BY Invariant
<1> QED  BY <1>1, <1>2, PTL

\* The stream that reaches the analyzers has the job boundaries and the boundary markers in
\* the order of the calls, although the former go through two stages and the latter through one.
THEOREM ProgramOrderKept == ASSUME OneThread PROVE Spec => []StreamKeepsProgramOrder
<1>1. IInv /\ OrderInv => StreamKeepsProgramOrder
  <2> SUFFICES ASSUME IInv, OrderInv PROVE StreamKeepsProgramOrder
    OBVIOUS
  <2>1. PICK x \in Label : TypeOK /\ QueueTypeOK /\ Matches(x)
    BY DEF IInv, GInv, Doing
  <2>2. /\ Tail(pushed) \in Seq(AllPackets) /\ Rest \in Seq(AllPackets)
        /\ Gpu(main) \in Seq(AllPackets)
    BY <2>1, Flow DEF OrderInv
  <2>3. PICK s \in Seq(AllPackets) : s = OrderedOf(Tail(pushed))
    BY <2>2, OrderedType
  <2>4. PICK t \in Seq(AllPackets) : t = OrderedOf(Rest)
    BY <2>2, OrderedType
  <2>5. PICK u \in Seq(AllPackets) : u = OrderedOf(Gpu(main))
    BY <2>2, OrderedType
  <2>6. issued = (s \o t) \o u
    BY <2>3, <2>4, <2>5 DEF OrderInv
  <2>7. IsPrefix(s, (s \o t) \o u)
    <3> DEFINE w == (s \o t) \o u
    <3>1. /\ w \in Seq(AllPackets) /\ Len(s) \in Nat /\ Len(s) <= Len(w)
          /\ \A i \in 1 .. Len(s) : w[i] = s[i]
      OBVIOUS
    <3> HIDE DEF w
    <3>2. SubSeq(s, 1, Len(s)) = SubSeq(w, 1, Len(s))
      <4>1. /\ SubSeq(s, 1, Len(s)) \in Seq(AllPackets) /\ Len(SubSeq(s, 1, Len(s))) = Len(s)
            /\ \A i \in 1 .. Len(s) : SubSeq(s, 1, Len(s))[i] = s[i]
        OBVIOUS
      <4>2. /\ SubSeq(w, 1, Len(s)) \in Seq(AllPackets) /\ Len(SubSeq(w, 1, Len(s))) = Len(s)
            /\ \A i \in 1 .. Len(s) : SubSeq(w, 1, Len(s))[i] = w[i]
        BY <3>1
      <4> QED  BY <3>1, <4>1, <4>2, SameSequence
    <3> QED  BY <3>1, <3>2 DEF IsPrefix, w
  <2> QED  BY <2>3, <2>6, <2>7 DEF StreamKeepsProgramOrder
<1>2. Spec => []IInv
  BY Invariant
<1>3. Spec => []OrderInv
  BY OrderHolds
<1> QED  BY <1>1, <1>2, <1>3, PTL

\* The swap that ends the process loses nothing: both stages are empty, every analyzer has
\* processed the whole stream, and the stream has every job and boundary, in the order of the calls.
THEOREM NothingLost == ASSUME OneThread PROVE Spec => []StopLosesNothing
<1>1. IInv /\ OrderInv /\ (exited = "stop" =>
               /\ \A t \in App : Gpu(t) = <<>> /\ Fin(t) = <<>> /\ cache[t] = {}
               /\ \A a \in Analyzer : log[a] = pushed) => StopLosesNothing
  <2> SUFFICES ASSUME IInv, OrderInv, exited = "stop",
                      \A t \in App : Gpu(t) = <<>> /\ Fin(t) = <<>> /\ cache[t] = {},
                      \A a \in Analyzer : log[a] = pushed
               PROVE  Complete
    BY DEF StopLosesNothing
  <2>1. PICK x \in Label : TypeOK /\ QueueTypeOK /\ Matches(x)
    BY DEF IInv, GInv, Doing
  <2>2. Gpu(main) = <<>> /\ Fin(main) = <<>>
    BY MainThread
  <2>3. Tail(pushed) \in Seq(AllPackets) /\ Left \in 0 .. Len(Fin(main))
    BY <2>1, Flow DEF OrderInv
  <2>4. Rest = <<>>
    <3>1. Len(<<>>) = 0 /\ SubSeq(<<>>, 1, 0) = <<>>
      OBVIOUS
    <3>2. Left = 0
      BY <2>2, <2>3, <3>1
    <3> QED  BY <2>2, <3>1, <3>2 DEF Rest
  <2>5. PICK s \in Seq(AllPackets) : s = OrderedOf(Tail(pushed))
    BY <2>3, OrderedType
  <2>6. issued = (s \o <<>>) \o <<>>
    BY <2>2, <2>4, <2>5, OrderedNone DEF OrderInv
  <2>7. (s \o <<>>) \o <<>> = s
    OBVIOUS
  <2> QED  BY <2>5, <2>6, <2>7 DEF Complete
<1>2. Spec => []IInv
  BY Invariant
<1>3. Spec => []OrderInv
  BY OrderHolds
<1> QED  BY <1>1, <1>2, <1>3, StopIsComplete, PTL

\* The protocol of the proofs and the one of the properties are the same.
LEMMA SameProtocol ==
    /\ Q!Init <=> Protocol!Init
    /\ Q!Next <=> Protocol!Next
    /\ Q!protocolVars = Protocol!protocolVars
<1>1. Q!Init <=> Protocol!Init
  BY DEF Q!Init, Protocol!Init, Q!QueueInit, Protocol!QueueInit, Q!Constructed, Protocol!Constructed,
     Q!AfterSync, Protocol!AfterSync, Q!WorkPosted, Protocol!WorkPosted,
     Q!WorkItems, Protocol!WorkItems, Q!Stored, Protocol!Stored, Q!Rotated, Protocol!Rotated,
     Q!Analyzer, Protocol!Analyzer
<1>2. ASSUME NEW w \in Worker PROVE Q!WorkerStep(w) <=> Protocol!WorkerStep(w)
  BY DEF Q!WorkerStep, Protocol!WorkerStep, Q!Wake, Protocol!Wake, Q!PopEmpty, Protocol!PopEmpty,
     Q!Pop, Protocol!Pop, Q!Process, Protocol!Process, Q!HasPacket, Protocol!HasPacket,
     Q!NextPacket, Protocol!NextPacket, Q!SignalProducer, Protocol!SignalProducer,
     Q!NoMoreJobs, Protocol!NoMoreJobs
<1>3. ASSUME NEW t, NEW pkt PROVE Q!Push(t, pkt) <=> Protocol!Push(t, pkt)
  BY DEF Q!Push, Protocol!Push, Q!Stored, Protocol!Stored, Q!Fills, Protocol!Fills
<1>4. ASSUME NEW t PROVE Q!HandOver(t) <=> Protocol!HandOver(t)
  BY DEF Q!HandOver, Protocol!HandOver, Q!AllDone, Protocol!AllDone, Q!Cleared, Protocol!Cleared,
     Q!AllHaveWork, Protocol!AllHaveWork, Q!WorkPosted, Protocol!WorkPosted,
     Q!WorkItems, Protocol!WorkItems, Q!Analyzer, Protocol!Analyzer, Q!Rotated, Protocol!Rotated
<1>5. ASSUME NEW t PROVE /\ Q!WaitBegin(t) <=> Protocol!WaitBegin(t)
                         /\ Q!WaitEnd(t) <=> Protocol!WaitEnd(t)
  BY DEF Q!WaitBegin, Protocol!WaitBegin, Q!WaitEnd, Protocol!WaitEnd, Q!AllDone, Protocol!AllDone,
     Q!Cleared, Protocol!Cleared
<1>6. /\ Q!Rotate <=> Protocol!Rotate
      /\ Q!Start <=> Protocol!Start
      /\ Q!MayPush <=> Protocol!MayPush
  BY DEF Q!Rotate, Protocol!Rotate, Q!Rotated, Protocol!Rotated, Q!Start, Protocol!Start,
     Q!AllHaveWork, Protocol!AllHaveWork, Q!WorkPosted, Protocol!WorkPosted,
     Q!WorkItems, Protocol!WorkItems, Q!Analyzer, Protocol!Analyzer, Q!MayPush, Protocol!MayPush
<1>7. ASSUME NEW pkt PROVE Q!ProcessAll(pkt) <=> Protocol!ProcessAll(pkt)
  BY DEF Q!ProcessAll, Protocol!ProcessAll, Q!Analyzer, Protocol!Analyzer
<1>8. Q!Fills(queue) <=> Protocol!Fills(queue)
  BY DEF Q!Fills, Protocol!Fills
<1>9. Q!Next <=> Protocol!Next
  <2>1. (\E w \in Worker : Q!WorkerStep(w) /\ UNCHANGED ProtocolMode)
          <=> (\E w \in Worker : Protocol!WorkerStep(w) /\ UNCHANGED ProtocolMode)
    BY <1>2
  <2>2. Q!PushRunning <=> Protocol!PushRunning
    BY <1>3, <1>6 DEF Q!PushRunning, Protocol!PushRunning
  <2>3. Q!HandOverFull <=> Protocol!HandOverFull
    BY <1>4, <1>8 DEF Q!HandOverFull, Protocol!HandOverFull
  <2>4. Q!WaitBack <=> Protocol!WaitBack
    BY <1>5, <1>8 DEF Q!WaitBack, Protocol!WaitBack
  <2>5. Q!RotateBack <=> Protocol!RotateBack
    BY <1>6 DEF Q!RotateBack, Protocol!RotateBack
  <2>6. Q!StartDrain <=> Protocol!StartDrain
    BY <1>6 DEF Q!StartDrain, Protocol!StartDrain
  <2>7. Q!WaitFront <=> Protocol!WaitFront
    BY <1>5 DEF Q!WaitFront, Protocol!WaitFront
  <2>8. Q!RotateFront <=> Protocol!RotateFront
    BY <1>6 DEF Q!RotateFront, Protocol!RotateFront
  <2>9. Q!PushPaused <=> Protocol!PushPaused
    BY <1>3, <1>6 DEF Q!PushPaused, Protocol!PushPaused
  <2>10. Q!BypassPaused <=> Protocol!BypassPaused
    BY <1>6, <1>7 DEF Q!BypassPaused, Protocol!BypassPaused
  <2>11. Q!Resume <=> Protocol!Resume
    BY <1>6 DEF Q!Resume, Protocol!Resume
  <2>12. Q!Aborted <=> Protocol!Aborted
    BY DEF Q!Aborted, Protocol!Aborted, Q!Asserts, Protocol!Asserts, Q!HasPacket,
       Protocol!HasPacket, Q!NextPacket, Protocol!NextPacket, Q!protocolVars,
       Protocol!protocolVars, Q!queueVars, Protocol!queueVars
  <2> QED  BY <2>1, <2>2, <2>3, <2>4, <2>5, <2>6, <2>7, <2>8, <2>9, <2>10, <2>11, <2>12
              DEF Q!Next, Protocol!Next
<1>10. Q!protocolVars = Protocol!protocolVars
  BY DEF Q!protocolVars, Protocol!protocolVars, Q!queueVars, Protocol!queueVars
<1> QED  BY <1>1, <1>9, <1>10

\* The handlers call the analysis queue as QueueProtocol demands: they never push into a full
\* buffer, rotate or start while a work thread may be awake, nor bypass the queue with packets
\* still in it.
THEOREM ProtocolFollowed == ASSUME OneThread PROVE Spec => FollowsProtocol
<1>1. Init => Protocol!Init
  BY InitIsQueueInit, SameProtocol
<1>2. IInv /\ [Next]_vars => [Protocol!Next]_(Protocol!protocolVars)
  <2> SUFFICES ASSUME IInv, [Next]_vars PROVE [Protocol!Next]_(Protocol!protocolVars)
    OBVIOUS
  <2>1. Q!Next \/ UNCHANGED Q!protocolVars
    BY NextFollows DEF IInv, Advances, Follows
  <2>2. UNCHANGED Q!protocolVars => UNCHANGED Protocol!protocolVars
    BY DEF Q!protocolVars, Protocol!protocolVars, Q!queueVars, Protocol!queueVars
  <2> QED  BY <2>1, <2>2, SameProtocol
<1>3. Spec => []IInv
  BY Invariant
<1> QED  BY <1>1, <1>2, <1>3, PTL DEF Spec, FollowsProtocol, Protocol!Spec

\* From the call of a handler to an analyzer: each analyzer processes what the generator
\* handed to the analysis stage, once, in order, and never a packet ahead of it.
THEOREM AnalyzersGetTheStream == ASSUME OneThread PROVE Spec => Q!DeliversInOrder
<1>1. IInv /\ [Next]_vars => [Q!Next]_(Q!protocolVars)
  BY NextFollows DEF IInv, Advances, Follows
<1>2. Init => Q!Init
  BY InitIsQueueInit
<1>3. Spec => []IInv
  BY Invariant
<1>4. Spec => Q!Spec
  BY <1>1, <1>2, <1>3, PTL DEF Spec, Q!Spec
<1>5. Q!Spec => Q!DeliversInOrder
  BY Q!Delivery, QueueAssumptions
<1> QED  BY <1>4, <1>5, PTL
=============================================================================
