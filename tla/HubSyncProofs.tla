--------------------------- MODULE HubSyncProofs ---------------------------
(***************************************************************************)
(* Proofs about HubSync for any requests, robots, runs, tasks, plans,      *)
(* Actions and Hub objects.                                                *)
(***************************************************************************)
EXTENDS HubSync, TLAPS, SequenceTheorems, FiniteSetTheorems, WellFoundedInduction

-----------------------------------------------------------------------------
\* Recursive definitions and sequences

\* Induction over the numbers, for a set: no operator to instantiate.
LEMMA SetInduction ==
  ASSUME NEW S, 0 \in S, \A n \in Nat : n \in S => n + 1 \in S
  PROVE  Nat \subseteq S
<1>1. IsWellFoundedOn(OpToRel(<, Nat), Nat)
  BY NatLessThanWellFounded
<1>2. SUFFICES ASSUME Nat \ S # {}
               PROVE  FALSE
  OBVIOUS
<1>3. PICK x \in Nat \ S : \A y \in Nat \ S : <<y, x>> \notin OpToRel(<, Nat)
  BY <1>1, <1>2, WFMin
<1>4. x \in Nat /\ x # 0 /\ x - 1 \in Nat
  OBVIOUS
<1>5. x - 1 \in Nat \ S
  BY <1>4
<1>6. <<x - 1, x>> \in OpToRel(<, Nat)
  <2>1. <<x - 1, x>> \in {ss \in Nat \X Nat : ss[1] < ss[2]}
    BY <1>4
  <2> QED
    BY <2>1 DEF OpToRel
<1> QED
  BY <1>3, <1>5, <1>6


\* f[i] comes from f[i - 1] by next.
Iterates(f, n, base, next) ==
  f[0] = base /\ \A i \in 1..n : f[i] = next[<<i, f[i - 1]>>]

\* A recursive definition over an interval defines a function.
LEMMA Recursion ==
  ASSUME NEW n \in Nat, NEW T, NEW base \in T, NEW next \in [(1..n) \X T -> T]
  PROVE  \E f \in [0..n -> T] : Iterates(f, n, base, next)
<1> DEFINE Good == {d \in Nat : d <= n => \E f \in [0..d -> T] : Iterates(f, d, base, next)}
<1>1. 0 \in Good
  <2>1. [i \in 0..0 |-> base] \in [0..0 -> T] /\ Iterates([i \in 0..0 |-> base], 0, base, next)
    BY DEF Iterates
  <2>2. QED
    BY <2>1
<1>2. ASSUME NEW d \in Nat, d \in Good
      PROVE  d + 1 \in Good
  <2> SUFFICES ASSUME d + 1 <= n
               PROVE  \E f \in [0..(d + 1) -> T] : Iterates(f, d + 1, base, next)
    OBVIOUS
  <2>1. PICK g \in [0..d -> T] : Iterates(g, d, base, next)
    BY <1>2
  <2> DEFINE h == [i \in 0..(d + 1) |-> IF i <= d THEN g[i] ELSE next[<<d + 1, g[d]>>]]
  <2>2. <<d + 1, g[d]>> \in (1..n) \X T
    OBVIOUS
  <2>3. h \in [0..(d + 1) -> T]
    BY <2>2
  <2>4. h[0] = base
    BY <2>1 DEF Iterates
  <2>5. ASSUME NEW i \in 1..(d + 1)
        PROVE  h[i] = next[<<i, h[i - 1]>>]
    <3>1. h[i - 1] = g[i - 1]
      OBVIOUS
    <3>2. CASE i <= d
      BY <2>1, <3>1, <3>2 DEF Iterates
    <3>3. CASE i = d + 1
      <4>1. i - 1 = d /\ ~(i <= d)
        BY <3>3
      <4>2. h[i] = next[<<i, g[d]>>] /\ h[i - 1] = g[d]
        BY <3>1, <3>3, <4>1
      <4>3. QED
        BY <4>2
    <3>4. QED
      BY <3>2, <3>3
  <2> HIDE DEF h
  <2>6. QED
    BY <2>3, <2>4, <2>5 DEF Iterates
<1>3. n \in Good
  <2> HIDE DEF Good
  <2>1. QED
    BY <1>1, <1>2, SetInduction
<1>4. QED
  BY <1>3

\* Sequences of a set, put one after the other, are a sequence of that set.
LEMMA FlattenType ==
  ASSUME NEW S, NEW seqs \in Seq(Seq(S))
  PROVE  FlattenSeq(seqs) \in Seq(S)
<1> DEFINE n == Len(seqs)
<1>1. n \in Nat /\ n = Len(seqs) /\ \A i \in 1..n : seqs[i] \in Seq(S)
  OBVIOUS
<1>2. CASE n = 0
  <2>0. Len(seqs) = 0 /\ seqs \in Seq(S)
    BY <1>2
  <2>1. FlattenSeq(seqs) = seqs
    BY <2>0, Zenon DEF FlattenSeq
  <2>2. QED
    BY <2>0, <2>1
<1>3. CASE n # 0
  <2> DEFINE next == [p \in (1..n) \X Seq(S) |-> p[2] \o seqs[p[1]]]
             Body(x) == [i \in 1..n |-> IF i = 1 THEN seqs[i] ELSE x[i - 1] \o seqs[i]]
             flatten == CHOOSE x : x = Body(x)
  <2>1. next \in [(1..n) \X Seq(S) -> Seq(S)] /\ <<>> \in Seq(S)
    BY <1>1, ConcatProperties
  <2>0. n \in Nat /\ \A x \in Seq(S), i \in 1..n : next[<<i, x>>] = x \o seqs[i]
    BY <1>1
  <2> HIDE DEF next, n
  <2>2. PICK f \in [0..n -> Seq(S)] :
          Iterates(f, n, <<>>, next)
    BY <2>0, <2>1, Recursion
  <2>3. \A i \in 1..n : f[i] = f[i - 1] \o seqs[i]
    <3>1. \A i \in 1..n : i - 1 \in 0..n
      BY <2>0
    <3>2. QED
      BY <2>0, <2>2, <3>1 DEF Iterates
  <2>4. f[1] = seqs[1]
    <3>1. 1 \in 1..n /\ f[0] = <<>> /\ 1 - 1 = 0
      BY <1>1, <1>3, <2>2 DEF Iterates, n
    <3>2. seqs[1] \in Seq(S) /\ f[1] = <<>> \o seqs[1]
      BY <1>1, <2>3, <3>1 DEF n
    <3>3. QED
      BY <3>2
  <2> DEFINE g == [i \in 1..n |-> f[i]]
  <2>5. \A i \in 1..n : g[i] = IF i = 1 THEN seqs[i] ELSE g[i - 1] \o seqs[i]
    <3>1. ASSUME NEW i \in 1..n, i # 1
          PROVE  g[i] = g[i - 1] \o seqs[i]
      <4>1. i - 1 \in 1..n
        BY <2>0, <3>1
      <4>2. QED
        BY <2>3, <4>1
    <3>2. QED
      BY <2>4, <3>1
  <2>6. g = Body(g)
    BY <2>5
  <2>7. flatten = Body(flatten)
    <3> HIDE DEF Body, g
    <3>1. QED
      BY <2>6
  <2>8. FlattenSeq(seqs) = flatten[n]
    BY <1>1, <1>3, Zenon DEF FlattenSeq, n
  <2> HIDE DEF flatten
  <2>9. \A i \in 1..n : flatten[i] = IF i = 1 THEN seqs[i] ELSE flatten[i - 1] \o seqs[i]
    BY <2>7
  <2> DEFINE Good == {d \in Nat : d + 1 <= n => flatten[d + 1] \in Seq(S)}
  <2>10. 0 \in Good
    BY <1>1, <1>3, <2>9
  <2>11. ASSUME NEW d \in Nat, d \in Good
         PROVE  d + 1 \in Good
    <3>1. ASSUME d + 2 <= n
          PROVE  flatten[d + 2] \in Seq(S)
      <4>1. flatten[d + 2] = flatten[d + 1] \o seqs[d + 2]
        <5>1. d + 2 \in 1..n /\ d + 2 # 1 /\ (d + 2) - 1 = d + 1
          BY <2>0, <3>1
        <5>2. QED
          BY <2>9, <5>1
      <4>2. flatten[d + 1] \in Seq(S) /\ seqs[d + 2] \in Seq(S)
        BY <1>1, <2>11, <3>1
      <4>3. QED
        BY <4>1, <4>2, ConcatProperties
    <3>2. QED
      BY <3>1
  <2>12. n - 1 \in Good
    <3>1. n - 1 \in Nat
      BY <2>0, <1>3
    <3> HIDE DEF Good
    <3>2. Nat \subseteq Good
      BY <2>10, <2>11, SetInduction
    <3>3. QED
      BY <3>1, <3>2
  <2>13. QED
    BY <1>1, <1>3, <2>8, <2>12
<1>4. QED
  BY <1>2, <1>3

\* The elements of a finite set in some order.
LEMMA OrderedSet ==
  ASSUME NEW S, IsFiniteSet(S)
  PROVE  /\ SetToSeq(S) \in [1..Cardinality(S) -> S] /\ Cardinality(S) \in Nat
         /\ SetToSeq(S) \in Seq(S)
<1>1. Cardinality(S) \in Nat
  BY FS_CardinalityType
<1>2. PICK f : f \in Bijection(1..Cardinality(S), S)
  BY <1>1, FS_CardinalityType DEF ExistsBijection
<1>3. f \in [1..Cardinality(S) -> S] /\ IsInjective(f)
  BY <1>2 DEF Bijection, Injection, IsInjective
<1>4. SetToSeq(S) \in [1..Cardinality(S) -> S]
  BY <1>3 DEF SetToSeq
<1>5. SetToSeq(S) \in Seq(S)
  BY <1>1, <1>4
<1>6. QED
  BY <1>1, <1>4, <1>5

\* The steps of a sequence.
Elems(q) == {q[i] : i \in DOMAIN q}

LEMMA ElemsConcat ==
  ASSUME NEW S, NEW p \in Seq(S), NEW q \in Seq(S)
  PROVE  Elems(p \o q) = Elems(p) \cup Elems(q)
<1>1. /\ DOMAIN p = 1..Len(p) /\ DOMAIN q = 1..Len(q) /\ Len(p) \in Nat /\ Len(q) \in Nat
      /\ DOMAIN (p \o q) = 1..(Len(p) + Len(q))
      /\ \A i \in 1..(Len(p) + Len(q)) :
           (p \o q)[i] = IF i <= Len(p) THEN p[i] ELSE q[i - Len(p)]
  OBVIOUS
<1>2. ASSUME NEW x \in Elems(p \o q)
      PROVE  x \in Elems(p) \cup Elems(q)
  <2>1. PICK i \in 1..(Len(p) + Len(q)) : x = (p \o q)[i]
    BY <1>1, <1>2 DEF Elems
  <2>2. CASE i <= Len(p)
    BY <1>1, <2>1, <2>2 DEF Elems
  <2>3. CASE ~(i <= Len(p))
    <3>1. i - Len(p) \in 1..Len(q)
      BY <1>1, <2>3
    <3>2. QED
      BY <1>1, <2>1, <2>3, <3>1 DEF Elems
  <2>4. QED
    BY <2>2, <2>3
<1>3. ASSUME NEW x \in Elems(p)
      PROVE  x \in Elems(p \o q)
  <2>1. PICK i \in 1..Len(p) : x = p[i]
    BY <1>1 DEF Elems
  <2>2. i \in 1..(Len(p) + Len(q)) /\ (p \o q)[i] = x
    BY <1>1, <2>1
  <2>3. QED
    BY <1>1, <2>2 DEF Elems
<1>4. ASSUME NEW x \in Elems(q)
      PROVE  x \in Elems(p \o q)
  <2>1. PICK i \in 1..Len(q) : x = q[i]
    BY <1>1 DEF Elems
  <2>2. Len(p) + i \in 1..(Len(p) + Len(q)) /\ (p \o q)[Len(p) + i] = x
    BY <1>1, <2>1
  <2>3. QED
    BY <1>1, <2>2 DEF Elems
<1>5. QED
  BY <1>2, <1>3, <1>4

LEMMA ElemsTail ==
  ASSUME NEW S, NEW q \in Seq(S), q # <<>>
  PROVE  /\ Tail(q) \in Seq(S) /\ Head(q) \in Elems(q) /\ Head(q) = q[1]
         /\ Elems(q) = {Head(q)} \cup Elems(Tail(q))
<1>1. /\ DOMAIN q = 1..Len(q) /\ Len(q) \in Nat \ {0} /\ Head(q) = q[1]
      /\ Tail(q) \in Seq(S) /\ DOMAIN Tail(q) = 1..(Len(q) - 1)
      /\ \A i \in 1..(Len(q) - 1) : Tail(q)[i] = q[i + 1]
  OBVIOUS
<1>2. Head(q) \in Elems(q)
  BY <1>1 DEF Elems
<1>3. ASSUME NEW x \in Elems(Tail(q))
      PROVE  x \in Elems(q)
  <2>1. PICK i \in 1..(Len(q) - 1) : x = q[i + 1]
    BY <1>1 DEF Elems
  <2>2. i + 1 \in 1..Len(q)
    BY <1>1
  <2>3. QED
    BY <1>1, <2>1, <2>2 DEF Elems
<1>4. ASSUME NEW x \in Elems(q), x # Head(q)
      PROVE  x \in Elems(Tail(q))
  <2>1. PICK i \in 1..Len(q) : x = q[i]
    BY <1>1 DEF Elems
  <2>2. i - 1 \in 1..(Len(q) - 1) /\ q[(i - 1) + 1] = x
    BY <1>1, <1>4, <2>1
  <2>3. QED
    BY <1>1, <2>2 DEF Elems
<1>5. QED
  BY <1>1, <1>2, <1>3, <1>4

\* The elements of sequences written out.
LEMMA ElemsOf ==
  /\ Elems(<<>>) = {}
  /\ \A a : Elems(<<a>>) = {a}
  /\ \A a, b : Elems(<<a, b>>) = {a, b}
  /\ \A a, b, c, d : Elems(<<a, b, c, d>>) = {a, b, c, d}
<1>1. Elems(<<>>) = {}
  BY DEF Elems
<1>2. ASSUME NEW a
      PROVE  Elems(<<a>>) = {a}
  <2>1. DOMAIN <<a>> = {1} /\ <<a>>[1] = a
    OBVIOUS
  <2>2. QED
    BY <2>1 DEF Elems
<1>3. ASSUME NEW a, NEW b
      PROVE  Elems(<<a, b>>) = {a, b}
  <2>1. DOMAIN <<a, b>> = {1, 2} /\ <<a, b>>[1] = a /\ <<a, b>>[2] = b
    OBVIOUS
  <2>2. QED
    BY <2>1 DEF Elems
<1>4. ASSUME NEW a, NEW b, NEW c, NEW d
      PROVE  Elems(<<a, b, c, d>>) = {a, b, c, d}
  <2>1. /\ DOMAIN <<a, b, c, d>> = {1, 2, 3, 4}
        /\ <<a, b, c, d>>[1] = a /\ <<a, b, c, d>>[2] = b
        /\ <<a, b, c, d>>[3] = c /\ <<a, b, c, d>>[4] = d
    OBVIOUS
  <2>2. QED
    BY <2>1 DEF Elems
<1>5. QED
  BY <1>1, <1>2, <1>3, <1>4

-----------------------------------------------------------------------------
\* The invariant: order of the steps, and what they, the answers, the table and the Hub refer to

\* A call works for objects of higher ranks.
Rank(o) ==
  CASE Kind(o) = "scene" -> 1
    [] Kind(o) = "entity" -> 2
    [] Kind(o) = "run" -> 3
    [] Kind(o) = "task" -> 4
    [] Kind(o) = "trace" -> 5
    [] Kind(o) = "plan" -> 6
    [] OTHER -> 7

IsQuery(o) == Kind(o) = "action" /\ Id(o) \in Queries

\* A step b may wait for a to be done: b enters another object, or a is done for b's object.
Below(a, b) ==
  /\ b.op \notin {"find", "store"} /\ Kind(b.obj) # "trace"
  /\ \/ b.op = "enter"
     \/ Rank(a.obj) < Rank(b.obj)
     \/ (a.op \in {"keep", "robot"} /\ a.obj = b.obj)

Nest(q) == \A i, j \in DOMAIN q : i < j => Below(q[i], q[j])

\* The Hub has made n for o.
IsOf(n, o) == n \in HubIds /\ hub[n].of = o

MadeFor(theHub, n, o) == n \in 1..Len(theHub) /\ theHub[n].of = o

StepFits(st) ==
  /\ st.op = "enter" => st.saw = None
  /\ st.op = "find" => st.obj = Scenario /\ st.saw \in Nat
  /\ st.op = "check" => /\ Kind(st.obj) \in {"task", "plan", "action"} /\ ~IsQuery(st.obj)
                        /\ st.saw # None => /\ IsOf(st.saw, st.obj)
                                            /\ <<st.obj, None>> \in DOMAIN map
  /\ st.op \in {"keep", "robot"} => Kind(st.obj) = "action"
  /\ st.op = "post" => ~IsQuery(st.obj) /\ (Kind(st.obj) = "scene" => st.saw \in Nat)
  /\ st.op = "store" => ~IsQuery(st.obj) /\ IsOf(st.saw, st.obj)

StepsFit == \A s \in Syncs : Nest(todo[s]) /\ \A st \in Elems(todo[s]) : StepFits(st)

\* The task of the Action a, and the task a request has kept for it.
TaskFor(a) == Task(NamedTask[Id(a)])
HasTask(s, a) ==
  \/ \E st \in Elems(todo[s]) : st.op = "keep" /\ st.obj = a
  \/ got[s][a] = None
  \/ IsOf(got[s][a], TaskFor(a))

GotFits ==
  \A s \in Syncs :
    /\ \A o \in Objects : got[s][o] = Skipped => IsQuery(o)
    /\ \A o \in Objects : got[s][o] > 0 /\ Kind(o) # "action" => IsOf(got[s][o], o)
    /\ todo[s] # <<>> /\ Kind(Obj(s)) = "trace" => got[s][Task(Id(Obj(s)))] > 0
    /\ Doing(s, "store") /\ Kind(Obj(s)) = "entity" => hub[Saw(s)].scene = got[s][Scenario]
    /\ \A st \in Elems(todo[s]) :
         st.op \in {"check", "robot", "post"} /\ Kind(st.obj) = "action" => HasTask(s, st.obj)

MapFits ==
  \A k \in DOMAIN map : /\ Kind(k[1]) # "entity" => k[2] = None
                        /\ map[k] = Skipped <=> IsQuery(k[1])

HubFits ==
  \A n \in HubIds :
    /\ Kind(hub[n].of) \in {"trace", "plan", "action"} => hub[n].task \in HubIds
    /\ Kind(hub[n].of) = "action" => hub[n].plan \in HubIds /\ hub[n].entity \in HubIds

\* A request runs from its beginning to its answer.
Phases ==
  \A s \in Syncs : /\ todo[s] # <<>> <=> asked[s] # NoRequest /\ result[s] = "none"
                   /\ asked[s] = NoRequest => result[s] = "none"
                   /\ asked[s] # NoRequest => at[s] > 0
                   /\ \A r \in before[s] : result[r] # "none"

SyncInv ==
  TypeOK /\ Phases /\ StepsFit /\ GotFits /\ MapFits /\ HubFits /\ IdsAreOwn

\* What a request was to bring to the Hub is mapped, or s will still see to it.
HasMapping(o) == \E k \in DOMAIN map : k[1] = o
Awaits(s, o) == \E st \in Elems(todo[s]) : st.obj = o /\ st.op \notin {"keep", "robot"}
Covered(s, o) == HasMapping(o) \/ Awaits(s, o)
Enters(s, o) == Enter(o) \in Elems(todo[s])

CoverInv ==
  \A s \in Syncs : asked[s] # NoRequest /\ result[s] # "error" =>
    \A o \in Meant(asked[s]) :
      /\ Covered(s, o)
      /\ Kind(o) = "task" => /\ Covered(s, Run(RunOf[Id(o)])) \/ Enters(s, o)
                             /\ Covered(s, Trace(Id(o))) \/ Awaits(s, o)
      /\ Kind(o) = "plan" => Covered(s, Task(TaskOf[Id(o)])) \/ Enters(s, o)
      /\ Kind(o) = "action" /\ Id(o) \notin Queries =>
           Covered(s, Plan(PlanOf[Id(o)])) \/ Enters(s, o)

\* What a request has made is mapped unless it failed or is about to store it; an object that
\* s or one that ended well before s has made, s does not post.
Mine(s, x) == hub[x].by = s \/ (hub[x].by \in before[s] /\ result[hub[x].by] = "ok")
Unlost(o) == \A n \in 1..lost : hub[n].of # o

MadeInv ==
  \A x \in HubIds : Kind(hub[x].of) \notin Single =>
    /\ asked[hub[x].by] # NoRequest
    /\ \/ <<hub[x].of, None>> \in DOMAIN map
       \/ result[hub[x].by] = "error"
       \/ todo[hub[x].by] # <<>> /\ Head(todo[hub[x].by]) = Step("store", hub[x].of, x)

RepeatInv ==
  \A s \in Syncs : ~Forced(s) =>
    \A st \in Elems(todo[s]) :
      Kind(st.obj) \notin Single /\ st.op \in {"check", "post"} /\ Unlost(st.obj) =>
        \A x \in HubIds : hub[x].of = st.obj /\ Mine(s, x) => st.op = "check" /\ st.saw # None

\* The versions s works with, and a scenario that is mapped to the current one.
NameInv ==
  \A s \in Syncs : \A st \in Elems(todo[s]) :
    /\ st.op \in {"find", "post"} /\ st.obj = Scenario => st.saw \in at[s]..version
    /\ st.op = "store" /\ st.obj = Scenario => hub[st.saw].name \in at[s]..version

Sole(s) ==
  /\ at[s] = version
  /\ \A r \in Syncs : asked[r] # NoRequest /\ at[r] < version => r \in before[s]
Named == KeyOf(Scenario, None) \in DOMAIN map /\ hub[map[KeyOf(Scenario, None)]].name = version

SceneInv ==
  \A s \in Syncs :
    /\ asked[s] # NoRequest /\ result[s] # "error" /\ Sole(s)
    /\ asked[s].what \in {"scene", "entities", "publish"}
    => Named \/ Awaits(s, Scenario)

-----------------------------------------------------------------------------
\* Objects and requests

LEMMA ObjectKinds ==
  /\ Scenario \in Objects /\ Kind(Scenario) = "scene"
  /\ \A r \in Robots : Entity(r) \in Objects /\ Kind(Entity(r)) = "entity" /\ Id(Entity(r)) = r
  /\ \A n \in Runs : Run(n) \in Objects /\ Kind(Run(n)) = "run" /\ Id(Run(n)) = n
  /\ \A t \in Tasks : /\ Task(t) \in Objects /\ Kind(Task(t)) = "task" /\ Id(Task(t)) = t
                      /\ Trace(t) \in Objects /\ Kind(Trace(t)) = "trace" /\ Id(Trace(t)) = t
  /\ \A p \in Plans : Plan(p) \in Objects /\ Kind(Plan(p)) = "plan" /\ Id(Plan(p)) = p
  /\ \A a \in Actions : Action(a) \in Objects /\ Kind(Action(a)) = "action" /\ Id(Action(a)) = a
BY DEF Objects, Scenario, Entity, Run, Task, Trace, Plan, Action, Kind, Id

LEMMA KindsOfObjects ==
  ASSUME NEW o \in Objects
  PROVE  /\ Kind(o) \in {"scene", "entity", "run", "task", "trace", "plan", "action"}
         /\ Kind(o) = "scene" => o = Scenario
         /\ Kind(o) = "entity" => Id(o) \in Robots /\ o = Entity(Id(o))
         /\ Kind(o) = "run" => Id(o) \in Runs /\ o = Run(Id(o))
         /\ Kind(o) = "task" => Id(o) \in Tasks /\ o = Task(Id(o))
         /\ Kind(o) = "trace" => Id(o) \in Tasks /\ o = Trace(Id(o))
         /\ Kind(o) = "plan" => Id(o) \in Plans /\ o = Plan(Id(o))
         /\ Kind(o) = "action" => Id(o) \in Actions /\ o = Action(Id(o))
<1>1. CASE o = Scenario
  BY <1>1 DEF Scenario, Kind
<1>2. CASE o \in {"entity"} \X Robots
  BY <1>2 DEF Entity, Kind, Id
<1>3. CASE o \in {"run"} \X Runs
  BY <1>3 DEF Run, Kind, Id
<1>4. CASE o \in {"task", "trace"} \X Tasks
  BY <1>4 DEF Task, Trace, Kind, Id
<1>5. CASE o \in {"plan"} \X Plans
  BY <1>5 DEF Plan, Kind, Id
<1>6. CASE o \in {"action"} \X Actions
  BY <1>6 DEF Action, Kind, Id
<1>7. QED
  BY <1>1, <1>2, <1>3, <1>4, <1>5, <1>6 DEF Objects

\* What an object depends on.
LEMMA Parents ==
  ASSUME NEW o \in Objects
  PROVE  /\ Kind(o) = "task" => /\ Run(RunOf[Id(o)]) \in Objects
                                /\ Kind(Run(RunOf[Id(o)])) = "run"
                                /\ Trace(Id(o)) \in Objects /\ Kind(Trace(Id(o))) = "trace"
                                /\ Id(Trace(Id(o))) = Id(o)
         /\ Kind(o) = "trace" => Task(Id(o)) \in Objects /\ Kind(Task(Id(o))) = "task"
         /\ Kind(o) = "plan" => /\ Task(TaskOf[Id(o)]) \in Objects
                                /\ Kind(Task(TaskOf[Id(o)])) = "task"
         /\ Kind(o) = "action" =>
              /\ TaskFor(o) \in Objects /\ Kind(TaskFor(o)) = "task"
              /\ Plan(PlanOf[Id(o)]) \in Objects /\ Kind(Plan(PlanOf[Id(o)])) = "plan"
              /\ Entity(RobotOf[Id(o)]) \in Objects /\ Kind(Entity(RobotOf[Id(o)])) = "entity"
<1>1. Kind(o) = "task" => Id(o) \in Tasks /\ RunOf[Id(o)] \in Runs
  BY KindsOfObjects, SyncAssumption
<1>2. Kind(o) = "trace" => Id(o) \in Tasks
  BY KindsOfObjects
<1>3. Kind(o) = "plan" => Id(o) \in Plans /\ TaskOf[Id(o)] \in Tasks
  BY KindsOfObjects, SyncAssumption
<1>4. Kind(o) = "action" => /\ PlanOf[Id(o)] \in Plans /\ NamedTask[Id(o)] \in Tasks
                            /\ RobotOf[Id(o)] \in Robots
  BY KindsOfObjects, SyncAssumption
<1>5. QED
  BY <1>1, <1>2, <1>3, <1>4, ObjectKinds DEF TaskFor

\* Steps that enter objects other than traces: what a request begins with.
EnterSteps == {Enter(o) : o \in {p \in Objects : Kind(p) # "trace"}}

LEMMA EnterStepsFit ==
  ASSUME NEW st \in EnterSteps
  PROVE  /\ st \in Steps /\ st.op = "enter" /\ st.obj \in Objects /\ Kind(st.obj) # "trace"
         /\ st.saw = None /\ st = Enter(st.obj)
<1>1. PICK o \in Objects : Kind(o) # "trace" /\ st = Enter(o)
  BY DEF EnterSteps
<1>2. /\ Enter(o) = [op |-> "enter", obj |-> o, saw |-> 0]
      /\ Enter(o).op = "enter" /\ Enter(o).obj = o /\ Enter(o).saw = None
  BY DEF Enter, Step, None
<1>3. Enter(o) \in Steps
  BY <1>2 DEF Steps
<1>4. QED
  BY <1>1, <1>2, <1>3

\* The order of a set takes each of its elements once.
LEMMA InjectiveOrder ==
  ASSUME NEW S, IsFiniteSet(S)
  PROVE  Cardinality(S) \in Nat /\ SetToSeq(S) \in Injection(1..Cardinality(S), S)
<1>1. Cardinality(S) \in Nat
  BY FS_CardinalityType
<1>2. PICK f : f \in Bijection(1..Cardinality(S), S)
  BY <1>1, FS_CardinalityType DEF ExistsBijection
<1>3. f \in [1..Cardinality(S) -> S] /\ IsInjective(f)
  BY <1>2 DEF Bijection, Injection, IsInjective
<1>4. SetToSeq(S) \in [1..Cardinality(S) -> S] /\ IsInjective(SetToSeq(S))
  BY <1>3 DEF SetToSeq
<1>5. QED
  BY <1>1, <1>4 DEF Injection, IsInjective

LEMMA EnterAllType ==
  ASSUME NEW S, IsFiniteSet(S), \A o \in S : o \in Objects /\ Kind(o) # "trace"
  PROVE  EnterAll(S) \in Seq(EnterSteps)
<1>1. Cardinality(S) \in Nat /\ \A i \in 1..Cardinality(S) : SetToSeq(S)[i] \in S
  BY OrderedSet
<1>2. \A i \in 1..Cardinality(S) : Enter(SetToSeq(S)[i]) \in EnterSteps
  BY <1>1 DEF EnterSteps
<1>3. QED
  BY <1>1, <1>2 DEF EnterAll

\* An object of the set is entered.
LEMMA EnterAllElems ==
  ASSUME NEW S, IsFiniteSet(S), NEW o \in S
  PROVE  Enter(o) \in Elems(EnterAll(S))
<1> DEFINE c == Cardinality(S)
           f == SetToSeq(S)
<1>1. c \in Nat /\ f \in Injection(1..c, S)
  BY InjectiveOrder
<1>2. IsFiniteSet(1..c) /\ Cardinality(1..c) = c
  BY <1>1, FS_Interval
<1>3. f \in Surjection(1..c, S)
  BY <1>1, <1>2, FS_Injection
<1>4. PICK i \in 1..c : f[i] = o
  BY <1>3 DEF Surjection
<1>5. i \in DOMAIN EnterAll(S) /\ EnterAll(S)[i] = Enter(o)
  BY <1>4 DEF EnterAll
<1>6. QED
  BY <1>5 DEF Elems

LEMMA FiniteImage ==
  ASSUME NEW S, IsFiniteSet(S), NEW f, DOMAIN f = S
  PROVE  IsFiniteSet({f[x] : x \in S})
<1> DEFINE T == {f[x] : x \in S}
           g == [x \in S |-> f[x]]
<1>1. g \in Surjection(S, T)
  BY DEF Surjection
<1>2. QED
  BY <1>1, FS_Surjection

LEMMA PlansType ==
  ASSUME NEW t \in Tasks
  PROVE  EnterAll(ActivePlans(t)) \in Seq(EnterSteps)
<1> DEFINE plans == {q \in Active : TaskOf[q] = t}
<1>1. IsFiniteSet(plans)
  BY SyncAssumption, FS_Subset
<1>2. IsFiniteSet({Plan(p) : p \in plans})
  <2> DEFINE f == [p \in plans |-> Plan(p)]
  <2>1. {Plan(p) : p \in plans} = {f[p] : p \in plans}
    OBVIOUS
  <2>2. DOMAIN f = plans
    OBVIOUS
  <2> HIDE DEF f, plans
  <2>3. QED
    BY <1>1, <2>1, <2>2, FiniteImage
<1>3. ActivePlans(t) = {Plan(p) : p \in plans}
  BY DEF ActivePlans
<1>4. \A o \in ActivePlans(t) : o \in Objects /\ Kind(o) # "trace"
  BY <1>3, ObjectKinds, SyncAssumption
<1>5. QED
  BY <1>2, <1>3, <1>4, EnterAllType

LEMMA EntitiesType == IsFiniteSet(Entities) /\ EnterAll(Entities) \in Seq(EnterSteps)
<1>1. IsFiniteSet(Entities)
  <2> DEFINE f == [r \in Robots |-> Entity(r)]
  <2>1. Entities = {f[r] : r \in Robots}
    BY DEF Entities
  <2>2. DOMAIN f = Robots /\ IsFiniteSet(Robots)
    BY SyncAssumption
  <2> HIDE DEF f
  <2>3. QED
    BY <2>1, <2>2, FiniteImage
<1>2. \A o \in Entities : o \in Objects /\ Kind(o) # "trace"
  BY ObjectKinds DEF Entities
<1>3. QED
  BY <1>1, <1>2, EnterAllType

LEMMA GraphType ==
  ASSUME NEW n \in Runs
  PROVE  /\ Graph(n) \in Seq(EnterSteps) /\ Graph(n) # <<>>
         /\ \A a \in ListActions(n) : Enter(Action(a)) \in Elems(Graph(n))
<1> DEFINE ofRun == {t \in Tasks : RunOf[t] = n}
           tasks == SetToSeq(ofRun)
           way == [i \in 1..Len(tasks) |->
                     <<Enter(Task(tasks[i]))>> \o EnterAll(ActivePlans(tasks[i]))]
           actions == {Action(a) : a \in ListActions(n)}
<1>1. IsFiniteSet(ofRun) /\ \A t \in ofRun : t \in Tasks
  BY SyncAssumption, FS_Subset
<1>2. tasks \in Seq(ofRun)
  BY <1>1, OrderedSet
<1>3. way \in Seq(Seq(EnterSteps))
  <2>1. ASSUME NEW i \in 1..Len(tasks)
        PROVE  <<Enter(Task(tasks[i]))>> \o EnterAll(ActivePlans(tasks[i])) \in Seq(EnterSteps)
    <3>1. tasks[i] \in Tasks
      BY <1>1, <1>2
    <3>2. <<Enter(Task(tasks[i]))>> \in Seq(EnterSteps)
      <4> HIDE DEF tasks
      <4>1. Enter(Task(tasks[i])) \in EnterSteps
        BY <3>1, ObjectKinds DEF EnterSteps
      <4>2. QED
        BY <4>1
    <3>3. EnterAll(ActivePlans(tasks[i])) \in Seq(EnterSteps)
      BY <3>1, PlansType
    <3>4. QED
      BY <3>2, <3>3, ConcatProperties
  <2>2. Len(tasks) \in Nat
    BY <1>2
  <2> HIDE DEF tasks
  <2>3. QED
    BY <2>1, <2>2
<1>4. FlattenSeq(way) \in Seq(EnterSteps)
  <2> HIDE DEF way
  <2>1. QED
    BY <1>3, FlattenType
<1>5. /\ EnterAll(actions) \in Seq(EnterSteps)
      /\ \A a \in ListActions(n) : Enter(Action(a)) \in Elems(EnterAll(actions))
  <2>1. ListActions(n) \in SUBSET Actions
    BY DEF ListActions, ActionsOf
  <2>2. IsFiniteSet(ListActions(n))
    BY <2>1, SyncAssumption, FS_Subset
  <2>3. IsFiniteSet(actions)
    <3> DEFINE S == ListActions(n)
               f == [a \in S |-> Action(a)]
    <3>1. actions = {f[a] : a \in S}
      OBVIOUS
    <3>2. DOMAIN f = S /\ IsFiniteSet(S)
      BY <2>2
    <3> HIDE DEF f, S, actions
    <3>3. QED
      BY <3>1, <3>2, FiniteImage
  <2>4. \A o \in actions : o \in Objects /\ Kind(o) # "trace"
    <3>1. \A a \in ListActions(n) : a \in Actions
      BY <2>1
    <3> QED
      BY <3>1, ObjectKinds
  <2>5. \A a \in ListActions(n) : Action(a) \in actions
    OBVIOUS
  <2> HIDE DEF actions
  <2>6. QED
    BY <2>3, <2>4, <2>5, EnterAllType, EnterAllElems
<1>6. <<Enter(Run(n))>> \in Seq(EnterSteps)
  BY ObjectKinds DEF EnterSteps
<1>7. Graph(n) = (<<Enter(Run(n))>> \o FlattenSeq(way)) \o EnterAll(actions)
  BY DEF Graph
<1> HIDE DEF way, actions
<1>8. /\ <<Enter(Run(n))>> \o FlattenSeq(way) \in Seq(EnterSteps)
      /\ Len(<<Enter(Run(n))>> \o FlattenSeq(way)) = 1 + Len(FlattenSeq(way))
  BY <1>4, <1>6, ConcatProperties
<1>9. /\ Graph(n) \in Seq(EnterSteps)
      /\ Len(Graph(n)) = 1 + Len(FlattenSeq(way)) + Len(EnterAll(actions))
  BY <1>5, <1>7, <1>8, ConcatProperties
<1>10. Len(Graph(n)) # 0
  BY <1>4, <1>5, <1>9
<1>11. Elems(EnterAll(actions)) \subseteq Elems(Graph(n))
  <2>1. PICK p, e : p = <<Enter(Run(n))>> \o FlattenSeq(way) /\ e = EnterAll(actions)
    OBVIOUS
  <2>2. p \in Seq(EnterSteps) /\ e \in Seq(EnterSteps) /\ Graph(n) = p \o e
    BY <1>5, <1>7, <1>8, <2>1
  <2>3. Elems(p \o e) = Elems(p) \cup Elems(e)
    BY <2>2, ElemsConcat
  <2>4. Elems(e) \subseteq Elems(Graph(n))
    BY <2>2, <2>3
  <2>5. QED
    BY <2>1, <2>4
<1>12. QED
  BY <1>5, <1>9, <1>10, <1>11

LEMMA WorkType ==
  ASSUME NEW q \in AnyRequest
  PROVE  /\ Work(q) \in Seq(EnterSteps) /\ Work(q) # <<>>
         /\ q.what \in {"scene", "entities", "publish"} => Enter(Scenario) \in Elems(Work(q))
<1> DEFINE first == <<Enter(Scenario)>>
<1>0. first \in Seq(EnterSteps) /\ Len(first) = 1 /\ first[1] = Enter(Scenario)
  BY ObjectKinds DEF EnterSteps
<1>1. CASE q.what = "scene"
  <2>1. Work(q) = first
    BY <1>1 DEF Work
  <2>2. QED
    BY <1>0, <2>1, ElemsOf
<1>2. CASE q.what = "entities"
  <2>1. Work(q) = first \o EnterAll(Entities)
    BY <1>2 DEF Work
  <2> HIDE DEF first
  <2>2. Work(q) \in Seq(EnterSteps) /\ Len(Work(q)) = 1 + Len(EnterAll(Entities))
    BY <1>0, <2>1, EntitiesType, ConcatProperties
  <2>3. Elems(Work(q)) = Elems(first) \cup Elems(EnterAll(Entities))
    BY <1>0, <2>1, EntitiesType, ElemsConcat
  <2>4. Len(Work(q)) # 0
    BY <2>2, EntitiesType
  <2>5. Enter(Scenario) \in Elems(first)
    BY ElemsOf DEF first
  <2>6. QED
    BY <2>2, <2>3, <2>4, <2>5
<1>3. CASE q.what = "publish"
  <2> DEFINE two == <<Enter(Scenario), Enter(Scenario)>>
  <2>0. two \in Seq(EnterSteps) /\ Len(two) = 2
    BY <1>0
  <2>1. Work(q) = two \o EnterAll(Entities)
    BY <1>3 DEF Work
  <2>5. Enter(Scenario) \in Elems(two)
    BY ElemsOf
  <2> HIDE DEF two
  <2>2. Work(q) \in Seq(EnterSteps) /\ Len(Work(q)) = 2 + Len(EnterAll(Entities))
    <3> DEFINE rest == EnterAll(Entities)
    <3>1. rest \in Seq(EnterSteps)
      BY EntitiesType
    <3> HIDE DEF rest
    <3>2. two \o rest \in Seq(EnterSteps) /\ Len(two \o rest) = Len(two) + Len(rest)
      BY <2>0, <3>1, ConcatProperties
    <3>3. QED
      BY <2>0, <2>1, <3>2 DEF rest
  <2>3. Elems(Work(q)) = Elems(two) \cup Elems(EnterAll(Entities))
    BY <2>0, <2>1, EntitiesType, ElemsConcat
  <2>4. Len(Work(q)) # 0
    BY <2>2, EntitiesType
  <2>6. QED
    BY <2>2, <2>3, <2>4, <2>5
<1>4. CASE q.what = "graph"
  <2>1. q.obj \in {"run"} \X Runs /\ Id(q.obj) \in Runs
    BY <1>4 DEF AnyRequest, Id
  <2>2. Work(q) = Graph(Id(q.obj))
    BY <1>4 DEF Work
  <2>3. QED
    BY <1>4, <2>1, <2>2, GraphType
<1>5. CASE q.what = "task"
  <2>1. q.obj \in {"task"} \X Tasks /\ Id(q.obj) \in Tasks /\ q.obj \in Objects
        /\ Kind(q.obj) = "task"
    BY <1>5 DEF AnyRequest, Id, Objects, Kind
  <2> DEFINE one == <<Enter(q.obj)>>
             plans == EnterAll(ActivePlans(Id(q.obj)))
  <2>2. Work(q) = one \o plans
    BY <1>5 DEF Work
  <2>3. one \in Seq(EnterSteps) /\ Len(one) = 1 /\ plans \in Seq(EnterSteps)
    BY <2>1, PlansType DEF EnterSteps
  <2> HIDE DEF one, plans
  <2>4. Work(q) \in Seq(EnterSteps) /\ Len(Work(q)) = 1 + Len(plans)
    BY <2>2, <2>3, ConcatProperties
  <2>5. Len(Work(q)) # 0
    BY <2>3, <2>4
  <2>6. QED
    BY <1>5, <2>4, <2>5
<1>6. CASE q.what \in {"plan", "action"}
  <2>1. q.obj \in Objects /\ Kind(q.obj) # "trace"
    BY <1>6 DEF AnyRequest, Objects, Kind
  <2>2. Work(q) = <<Enter(q.obj)>>
    BY <1>6 DEF Work
  <2>3. QED
    BY <1>6, <2>1, <2>2 DEF EnterSteps
<1>7. q.what \in {"scene", "entities", "publish", "graph", "task", "plan", "action"}
  BY DEF AnyRequest
<1>8. QED
  BY <1>1, <1>2, <1>3, <1>4, <1>5, <1>6, <1>7

\* The objects a request is meant for are those its work enters.
LEMMA MeantEntered ==
  ASSUME NEW q \in AnyRequest, NEW o \in Meant(q)
  PROVE  o \in Objects /\ Enter(o) \in Elems(Work(q))
<1>1. PICK i \in DOMAIN Work(q) : o = Work(q)[i].obj
  BY DEF Meant
<1>2. Work(q)[i] \in EnterSteps
  BY <1>1, WorkType
<1>3. QED
  BY <1>1, <1>2, EnterStepsFit DEF Elems

\* A request for a run with its graph is meant for every Action but those with too many newer.
LEMMA MeantActions ==
  ASSUME NEW q \in AnyRequest, q.what = "graph", NEW a \in ActionsOf(Id(q.obj)),
         Cardinality(Newer(a)) < ActionLimit
  PROVE  Action(a) \in Meant(q)
<1>1. Id(q.obj) \in Runs /\ Work(q) = Graph(Id(q.obj))
  BY DEF AnyRequest, Id, Work
<1>2. a \in ListActions(Id(q.obj))
  BY DEF ListActions
<1>3. Enter(Action(a)) \in Elems(Work(q))
  BY <1>1, <1>2, GraphType
<1>4. PICK i \in DOMAIN Work(q) : Work(q)[i] = Enter(Action(a))
  BY <1>3 DEF Elems
<1>5. Enter(Action(a)).obj = Action(a)
  BY DEF Enter, Step
<1>6. QED
  BY <1>4, <1>5 DEF Meant

-----------------------------------------------------------------------------
\* The order of the steps

LEMMA StepFields ==
  ASSUME NEW op, NEW o, NEW saw
  PROVE  /\ Step(op, o, saw).op = op /\ Step(op, o, saw).obj = o /\ Step(op, o, saw).saw = saw
         /\ Enter(o) = Step("enter", o, None)
         /\ o \in Objects /\ saw \in Int
            /\ op \in {"enter", "find", "check", "keep", "robot", "post", "store"}
            => Step(op, o, saw) \in Steps
BY DEF Step, Enter, Steps

\* a may stand where h stood: it is done for an object h is done for.
InPlace(a, h) ==
  \/ Rank(a.obj) < Rank(h.obj)
  \/ h.op \notin {"keep", "robot"} /\ a.obj = h.obj
  \/ h.op \notin {"keep", "robot"} /\ Kind(h.obj) = "task" /\ Kind(a.obj) = "trace"

LEMMA Ranks ==
  ASSUME NEW o \in Objects
  PROVE  /\ Rank(o) \in 1..7
         /\ Kind(o) = "scene" => Rank(o) = 1
         /\ Kind(o) = "entity" => Rank(o) = 2
         /\ Kind(o) = "run" => Rank(o) = 3
         /\ Kind(o) = "task" => Rank(o) = 4
         /\ Kind(o) = "trace" => Rank(o) = 5
         /\ Kind(o) = "plan" => Rank(o) = 6
         /\ Kind(o) = "action" => Rank(o) = 7
BY KindsOfObjects DEF Rank

LEMMA BelowInPlace ==
  ASSUME NEW a \in Steps, NEW h \in Steps, NEW b \in Steps, InPlace(a, h), Below(h, b)
  PROVE  Below(a, b)
<1>1. a.obj \in Objects /\ h.obj \in Objects /\ b.obj \in Objects
  BY DEF Steps
<1>2. Rank(a.obj) \in Int /\ Rank(h.obj) \in Int /\ Rank(b.obj) \in Int
  BY <1>1, Ranks
<1>3. CASE b.op = "enter"
  BY <1>3 DEF Below
<1>4. CASE Rank(a.obj) < Rank(h.obj)
  BY <1>2, <1>4 DEF Below
<1>5. CASE h.op \notin {"keep", "robot"} /\ a.obj = h.obj
  BY <1>5 DEF Below
<1>6. CASE b.op # "enter" /\ h.op \notin {"keep", "robot"}
           /\ Kind(h.obj) = "task" /\ Kind(a.obj) = "trace"
  <2>1. Rank(h.obj) = 4 /\ Rank(a.obj) = 5 /\ Rank(h.obj) < Rank(b.obj)
    BY <1>1, <1>6, Ranks DEF Below
  <2>2. Kind(b.obj) # "trace"
    BY DEF Below
  <2>3. Rank(b.obj) # 5
    BY <1>1, <2>2, KindsOfObjects, Ranks
  <2>4. QED
    BY <1>2, <2>1, <2>2, <2>3 DEF Below
<1>7. QED
  BY <1>3, <1>4, <1>5, <1>6 DEF InPlace

LEMMA NestGoes ==
  ASSUME NEW q \in Seq(Steps), q # <<>>, Nest(q), NEW new \in Seq(Steps), Nest(new),
         \A a \in Elems(new) : InPlace(a, Head(q))
  PROVE  Nest(new \o Tail(q))
<1>1. /\ Len(q) \in Nat \ {0} /\ Len(new) \in Nat /\ DOMAIN q = 1..Len(q)
      /\ DOMAIN new = 1..Len(new) /\ Head(q) = q[1]
      /\ DOMAIN (new \o Tail(q)) = 1..(Len(new) + (Len(q) - 1))
      /\ \A i \in 1..(Len(new) + (Len(q) - 1)) :
           (new \o Tail(q))[i] = IF i <= Len(new) THEN new[i] ELSE q[(i - Len(new)) + 1]
  OBVIOUS
<1>2. SUFFICES ASSUME NEW i \in 1..(Len(new) + (Len(q) - 1)),
                      NEW j \in 1..(Len(new) + (Len(q) - 1)), i < j
               PROVE  Below((new \o Tail(q))[i], (new \o Tail(q))[j])
  BY <1>1 DEF Nest
<1>3. CASE j <= Len(new)
  BY <1>1, <1>2, <1>3 DEF Nest
<1>4. CASE Len(new) < i
  <2>1. /\ (i - Len(new)) + 1 \in 1..Len(q) /\ (j - Len(new)) + 1 \in 1..Len(q)
        /\ (i - Len(new)) + 1 < (j - Len(new)) + 1
    BY <1>1, <1>2, <1>4
  <2>2. Below(q[(i - Len(new)) + 1], q[(j - Len(new)) + 1])
    BY <1>1, <2>1 DEF Nest
  <2>3. QED
    BY <1>1, <1>2, <1>4, <2>2
<1>5. CASE i <= Len(new) /\ Len(new) < j
  <2>1. (j - Len(new)) + 1 \in 1..Len(q) /\ 1 < (j - Len(new)) + 1 /\ 1 \in 1..Len(q)
    BY <1>1, <1>5
  <2>2. Below(q[1], q[(j - Len(new)) + 1])
    BY <1>1, <2>1 DEF Nest
  <2>3. /\ new[i] \in Elems(new) /\ new[i] \in Steps /\ q[1] \in Steps
        /\ q[(j - Len(new)) + 1] \in Steps
    BY <1>1, <1>5, <2>1 DEF Elems
  <2>4. Below(new[i], q[(j - Len(new)) + 1])
    BY <1>1, <2>2, <2>3, BelowInPlace
  <2>5. QED
    BY <1>1, <1>5, <2>4
<1>6. QED
  BY <1>1, <1>3, <1>4, <1>5

\* What is behind the first step waits for it.
LEMMA NestTail ==
  ASSUME NEW q \in Seq(Steps), q # <<>>, Nest(q)
  PROVE  Nest(Tail(q)) /\ \A b \in Elems(Tail(q)) : b \in Steps /\ Below(Head(q), b)
<1>1. /\ Len(q) \in Nat \ {0} /\ DOMAIN q = 1..Len(q) /\ Head(q) = q[1]
      /\ Tail(q) \in Seq(Steps) /\ DOMAIN Tail(q) = 1..(Len(q) - 1)
      /\ \A i \in 1..(Len(q) - 1) : Tail(q)[i] = q[i + 1] /\ i + 1 \in 1..Len(q) /\ 1 < i + 1
  OBVIOUS
<1>2. 1 \in 1..Len(q)
  BY <1>1
<1>3. \A i \in 1..(Len(q) - 1) : Tail(q)[i] \in Steps /\ Below(Head(q), Tail(q)[i])
  BY <1>1, <1>2 DEF Nest
<1>4. \A i, j \in 1..(Len(q) - 1) : i < j => Below(Tail(q)[i], Tail(q)[j])
  <2>1. \A i, j \in 1..(Len(q) - 1) : i < j => i + 1 < j + 1
    BY <1>1
  <2>2. QED
    BY <1>1, <2>1 DEF Nest
<1>5. QED
  BY <1>1, <1>3, <1>4 DEF Nest, Elems

LEMMA EntersNest ==
  ASSUME NEW p \in Seq(EnterSteps)
  PROVE  p \in Seq(Steps) /\ Nest(p) /\ \A a \in Elems(p) : a \in EnterSteps
<1>1. \A i \in DOMAIN p : p[i] \in EnterSteps
  OBVIOUS
<1>2. p \in Seq(Steps)
  BY EnterStepsFit
<1>3. QED
  BY <1>1, <1>2, EnterStepsFit DEF Nest, Below, Elems

\* A step at the end of others it waits for.
LEMMA NestLast ==
  ASSUME NEW p \in Seq(Steps), Nest(p), NEW b \in Steps, \A a \in Elems(p) : Below(a, b)
  PROVE  Nest(p \o <<b>>)
<1>1. /\ Len(p) \in Nat /\ DOMAIN p = 1..Len(p) /\ DOMAIN (p \o <<b>>) = 1..(Len(p) + 1)
      /\ \A i \in 1..(Len(p) + 1) : (p \o <<b>>)[i] = IF i <= Len(p) THEN p[i] ELSE b
  OBVIOUS
<1>2. SUFFICES ASSUME NEW i \in 1..(Len(p) + 1), NEW j \in 1..(Len(p) + 1), i < j
               PROVE  Below((p \o <<b>>)[i], (p \o <<b>>)[j])
  BY <1>1 DEF Nest
<1>3. CASE j <= Len(p)
  BY <1>1, <1>2, <1>3 DEF Nest
<1>4. CASE j = Len(p) + 1
  BY <1>1, <1>2, <1>4 DEF Elems
<1>5. QED
  BY <1>1, <1>3, <1>4

\* The way from the lookup of o to its post.
LEMMA RenewSteps ==
  ASSUME NEW o \in Objects
  PROVE  /\ Renew(o) \in Seq(Steps) /\ Renew(o) # <<>> /\ Nest(Renew(o))
         /\ Step("post", o, None) \in Elems(Renew(o))
         /\ \A a \in Elems(Renew(o)) :
              \/ a \in EnterSteps /\ Rank(a.obj) < Rank(o)
              \/ Kind(o) = "action" /\ a = Step("robot", o, None)
              \/ a = Step("post", o, None)
<1> DEFINE post == Step("post", o, None)
           robot == Step("robot", o, None)
<1>1. /\ post \in Steps /\ post.op = "post" /\ post.obj = o
      /\ robot \in Steps /\ robot.op = "robot" /\ robot.obj = o
  BY StepFields DEF None
<1> HIDE DEF post, robot
<1>2. ASSUME NEW p \in Seq(Steps), Nest(p), Renew(o) = p \o <<post>>,
             \A a \in Elems(p) : Below(a, post),
             \A a \in Elems(p) : \/ a \in EnterSteps /\ Rank(a.obj) < Rank(o)
                                 \/ Kind(o) = "action" /\ a = robot
      PROVE  /\ Renew(o) \in Seq(Steps) /\ Renew(o) # <<>> /\ Nest(Renew(o))
             /\ post \in Elems(Renew(o))
             /\ \A a \in Elems(Renew(o)) :
                  \/ a \in EnterSteps /\ Rank(a.obj) < Rank(o)
                  \/ Kind(o) = "action" /\ a = robot
                  \/ a = post
  <2>1. <<post>> \in Seq(Steps) /\ Elems(<<post>>) = {post} /\ Len(<<post>>) = 1
    BY <1>1, ElemsOf
  <2>2. Nest(Renew(o))
    BY <1>1, <1>2, NestLast
  <2>3. Renew(o) \in Seq(Steps) /\ Len(Renew(o)) = Len(p) + 1
    BY <1>2, <2>1, ConcatProperties
  <2>4. Elems(Renew(o)) = Elems(p) \cup {post}
    <3>1. Elems(p \o <<post>>) = Elems(p) \cup Elems(<<post>>)
      BY <1>2, <2>1, ElemsConcat
    <3>2. QED
      BY <1>2, <2>1, <3>1
  <2>5. QED
    BY <1>2, <2>2, <2>3, <2>4
<1>3. CASE Kind(o) = "run"
  <2> DEFINE p == <<Enter(Scenario)>> \o EnterAll(Entities)
  <2>1. <<Enter(Scenario)>> \in Seq(EnterSteps) /\ Elems(<<Enter(Scenario)>>) = {Enter(Scenario)}
    BY ObjectKinds, ElemsOf DEF EnterSteps
  <2>2. p \in Seq(EnterSteps) /\ Elems(p) = {Enter(Scenario)} \cup Elems(EnterAll(Entities))
    <3> DEFINE first == <<Enter(Scenario)>>
               rest == EnterAll(Entities)
    <3>1. first \in Seq(EnterSteps) /\ rest \in Seq(EnterSteps)
      BY <2>1, EntitiesType
    <3> HIDE DEF first, rest
    <3>2. first \o rest \in Seq(EnterSteps) /\ Elems(first \o rest) = Elems(first) \cup Elems(rest)
      BY <3>1, ElemsConcat, ConcatProperties
    <3>3. QED
      BY <2>1, <3>2 DEF first, rest
  <2>3. Renew(o) = p \o <<post>>
    BY <1>3 DEF Renew, post
  <2>4. \A a \in Elems(EnterAll(Entities)) : Kind(a.obj) = "entity" /\ a.obj \in Objects
    <3>1. IsFiniteSet(Entities)
      BY EntitiesType
    <3>2. /\ Cardinality(Entities) \in Nat
          /\ \A i \in 1..Cardinality(Entities) : SetToSeq(Entities)[i] \in Entities
      BY <3>1, OrderedSet
    <3>3. \A e \in Entities : Kind(e) = "entity" /\ e \in Objects
      BY ObjectKinds DEF Entities
    <3>4. \A i \in 1..Cardinality(Entities) :
            EnterAll(Entities)[i] = Enter(SetToSeq(Entities)[i])
      BY DEF EnterAll
    <3>5. DOMAIN EnterAll(Entities) = 1..Cardinality(Entities)
      BY DEF EnterAll
    <3>6. SUFFICES ASSUME NEW i \in 1..Cardinality(Entities)
                   PROVE  /\ Kind(EnterAll(Entities)[i].obj) = "entity"
                          /\ EnterAll(Entities)[i].obj \in Objects
      BY <3>5 DEF Elems
    <3>7. EnterAll(Entities)[i].obj = SetToSeq(Entities)[i]
      <4>1. \A e : Enter(e).obj = e
        BY DEF Enter, Step
      <4>2. QED
        BY <3>4, <4>1
    <3>8. QED
      BY <3>2, <3>3, <3>7
  <2> HIDE DEF p
  <2>5. \A a \in Elems(p) : a \in EnterSteps /\ Rank(a.obj) < Rank(o)
    <3>1. Rank(o) = 3
      BY <1>3, Ranks
    <3>2. Enter(Scenario).obj = Scenario /\ Rank(Scenario) = 1
      BY StepFields, ObjectKinds, Ranks
    <3>3. \A a \in Elems(p) : a \in EnterSteps
      BY <2>2, EntersNest
    <3>4. \A a \in Elems(EnterAll(Entities)) : Rank(a.obj) = 2
      BY <2>4, Ranks
    <3>5. QED
      BY <2>2, <3>1, <3>2, <3>3, <3>4
  <2>6. p \in Seq(Steps) /\ Nest(p)
    BY <2>2, EntersNest
  <2>7. \A a \in Elems(p) : Below(a, post)
    BY <1>1, <1>3, <2>5 DEF Below
  <2>8. QED
    BY <1>2, <2>3, <2>5, <2>6, <2>7 DEF post, robot
<1>4. CASE Kind(o) = "action"
  <2>1. Renew(o) = <<robot>> \o <<post>>
    BY <1>4 DEF Renew, post, robot
  <2>2. <<robot>> \in Seq(Steps) /\ Nest(<<robot>>) /\ Elems(<<robot>>) = {robot}
    BY <1>1, ElemsOf DEF Nest
  <2>3. Below(robot, post)
    BY <1>1, <1>4 DEF Below
  <2>4. QED
    BY <1>2, <1>4, <2>1, <2>2, <2>3 DEF post, robot
<1>5. CASE Kind(o) \notin {"run", "action"}
  <2>1. Renew(o) = <<>> \o <<post>>
    BY <1>5 DEF Renew, post
  <2>2. <<>> \in Seq(Steps) /\ Nest(<<>>) /\ Elems(<<>>) = {}
    BY ElemsOf DEF Nest
  <2>3. QED
    BY <1>2, <2>1, <2>2 DEF post, robot
<1>6. QED
  BY <1>3, <1>4, <1>5

\* Sequences written out, one put after the other.
LEMMA Joined ==
  /\ \A a, b : <<a>> \o <<b>> = <<a, b>>
  /\ \A a, b, c, d : <<a, b, c>> \o <<d>> = <<a, b, c, d>>
<1>1. ASSUME NEW a, NEW b
      PROVE  <<a>> \o <<b>> = <<a, b>>
  <2> DEFINE S == {a, b}
             p == <<a>>
             q == <<b>>
             r == <<a, b>>
  <2>1. /\ p \in Seq(S) /\ Len(p) = 1 /\ p[1] = a
        /\ q \in Seq(S) /\ Len(q) = 1 /\ q[1] = b
        /\ r \in Seq(S) /\ Len(r) = 2 /\ r[1] = a /\ r[2] = b
    OBVIOUS
  <2> HIDE DEF S, p, q, r
  <2>2. /\ p \o q \in Seq(S) /\ Len(p \o q) = 2
        /\ (p \o q)[1] = a /\ (p \o q)[2] = b
    BY <2>1, ConcatProperties
  <2>3. \A i \in 1..Len(p \o q) : i = 1 \/ i = 2
    BY <2>2
  <2>4. p \o q = r
    BY <2>1, <2>2, <2>3, SeqEqual
  <2>5. QED
    BY <2>4 DEF p, q, r
<1>2. ASSUME NEW a, NEW b, NEW c, NEW d
      PROVE  <<a, b, c>> \o <<d>> = <<a, b, c, d>>
  <2> DEFINE S == {a, b, c, d}
             p == <<a, b, c>>
             q == <<d>>
             r == <<a, b, c, d>>
  <2>1. /\ p \in Seq(S) /\ Len(p) = 3 /\ p[1] = a /\ p[2] = b /\ p[3] = c
        /\ q \in Seq(S) /\ Len(q) = 1 /\ q[1] = d
        /\ r \in Seq(S) /\ Len(r) = 4 /\ r[1] = a /\ r[2] = b /\ r[3] = c /\ r[4] = d
    OBVIOUS
  <2> HIDE DEF S, p, q, r
  <2>2. /\ p \o q \in Seq(S) /\ Len(p \o q) = 4
        /\ (p \o q)[1] = a /\ (p \o q)[2] = b /\ (p \o q)[3] = c /\ (p \o q)[4] = d
    <3>0. /\ p \o q \in Seq(S) /\ Len(p \o q) = Len(p) + Len(q)
          /\ \A i \in 1..(Len(p) + Len(q)) :
               (p \o q)[i] = IF i <= Len(p) THEN p[i] ELSE q[i - Len(p)]
      BY <2>1, Zenon, ConcatProperties
    <3>1. /\ p \o q \in Seq(S) /\ Len(p \o q) = 4
          /\ \A i \in 1..4 : (p \o q)[i] = IF i <= 3 THEN p[i] ELSE q[i - 3]
      BY <2>1, <3>0
    <3>2. 4 - 3 = 1
      OBVIOUS
    <3>3. QED
      BY <2>1, <3>1, <3>2
  <2>3. \A i \in 1..Len(p \o q) : i = 1 \/ i = 2 \/ i = 3 \/ i = 4
    BY <2>2
  <2>4. p \o q = r
    BY <2>1, <2>2, <2>3, SeqEqual
  <2>5. QED
    BY <2>4 DEF p, q, r
<1>3. QED
  BY <1>1, <1>2

\* The way from the entry of a task, a plan or an Action to its lookup.
Climb(o, existing) ==
  (CASE Kind(o) = "task" -> <<Enter(Run(RunOf[Id(o)]))>>
     [] Kind(o) = "plan" -> <<Enter(Task(TaskOf[Id(o)]))>>
     [] OTHER -> <<Enter(TaskFor(o)), Step("keep", o, None), Enter(Plan(PlanOf[Id(o)]))>>)
    \o <<Step("check", o, existing)>>

LEMMA ClimbSteps ==
  ASSUME NEW o \in Objects, Kind(o) \in {"task", "plan", "action"}, NEW existing \in Int
  PROVE  /\ Climb(o, existing) \in Seq(Steps) /\ Climb(o, existing) # <<>>
         /\ Nest(Climb(o, existing))
         /\ Step("check", o, existing) \in Elems(Climb(o, existing))
         /\ Kind(o) = "task" => Enter(Run(RunOf[Id(o)])) \in Elems(Climb(o, existing))
         /\ Kind(o) = "plan" => Enter(Task(TaskOf[Id(o)])) \in Elems(Climb(o, existing))
         /\ Kind(o) = "action" => /\ Enter(Plan(PlanOf[Id(o)])) \in Elems(Climb(o, existing))
                                  /\ Step("keep", o, None) \in Elems(Climb(o, existing))
         /\ \A a \in Elems(Climb(o, existing)) :
              \/ a \in EnterSteps /\ Rank(a.obj) < Rank(o)
              \/ Kind(o) = "action" /\ a = Step("keep", o, None)
              \/ a = Step("check", o, existing)
         /\ Head(Climb(o, existing)).op = "enter"
         /\ Kind(Head(Climb(o, existing)).obj) # "trace"
<1> DEFINE check == Step("check", o, existing)
           keep == Step("keep", o, None)
<1>1. /\ check \in Steps /\ check.op = "check" /\ check.obj = o
      /\ keep \in Steps /\ keep.op = "keep" /\ keep.obj = o
  BY StepFields DEF None
<1>2. \A p \in Objects : Kind(p) # "trace" =>
        /\ Enter(p) \in EnterSteps /\ Enter(p) \in Steps /\ Enter(p).op = "enter"
        /\ Enter(p).obj = p
  <2>1. \A p \in Objects : Kind(p) # "trace" => Enter(p) \in EnterSteps
    BY DEF EnterSteps
  <2>2. QED
    BY <2>1, EnterStepsFit, StepFields
<1> HIDE DEF check, keep
<1>3. ASSUME NEW p \in Objects, Kind(p) # "trace", Rank(p) < Rank(o),
             Kind(o) \in {"task", "plan"}, Climb(o, existing) = <<Enter(p), check>>
      PROVE  /\ Climb(o, existing) \in Seq(Steps) /\ Climb(o, existing) # <<>>
             /\ Nest(Climb(o, existing))
             /\ check \in Elems(Climb(o, existing)) /\ Enter(p) \in Elems(Climb(o, existing))
             /\ \A a \in Elems(Climb(o, existing)) :
                  (a \in EnterSteps /\ Rank(a.obj) < Rank(o)) \/ a = check
             /\ Head(Climb(o, existing)) = Enter(p)
  <2> DEFINE way == <<Enter(p), check>>
  <2>1. Elems(way) = {Enter(p), check}
    BY ElemsOf
  <2>2. DOMAIN way = {1, 2} /\ way[1] = Enter(p) /\ way[2] = check /\ Head(way) = Enter(p)
    OBVIOUS
  <2>3. Below(Enter(p), check)
    BY <1>1, <1>2, <1>3 DEF Below
  <2>4. Nest(way)
    BY <2>2, <2>3 DEF Nest
  <2>5. way \in Seq(Steps) /\ way # <<>>
    BY <1>1, <1>2, <1>3
  <2>6. QED
    BY <1>2, <1>3, <2>1, <2>2, <2>4, <2>5
<1>4. CASE Kind(o) = "task"
  <2>1. /\ Run(RunOf[Id(o)]) \in Objects /\ Kind(Run(RunOf[Id(o)])) = "run"
    BY <1>4, Parents
  <2>2. Climb(o, existing) = <<Enter(Run(RunOf[Id(o)]))>> \o <<check>>
    BY <1>4 DEF Climb, check
  <2>3. Climb(o, existing) = <<Enter(Run(RunOf[Id(o)])), check>>
    BY <2>2, Joined
  <2>4. Rank(Run(RunOf[Id(o)])) < Rank(o)
    BY <1>4, <2>1, Ranks
  <2>5. QED
    BY <1>2, <1>3, <1>4, <2>1, <2>3, <2>4 DEF check
<1>5. CASE Kind(o) = "plan"
  <2>1. /\ Task(TaskOf[Id(o)]) \in Objects /\ Kind(Task(TaskOf[Id(o)])) = "task"
    BY <1>5, Parents
  <2>2. Climb(o, existing) = <<Enter(Task(TaskOf[Id(o)]))>> \o <<check>>
    BY <1>5 DEF Climb, check
  <2>3. Climb(o, existing) = <<Enter(Task(TaskOf[Id(o)])), check>>
    BY <2>2, Joined
  <2>4. Rank(Task(TaskOf[Id(o)])) < Rank(o)
    BY <1>5, <2>1, Ranks
  <2>5. QED
    BY <1>2, <1>3, <1>5, <2>1, <2>3, <2>4 DEF check
<1>6. CASE Kind(o) = "action"
  <2> DEFINE t == Enter(TaskFor(o))
             p == Enter(Plan(PlanOf[Id(o)]))
             way == <<t, keep, p, check>>
  <2>1. /\ t \in EnterSteps /\ t \in Steps /\ t.op = "enter" /\ t.obj = TaskFor(o)
        /\ p \in EnterSteps /\ p \in Steps /\ p.op = "enter" /\ p.obj = Plan(PlanOf[Id(o)])
    BY <1>2, <1>6, Parents
  <2>2. /\ Rank(t.obj) = 4 /\ Rank(p.obj) = 6 /\ Rank(o) = 7 /\ Kind(t.obj) = "task"
        /\ Kind(p.obj) = "plan"
    BY <1>6, <2>1, Parents, Ranks
  <2>3. Climb(o, existing) = <<t, keep, p>> \o <<check>>
    BY <1>6 DEF Climb, check, keep
  <2> HIDE DEF t, p
  <2>4. Climb(o, existing) = way
    BY <2>3, Joined
  <2>5. Elems(way) = {t, keep, p, check}
    BY ElemsOf
  <2>6. /\ DOMAIN way = {1, 2, 3, 4} /\ way[1] = t /\ way[2] = keep /\ way[3] = p
        /\ way[4] = check /\ Head(way) = t
    OBVIOUS
  <2>7. /\ Below(t, keep) /\ Below(t, p) /\ Below(t, check) /\ Below(keep, p)
        /\ Below(keep, check) /\ Below(p, check)
    BY <1>1, <1>6, <2>1, <2>2 DEF Below
  <2>8. Nest(way)
    BY <2>6, <2>7 DEF Nest
  <2>9. way \in Seq(Steps) /\ way # <<>>
    BY <1>1, <2>1
  <2> HIDE DEF way
  <2>10. QED
    BY <1>6, <2>1, <2>2, <2>4, <2>5, <2>6, <2>8, <2>9 DEF check, keep, p, t
<1>7. QED
  BY <1>4, <1>5, <1>6

-----------------------------------------------------------------------------
\* A step of a request: its first step is replaced by new ones

\* The Hub and the table grow, the rest stays.
Grows ==
  /\ hub' \in Seq(HubObjects) /\ Len(hub) <= Len(hub')
  /\ \A n \in HubIds : hub'[n] = hub[n]
  /\ DOMAIN map \subseteq DOMAIN map'
  /\ DOMAIN map' \subseteq Objects \X (HubIds' \cup {None})
  /\ \A k \in DOMAIN map' : map'[k] \in HubIds' \cup {Skipped}
  /\ refused' \subseteq Objects
  /\ MapFits' /\ HubFits' /\ IdsAreOwn'
  /\ UNCHANGED <<version, lost, asked, at, before>>

\* s goes on with the steps new and the answers ret.
Moves(s, new, ret) ==
  /\ todo[s] # <<>> /\ GoWith(s, new, ret)
  /\ new \in Seq(Steps) /\ Nest(new)
  /\ \A a \in Elems(new) : InPlace(a, Head(todo[s])) /\ StepFits(a)'
  /\ ret \in [Objects -> HubIds \cup {None, Skipped}]
  /\ \A o \in Objects : /\ ret[o] = Skipped => IsQuery(o)
                        /\ ret[o] > 0 /\ Kind(o) # "action" => IsOf(ret[o], o)
                        /\ Kind(o) = "action" /\ o # Obj(s) => ret[o] = got[s][o]
  /\ new # <<>> /\ Kind(Head(new).obj) = "trace" => ret[Task(Id(Head(new).obj))] > 0
  /\ new # <<>> /\ Head(new).op = "store" /\ Kind(Head(new).obj) = "entity"
     => hub'[Head(new).saw].scene = ret[Scenario]
  /\ Head(todo[s]).op = "keep" => ret[Obj(s)] = None \/ IsOf(ret[Obj(s)], TaskFor(Obj(s)))
  /\ Head(todo[s]).op = "robot" => ret[Obj(s)] = got[s][Obj(s)]
  /\ \A a \in Elems(new) :
       a.op \in {"check", "robot", "post"} /\ Kind(a.obj) = "action" =>
         \/ \E b \in Elems(new) : b.op = "keep" /\ b.obj = a.obj
         \/ /\ a.obj = Obj(s) /\ ret[Obj(s)] = got[s][Obj(s)]
            /\ Head(todo[s]).op \in {"check", "robot", "post"}

LEMMA GoesWith ==
  ASSUME TypeOK, NEW s \in Syncs, todo[s] # <<>>, NEW new \in Seq(Steps),
         NEW ret \in [Objects -> Int], GoWith(s, new, ret)
  PROVE  /\ todo'[s] = new \o Tail(todo[s]) /\ todo' \in [Syncs -> Seq(Steps)]
         /\ DOMAIN got' = Syncs /\ DOMAIN result' = Syncs
         /\ Elems(todo'[s]) = Elems(new) \cup Elems(Tail(todo[s]))
         /\ new # <<>> => todo'[s] # <<>> /\ Head(todo'[s]) = Head(new) /\ Head(new) \in Elems(new)
         /\ new = <<>> /\ todo'[s] # <<>> => Head(todo'[s]) \in Elems(Tail(todo[s]))
         /\ \A r \in Syncs \ {s} : todo'[r] = todo[r] /\ got'[r] = got[r] /\ result'[r] = result[r]
         /\ todo'[s] # <<>> => got'[s] = ret /\ result'[s] = result[s]
         /\ todo'[s] = <<>> => got'[s] = NothingGot /\ result'[s] = "ok"
<1> DEFINE rest == new \o Tail(todo[s])
<1>1. todo \in [Syncs -> Seq(Steps)] /\ DOMAIN got = Syncs /\ DOMAIN result = Syncs
  BY DEF TypeOK
<1>2. Tail(todo[s]) \in Seq(Steps)
  BY <1>1
<1>3. rest \in Seq(Steps)
  BY <1>2, ConcatProperties
<1>4. /\ todo' = [todo EXCEPT ![s] = rest]
      /\ got' = [got EXCEPT ![s] = IF rest = <<>> THEN NothingGot ELSE ret]
      /\ result' = [result EXCEPT ![s] = IF rest = <<>> THEN "ok" ELSE @]
  BY DEF GoWith
<1>5. Elems(rest) = Elems(new) \cup Elems(Tail(todo[s]))
  BY <1>2, ElemsConcat
<1>6. new # <<>> => rest # <<>> /\ Head(rest) = Head(new) /\ Head(new) \in Elems(new)
  <2> DEFINE tail == Tail(todo[s])
  <2> HIDE DEF tail
  <2>1. ASSUME new # <<>>
        PROVE  /\ Len(new \o tail) # 0 /\ (new \o tail)[1] = new[1] /\ Head(new) = new[1]
               /\ new \o tail \in Seq(Steps)
    <3>1. Len(new) \in Nat \ {0} /\ tail \in Seq(Steps) /\ Len(tail) \in Nat
      BY <1>2, <2>1 DEF tail
    <3>2. /\ Len(new \o tail) = Len(new) + Len(tail) /\ new \o tail \in Seq(Steps)
          /\ (new \o tail)[1] = new[1]
      BY <3>1, ConcatProperties
    <3>3. QED
      BY <3>1, <3>2
  <2>2. new # <<>> => Head(new) \in Elems(new)
    BY ElemsTail
  <2>3. \A q \in Seq(Steps) : Len(q) # 0 => q # <<>> /\ Head(q) = q[1]
    OBVIOUS
  <2>4. QED
    BY <2>1, <2>2, <2>3 DEF tail
<1>7. new = <<>> => rest = Tail(todo[s])
  BY <1>2, ConcatEmptySeq
<1> HIDE DEF rest
<1>8. new = <<>> /\ rest # <<>> => Head(rest) \in Elems(Tail(todo[s]))
  BY <1>2, <1>7, ElemsTail
<1>9. /\ todo'[s] = rest
      /\ todo' \in [Syncs -> Seq(Steps)] /\ DOMAIN got' = Syncs /\ DOMAIN result' = Syncs
      /\ \A r \in Syncs \ {s} : todo'[r] = todo[r] /\ got'[r] = got[r] /\ result'[r] = result[r]
      /\ rest # <<>> => got'[s] = ret /\ result'[s] = result[s]
      /\ rest = <<>> => got'[s] = NothingGot /\ result'[s] = "ok"
  BY <1>1, <1>3, <1>4
<1>10. QED
  BY <1>5, <1>6, <1>8, <1>9 DEF rest

\* What has been made for an object stays so.
LEMMA IsOfStays ==
  ASSUME TypeOK, Grows
  PROVE  /\ \A n, o : IsOf(n, o) => IsOf(n, o)'
         /\ HubIds \subseteq HubIds'
         /\ \A st : StepFits(st) => StepFits(st)'
<1>1. Len(hub) \in Nat /\ Len(hub') \in Nat /\ HubIds \subseteq HubIds'
  BY DEF TypeOK, Grows, HubIds
<1>2. \A n, o : IsOf(n, o) => IsOf(n, o)'
  BY <1>1 DEF Grows, IsOf
<1>3. \A st : StepFits(st) => StepFits(st)'
  BY <1>2 DEF StepFits, Grows
<1>4. QED
  BY <1>1, <1>2, <1>3

LEMMA MoveTypes ==
  ASSUME SyncInv, NEW s \in Syncs, NEW new, NEW ret, Moves(s, new, ret), Grows
  PROVE  TypeOK' /\ Phases'
<1>1. TypeOK /\ Phases /\ ret \in [Objects -> Int] /\ new \in Seq(Steps) /\ todo[s] # <<>>
      /\ GoWith(s, new, ret)
  <2>1. TypeOK /\ Phases
    BY DEF SyncInv
  <2>2. HubIds \cup {None, Skipped} \subseteq Int
    BY <2>1 DEF TypeOK, HubIds, None, Skipped
  <2>3. QED
    BY <2>1, <2>2 DEF Moves
<1>2. /\ todo' \in [Syncs -> Seq(Steps)]
      /\ DOMAIN got' = Syncs /\ DOMAIN result' = Syncs
      /\ \A r \in Syncs \ {s} : todo'[r] = todo[r] /\ got'[r] = got[r] /\ result'[r] = result[r]
      /\ todo'[s] # <<>> => got'[s] = ret /\ result'[s] = result[s]
      /\ todo'[s] = <<>> => got'[s] = NothingGot /\ result'[s] = "ok"
  BY <1>1, GoesWith
<1>3. result' \in [Syncs -> {"none", "ok", "error"}]
  <2>1. result \in [Syncs -> {"none", "ok", "error"}]
    BY <1>1 DEF TypeOK
  <2>2. \A r \in Syncs : result'[r] \in {"none", "ok", "error"}
    BY <1>2, <2>1
  <2>3. result' = [r \in Syncs |-> result'[r]]
    BY DEF GoWith, TypeOK, Moves, SyncInv
  <2>4. QED
    BY <2>2, <2>3
<1>4. got' \in [Syncs -> [Objects -> HubIds' \cup {None, Skipped}]]
  <2>1. HubIds \subseteq HubIds'
    BY <1>1, IsOfStays
  <2>2. got \in [Syncs -> [Objects -> HubIds \cup {None, Skipped}]]
    BY <1>1 DEF TypeOK
  <2>3. [Objects -> HubIds \cup {None, Skipped}] \subseteq [Objects -> HubIds' \cup {None, Skipped}]
    BY <2>1
  <2>4. NothingGot \in [Objects -> HubIds \cup {None, Skipped}]
    BY DEF NothingGot
  <2>5. ret \in [Objects -> HubIds \cup {None, Skipped}]
    BY DEF Moves
  <2>6. \A r \in Syncs : got'[r] \in [Objects -> HubIds \cup {None, Skipped}]
    BY <1>2, <2>2, <2>4, <2>5
  <2>7. got' = [r \in Syncs |-> got'[r]]
    BY <2>2 DEF GoWith, Moves
  <2>8. QED
    BY <2>3, <2>6, <2>7
<1>5. TypeOK'
  <2>1. lost' \in 0..Len(hub')
    BY <1>1 DEF TypeOK, Grows
  <2>2. QED
    BY <1>1, <1>2, <1>3, <1>4, <2>1 DEF TypeOK, Grows
<1>6. Phases'
  <2>1. asked[s] # NoRequest /\ result[s] = "none"
    BY <1>1 DEF Phases
  <2>2. asked' = asked /\ at' = at /\ before' = before
    BY DEF Grows
  <2>3. \A r \in Syncs : r # s => /\ todo'[r] # <<>> <=> asked'[r] # NoRequest /\ result'[r] = "none"
                                  /\ asked'[r] = NoRequest => result'[r] = "none"
    BY <1>1, <1>2, <2>2 DEF Phases
  <2>4. todo'[s] # <<>> <=> asked'[s] # NoRequest /\ result'[s] = "none"
    BY <1>2, <2>1, <2>2
  <2>5. \A r \in Syncs : \A p \in before'[r] : result'[p] # "none"
    <3>1. \A r \in Syncs : \A p \in before[r] : p \in Syncs /\ result[p] # "none"
      BY <1>1 DEF TypeOK, Phases
    <3>2. QED
      BY <1>2, <2>1, <2>2, <3>1
  <2>6. QED
    BY <1>1, <2>1, <2>2, <2>3, <2>4, <2>5 DEF Phases
<1>7. QED
  BY <1>5, <1>6

LEMMA MoveSteps ==
  ASSUME SyncInv, NEW s \in Syncs, NEW new, NEW ret, Moves(s, new, ret), Grows
  PROVE  /\ StepsFit'
         /\ todo[s] \in Seq(Steps) /\ Head(todo[s]) \in Elems(todo[s]) /\ Head(todo[s]) \in Steps
         /\ Elems(todo'[s]) = Elems(new) \cup Elems(Tail(todo[s]))
         /\ \A b \in Elems(Tail(todo[s])) : /\ b \in Elems(todo[s]) /\ b \in Steps
                                            /\ Below(Head(todo[s]), b)
<1>1. /\ TypeOK /\ StepsFit /\ ret \in [Objects -> Int] /\ new \in Seq(Steps) /\ todo[s] # <<>>
      /\ GoWith(s, new, ret) /\ todo[s] \in Seq(Steps)
  <2>1. TypeOK /\ StepsFit
    BY DEF SyncInv
  <2>2. HubIds \cup {None, Skipped} \subseteq Int
    BY <2>1 DEF TypeOK, HubIds, None, Skipped
  <2>3. QED
    BY <2>1, <2>2 DEF Moves, TypeOK
<1>2. /\ todo'[s] = new \o Tail(todo[s])
      /\ \A r \in Syncs \ {s} : todo'[r] = todo[r]
      /\ Elems(todo'[s]) = Elems(new) \cup Elems(Tail(todo[s]))
  BY <1>1, GoesWith
<1>3. Nest(todo[s]) /\ \A r \in Syncs : Nest(todo[r]) /\ \A st \in Elems(todo[r]) : StepFits(st)
  BY <1>1 DEF StepsFit
<1>4. /\ Head(todo[s]) \in Elems(todo[s]) /\ Head(todo[s]) \in Steps
      /\ \A b \in Elems(Tail(todo[s])) : /\ b \in Elems(todo[s]) /\ b \in Steps
                                         /\ Below(Head(todo[s]), b)
  BY <1>1, <1>3, NestTail, ElemsTail
<1>5. Nest(todo'[s])
  <2>1. Nest(new) /\ \A a \in Elems(new) : InPlace(a, Head(todo[s]))
    BY DEF Moves
  <2>2. Nest(new \o Tail(todo[s]))
    BY <1>1, <1>3, <2>1, NestGoes
  <2>3. QED
    BY <1>2, <2>2
<1>6. \A st : StepFits(st) => StepFits(st)'
  BY <1>1, IsOfStays
<1>7. \A st \in Elems(todo'[s]) : StepFits(st)'
  BY <1>2, <1>3, <1>4, <1>6 DEF Moves
<1>8. StepsFit'
  BY <1>2, <1>3, <1>5, <1>6, <1>7 DEF StepsFit
<1>9. QED
  BY <1>1, <1>2, <1>4, <1>8

LEMMA MoveGot ==
  ASSUME SyncInv, NEW s \in Syncs, NEW new, NEW ret, Moves(s, new, ret), Grows
  PROVE  GotFits'
<1>1. /\ TypeOK /\ GotFits /\ ret \in [Objects -> Int] /\ new \in Seq(Steps) /\ todo[s] # <<>>
      /\ GoWith(s, new, ret)
  <2>1. TypeOK /\ GotFits
    BY DEF SyncInv
  <2>2. HubIds \cup {None, Skipped} \subseteq Int
    BY <2>1 DEF TypeOK, HubIds, None, Skipped
  <2>3. QED
    BY <2>1, <2>2 DEF Moves
<1>2. /\ todo'[s] = new \o Tail(todo[s])
      /\ new # <<>> => todo'[s] # <<>> /\ Head(todo'[s]) = Head(new) /\ Head(new) \in Elems(new)
      /\ new = <<>> /\ todo'[s] # <<>> => Head(todo'[s]) \in Elems(Tail(todo[s]))
      /\ \A r \in Syncs \ {s} : todo'[r] = todo[r] /\ got'[r] = got[r]
      /\ todo'[s] # <<>> => got'[s] = ret
      /\ todo'[s] = <<>> => got'[s] = NothingGot
  BY <1>1, GoesWith
<1>3. /\ Head(todo[s]) \in Elems(todo[s]) /\ Head(todo[s]) \in Steps
      /\ Elems(todo'[s]) = Elems(new) \cup Elems(Tail(todo[s]))
      /\ \A b \in Elems(Tail(todo[s])) : /\ b \in Elems(todo[s]) /\ b \in Steps
                                         /\ Below(Head(todo[s]), b)
  BY MoveSteps
<1>4. \A n, o : IsOf(n, o) => MadeFor(hub', n, o)
  BY <1>1, IsOfStays DEF IsOf, MadeFor, HubIds
<1>5. ASSUME NEW r \in Syncs, r # s
      PROVE  /\ \A o \in Objects : got'[r][o] = Skipped => IsQuery(o)
             /\ \A o \in Objects : got'[r][o] > 0 /\ Kind(o) # "action" => MadeFor(hub', got'[r][o], o)
             /\ todo'[r] # <<>> /\ Kind(Head(todo'[r]).obj) = "trace"
                => got'[r][Task(Id(Head(todo'[r]).obj))] > 0
             /\ todo'[r] # <<>> /\ Head(todo'[r]).op = "store" /\ Kind(Head(todo'[r]).obj) = "entity"
                => hub'[Head(todo'[r]).saw].scene = got'[r][Scenario]
             /\ \A st \in Elems(todo'[r]) :
                  st.op \in {"check", "robot", "post"} /\ Kind(st.obj) = "action"
                  => \/ \E b \in Elems(todo'[r]) : b.op = "keep" /\ b.obj = st.obj
                     \/ got'[r][st.obj] = None
                     \/ MadeFor(hub', got'[r][st.obj], TaskFor(st.obj))
  <2>1. todo'[r] = todo[r] /\ got'[r] = got[r]
    BY <1>2, <1>5
  <2>2. ASSUME todo[r] # <<>>, Head(todo[r]).op = "store"
        PROVE  hub'[Head(todo[r]).saw] = hub[Head(todo[r]).saw]
    <3>1. Head(todo[r]) \in Elems(todo[r])
      BY <1>1, <2>2, ElemsTail DEF TypeOK
    <3>2. StepFits(Head(todo[r]))
      BY <3>1 DEF SyncInv, StepsFit
    <3>3. Head(todo[r]).saw \in HubIds
      BY <2>2, <3>2 DEF StepFits, IsOf
    <3>4. QED
      BY <3>3 DEF Grows
  <2>3. \A o \in Objects : got[r][o] = Skipped => IsQuery(o)
    BY <1>1 DEF GotFits
  <2>4. \A o \in Objects : got[r][o] > 0 /\ Kind(o) # "action" => IsOf(got[r][o], o)
    BY <1>1 DEF GotFits
  <2>5. /\ todo[r] # <<>> /\ Kind(Head(todo[r]).obj) = "trace"
           => got[r][Task(Id(Head(todo[r]).obj))] > 0
        /\ todo[r] # <<>> /\ Head(todo[r]).op = "store" /\ Kind(Head(todo[r]).obj) = "entity"
           => hub[Head(todo[r]).saw].scene = got[r][Scenario]
    BY <1>1 DEF GotFits, Obj, Saw, Doing
  <2>6. \A st \in Elems(todo[r]) :
          st.op \in {"check", "robot", "post"} /\ Kind(st.obj) = "action"
          => \/ \E b \in Elems(todo[r]) : b.op = "keep" /\ b.obj = st.obj
             \/ got[r][st.obj] = None
             \/ IsOf(got[r][st.obj], TaskFor(st.obj))
    BY <1>1 DEF GotFits, HasTask
  <2>7. QED
    BY <1>4, <2>1, <2>2, <2>3, <2>4, <2>5, <2>6
<1>6. CASE todo'[s] = <<>>
  <2>1. \A o \in Objects : got'[s][o] = 0
    BY <1>2, <1>6 DEF NothingGot, None
  <2>2. Elems(todo'[s]) = {}
    BY <1>6, ElemsOf
  <2>3. \A r \in Syncs : \A st \in Elems(todo'[r]) :
          st.op \in {"check", "robot", "post"} /\ Kind(st.obj) = "action"
          => \/ \E b \in Elems(todo'[r]) : b.op = "keep" /\ b.obj = st.obj
             \/ got'[r][st.obj] = None
             \/ MadeFor(hub', got'[r][st.obj], TaskFor(st.obj))
    BY <1>5, <2>2
  <2>4. \A r \in Syncs : \A o \in Objects :
          /\ got'[r][o] = Skipped => IsQuery(o)
          /\ got'[r][o] > 0 /\ Kind(o) # "action" => MadeFor(hub', got'[r][o], o)
    BY <1>5, <2>1 DEF Skipped
  <2>5. QED
    BY <1>5, <1>6, <2>3, <2>4 DEF GotFits, HasTask, Doing, Obj, Saw, IsOf, MadeFor, HubIds
<1>7. CASE todo'[s] # <<>>
  <2>1. got'[s] = ret
    BY <1>2, <1>7
  <2>2. \A o \in Objects : ret[o] = Skipped => IsQuery(o)
    BY DEF Moves
  <2>3. \A o \in Objects : ret[o] > 0 /\ Kind(o) # "action" => MadeFor(hub', ret[o], o)
    BY <1>4 DEF Moves
  <2>4. /\ Kind(Head(todo'[s]).obj) = "trace" => ret[Task(Id(Head(todo'[s]).obj))] > 0
        /\ Head(todo'[s]).op = "store" /\ Kind(Head(todo'[s]).obj) = "entity"
           => hub'[Head(todo'[s]).saw].scene = ret[Scenario]
    <3>1. CASE new = <<>>
      <4>1. Below(Head(todo[s]), Head(todo'[s]))
        BY <1>2, <1>3, <1>7, <3>1
      <4>2. QED
        BY <4>1 DEF Below
    <3>2. CASE new # <<>>
      BY <1>2, <3>2 DEF Moves
    <3>3. QED
      BY <3>1, <3>2
  <2>5. ASSUME NEW st \in Elems(todo'[s]), st.op \in {"check", "robot", "post"},
               Kind(st.obj) = "action"
        PROVE  \/ \E b \in Elems(todo'[s]) : b.op = "keep" /\ b.obj = st.obj
               \/ ret[st.obj] = None
               \/ MadeFor(hub', ret[st.obj], TaskFor(st.obj))
    <3> DEFINE h == Head(todo[s])
    <3>1. h.obj \in Objects
      BY <1>3 DEF Steps
    <3>2. ASSUME NEW b \in Elems(todo[s]), b.op \in {"check", "robot", "post"},
                 Kind(b.obj) = "action"
          PROVE  \/ \E k \in Elems(todo[s]) : k.op = "keep" /\ k.obj = b.obj
                 \/ got[s][b.obj] = None
                 \/ IsOf(got[s][b.obj], TaskFor(b.obj))
      BY <1>1, <3>2 DEF GotFits, HasTask
    <3>3. todo[s] \in Seq(Steps) /\ Elems(todo[s]) = {h} \cup Elems(Tail(todo[s]))
      BY <1>1, ElemsTail DEF TypeOK
    <3>4. CASE st \in Elems(Tail(todo[s])) /\ st.obj # h.obj
      <4>1. ret[st.obj] = got[s][st.obj] /\ st \in Elems(todo[s])
        BY <1>3, <2>5, <3>4 DEF Moves, Obj, Steps
      <4>2. ASSUME NEW k \in Elems(todo[s]), k.op = "keep", k.obj = st.obj
            PROVE  k \in Elems(todo'[s])
        BY <1>3, <3>3, <3>4, <4>2
      <4>3. QED
        BY <1>4, <2>5, <3>2, <4>1, <4>2
    <3>5. CASE st \in Elems(Tail(todo[s])) /\ st.obj = h.obj
      <4>1. h.op \in {"keep", "robot"} /\ st \in Elems(todo[s])
        <5>1. Below(h, st)
          BY <1>3, <3>5
        <5>2. Rank(h.obj) \in Int
          BY <3>1, Ranks
        <5>3. QED
          BY <1>3, <2>5, <3>5, <5>1, <5>2 DEF Below
      <4>2. CASE h.op = "keep"
        BY <1>4, <3>5, <4>2 DEF Moves, Obj
      <4>3. CASE h.op = "robot"
        <5>1. ret[st.obj] = got[s][st.obj]
          BY <3>5, <4>3 DEF Moves, Obj
        <5>2. ASSUME NEW k \in Elems(todo[s]), k.op = "keep", k.obj = st.obj
              PROVE  k \in Elems(todo'[s])
          BY <1>3, <3>3, <4>3, <5>2
        <5>3. QED
          BY <1>4, <2>5, <3>2, <4>1, <5>1, <5>2
      <4>4. QED
        BY <4>1, <4>2, <4>3
    <3>6. CASE st \in Elems(new)
      <4>1. CASE \E b \in Elems(new) : b.op = "keep" /\ b.obj = st.obj
        BY <1>3, <4>1
      <4>2. CASE /\ st.obj = Obj(s) /\ ret[Obj(s)] = got[s][Obj(s)]
                 /\ Head(todo[s]).op \in {"check", "robot", "post"}
        <5>1. h.obj = st.obj /\ h.op \in {"check", "robot", "post"} /\ ret[st.obj] = got[s][st.obj]
          BY <4>2 DEF Obj
        <5>2. \/ \E k \in Elems(todo[s]) : k.op = "keep" /\ k.obj = st.obj
              \/ got[s][st.obj] = None
              \/ IsOf(got[s][st.obj], TaskFor(st.obj))
          BY <1>3, <2>5, <3>2, <5>1
        <5>3. ASSUME NEW k \in Elems(todo[s]), k.op = "keep"
              PROVE  k \in Elems(todo'[s])
          BY <1>3, <3>3, <5>1, <5>3
        <5>4. QED
          BY <1>4, <5>1, <5>2, <5>3
      <4>3. QED
        BY <2>5, <3>6, <4>1, <4>2 DEF Moves
    <3>7. QED
      BY <1>3, <3>4, <3>5, <3>6
  <2>6. \A r \in Syncs : \A st \in Elems(todo'[r]) :
          st.op \in {"check", "robot", "post"} /\ Kind(st.obj) = "action"
          => \/ \E b \in Elems(todo'[r]) : b.op = "keep" /\ b.obj = st.obj
             \/ got'[r][st.obj] = None
             \/ MadeFor(hub', got'[r][st.obj], TaskFor(st.obj))
    BY <1>5, <2>1, <2>5
  <2>7. \A r \in Syncs : \A o \in Objects :
          /\ got'[r][o] = Skipped => IsQuery(o)
          /\ got'[r][o] > 0 /\ Kind(o) # "action" => MadeFor(hub', got'[r][o], o)
    BY <1>5, <2>1, <2>2, <2>3
  <2>8. QED
    BY <1>5, <1>7, <2>1, <2>4, <2>6, <2>7 DEF GotFits, HasTask, Doing, Obj, Saw, IsOf, MadeFor, HubIds
<1>8. QED
  BY <1>6, <1>7

\* A move keeps the invariant.
LEMMA MoveKeeps ==
  ASSUME SyncInv, NEW s \in Syncs, NEW new, NEW ret, Moves(s, new, ret), Grows
  PROVE  SyncInv'
BY MoveTypes, MoveSteps, MoveGot DEF SyncInv, Grows

-----------------------------------------------------------------------------
\* What the moves do

\* The object of the first step h is mapped or has further steps; a task is followed by its
\* trace, and before its lookup an object has its parent entered.
Continues(h, new) ==
  LET o == h.obj
      further == \E a \in Elems(new) : a.obj = o /\ a.op \notin {"keep", "robot"}
  IN /\ h.op \notin {"keep", "robot"} => further \/ \E k \in DOMAIN map' : k[1] = o
     /\ h.op \notin {"keep", "robot"} /\ Kind(o) = "task"
        => further \/ Enter(Trace(Id(o))) \in Elems(new)
     /\ h.op = "enter" =>
          /\ Kind(o) = "task" => Enter(Run(RunOf[Id(o)])) \in Elems(new)
          /\ Kind(o) = "plan" => Enter(Task(TaskOf[Id(o)])) \in Elems(new)
          /\ Kind(o) = "action" /\ ~IsQuery(o) => Enter(Plan(PlanOf[Id(o)])) \in Elems(new)

\* A lookup has read the mapping; an object is posted unforced if it has no mapping or one of
\* an object that is lost.
Looks(s, h, new) ==
  \A a \in Elems(new) : a.op \in {"check", "post"} /\ Kind(a.obj) \notin Single =>
    /\ a.obj = h.obj
    /\ \/ h.op = "enter" /\ a.op = "check" /\ a.saw = Mapped(<<h.obj, None>>)
       \/ h.op = "enter" /\ a.op = "post" /\ (Forced(s) \/ Mapped(<<h.obj, None>>) = None)
       \/ h.op = "check" /\ a.op = "post" /\ (Forced(s) \/ ~(h.saw > 0) \/ ~Live(h.saw))

\* An object that is made is stored next; what is stored is mapped.
Makes(s, h, new) ==
  /\ \/ hub' = hub
     \/ /\ h.op = "post" /\ hub' = Append(hub, Posted(s))
        /\ new = <<Step("store", h.obj, Len(hub) + 1)>>
  /\ h.op = "store" /\ Kind(h.obj) # "entity" => <<h.obj, None>> \in DOMAIN map'

\* The scene that is found, posted and stored is that of the version read first.
Names(h, new) ==
  /\ \A a \in Elems(new) : a.obj = Scenario /\ a.op \in {"find", "post", "store"} =>
       /\ h.obj = Scenario
       /\ \/ h.op = "enter" /\ a.op = "find" /\ a.saw = version
          \/ h.op = "find" /\ a.op = "post" /\ a.saw = h.saw
          \/ h.op \in {"find", "post"} /\ a.op = "store" /\ hub'[a.saw].name = h.saw
  /\ h.obj = Scenario /\ h.op # "store" => \E a \in Elems(new) : a.obj = Scenario /\ a.op # "keep"
                                                                /\ a.op # "robot"
  /\ h.obj = Scenario /\ h.op = "store" => /\ <<Scenario, None>> \in DOMAIN map'
                                           /\ map'[<<Scenario, None>>] = h.saw
  /\ (h.obj # Scenario \/ h.op # "store") /\ <<Scenario, None>> \in DOMAIN map =>
       map'[<<Scenario, None>>] = map[<<Scenario, None>>]

MoveOf(s, h, new, ret) ==
  /\ h = Head(todo[s]) /\ Moves(s, new, ret) /\ Grows
  /\ Continues(h, new) /\ Looks(s, h, new) /\ Makes(s, h, new) /\ Names(h, new)

\* What is known of the first step of s.
LEMMA FirstStep ==
  ASSUME SyncInv, NEW s \in Syncs, todo[s] # <<>>, NEW h, h = Head(todo[s])
  PROVE  /\ h \in Steps /\ h \in Elems(todo[s]) /\ StepFits(h) /\ h.obj \in Objects /\ h.saw \in Int
         /\ got[s] \in [Objects -> HubIds \cup {None, Skipped}]
         /\ \A o \in Objects : /\ got[s][o] = Skipped => IsQuery(o)
                               /\ got[s][o] > 0 /\ Kind(o) # "action" => IsOf(got[s][o], o)
<1>1. TypeOK /\ StepsFit /\ GotFits
  BY DEF SyncInv
<1>2. todo[s] \in Seq(Steps) /\ got[s] \in [Objects -> HubIds \cup {None, Skipped}]
  BY <1>1 DEF TypeOK
<1>3. h \in Elems(todo[s]) /\ h \in Steps
  BY <1>2, ElemsTail
<1>4. StepFits(h)
  BY <1>1, <1>3 DEF StepsFit
<1>5. QED
  BY <1>1, <1>2, <1>3, <1>4 DEF GotFits, Steps

LEMMA SteadyGrows ==
  ASSUME SyncInv, UNCHANGED <<version, hub, lost, map, asked, at, before>>, refused' \subseteq Objects
  PROVE  Grows
<1>1. TypeOK /\ MapFits /\ HubFits /\ IdsAreOwn
  BY DEF SyncInv
<1>2. HubIds' = HubIds
  BY DEF HubIds
<1>3. MapFits'
  BY <1>1 DEF MapFits
<1>4. HubFits'
  BY <1>1, <1>2 DEF HubFits
<1>5. IdsAreOwn'
  BY <1>1, <1>2 DEF IdsAreOwn
<1>6. Len(hub) <= Len(hub')
  BY <1>1 DEF TypeOK
<1>7. QED
  BY <1>1, <1>2, <1>3, <1>4, <1>5, <1>6 DEF Grows, TypeOK

LEMMA PlainKey ==
  ASSUME NEW o, NEW scene
  PROVE  /\ Kind(o) # "entity" => KeyOf(o, scene) = <<o, None>>
         /\ Kind(o) = "entity" => KeyOf(o, scene) = <<o, scene>>
BY DEF KeyOf

\* s returns with the Hub id of an object that is its own and mapped, or with none for a query.
LEMMA ReturnMoves ==
  ASSUME SyncInv, NEW s \in Syncs, todo[s] # <<>>, NEW h, h = Head(todo[s]),
         h.op \in {"enter", "check", "store"}, NEW n, Return(s, h.obj, n), Grows,
         IsOf(n, h.obj) \/ (n = Skipped /\ IsQuery(h.obj)),
         \E k \in DOMAIN map' : k[1] = h.obj,
         h.op = "enter" => Kind(h.obj) \notin {"task", "plan"},
         h.op = "enter" /\ Kind(h.obj) = "action" => IsQuery(h.obj)
  PROVE  \E new, ret : /\ Moves(s, new, ret) /\ Continues(h, new) /\ Looks(s, h, new)
                       /\ \A a \in Elems(new) : a.op = "enter" /\ Kind(a.obj) = "trace"
<1> DEFINE o == h.obj
<1>1. /\ h \in Steps /\ o \in Objects /\ got[s] \in [Objects -> HubIds \cup {None, Skipped}]
      /\ \A p \in Objects : /\ got[s][p] = Skipped => IsQuery(p)
                            /\ got[s][p] > 0 /\ Kind(p) # "action" => IsOf(got[s][p], p)
  BY FirstStep
<1>2. PICK new : new = IF Kind(o) = "task" THEN <<Enter(Trace(Id(o)))>> ELSE <<>>
  OBVIOUS
<1>3. PICK ret : ret = [got[s] EXCEPT ![o] = n]
  OBVIOUS
<1>4. GoWith(s, new, ret) /\ Obj(s) = o
  BY <1>2, <1>3 DEF Return, Obj
<1>5. /\ n \in HubIds \cup {Skipped} /\ (n = Skipped => IsQuery(o))
      /\ n > 0 /\ Kind(o) # "action" => IsOf(n, o)
  <2>1. n \in HubIds => n # Skipped
    BY DEF HubIds, Skipped, SyncInv, TypeOK
  <2>2. IsOf(n, o) => n \in HubIds
    BY DEF IsOf
  <2>3. Skipped = -1
    BY DEF Skipped
  <2>4. QED
    BY <2>1, <2>2, <2>3
<1>6. ret \in [Objects -> HubIds \cup {None, Skipped}]
  BY <1>1, <1>3, <1>5
<1>7. \A p \in Objects : /\ ret[p] = Skipped => IsQuery(p)
                         /\ ret[p] > 0 /\ Kind(p) # "action" => IsOf(ret[p], p)
                         /\ Kind(p) = "action" /\ p # o => ret[p] = got[s][p]
  <2>1. \A p \in Objects : ret[p] = IF p = o THEN n ELSE got[s][p]
    BY <1>1, <1>3
  <2>2. QED
    BY <1>1, <1>5, <2>1
<1>8. CASE Kind(o) = "task"
  <2> DEFINE t == Trace(Id(o))
  <2>1. /\ t \in Objects /\ Kind(t) = "trace" /\ Id(t) = Id(o) /\ o = Task(Id(o))
    BY <1>1, <1>8, Parents, KindsOfObjects
  <2>2. new = <<Enter(t)>> /\ Enter(t).op = "enter" /\ Enter(t).obj = t /\ Enter(t).saw = None
        /\ Enter(t) \in Steps
    <3>1. new = <<Enter(t)>>
      BY <1>2, <1>8
    <3>2. t \in Objects
      BY <2>1
    <3> HIDE DEF t
    <3>3. QED
      BY <3>1, <3>2 DEF Enter, Step, Steps, None
  <2> HIDE DEF t
  <2>3. /\ Elems(new) = {Enter(t)} /\ new \in Seq(Steps) /\ Nest(new) /\ Head(new) = Enter(t)
    BY <2>2, ElemsOf DEF Nest
  <2>4. StepFits(Enter(t))'
    BY <2>2 DEF StepFits
  <2>5. InPlace(Enter(t), h)
    BY <1>8, <2>1, <2>2 DEF InPlace
  <2>6. n > 0 /\ ret[o] = n
    <3>1. ~IsQuery(o)
      BY <1>8 DEF IsQuery
    <3>2. n \in HubIds
      BY <1>5, <3>1
    <3>3. QED
      BY <1>1, <1>3, <3>2 DEF HubIds, SyncInv, TypeOK
  <2>7. ret[Task(Id(Head(new).obj))] > 0
    BY <2>1, <2>2, <2>3, <2>6
  <2>8. Moves(s, new, ret)
    <3>1. \A a \in Elems(new) : InPlace(a, Head(todo[s])) /\ StepFits(a)'
      BY <2>3, <2>4, <2>5
    <3>2. \A a \in Elems(new) : a.op = "enter"
      BY <2>2, <2>3
    <3>3. Head(new).op = "enter"
      BY <2>2, <2>3
    <3>4. QED
      BY <1>4, <1>6, <1>7, <2>3, <2>7, <3>1, <3>2, <3>3 DEF Moves
  <2>9. Looks(s, h, new)
    BY <2>2, <2>3 DEF Looks
  <2>10. Continues(h, new)
    BY <1>8, <2>3 DEF Continues, t
  <2>11. QED
    BY <2>1, <2>2, <2>3, <2>8, <2>9, <2>10
<1>9. CASE Kind(o) # "task"
  <2>1. new = <<>> /\ Elems(new) = {} /\ new \in Seq(Steps) /\ Nest(new)
    BY <1>2, <1>9, ElemsOf DEF Nest
  <2>2. Moves(s, new, ret)
    BY <1>4, <1>6, <1>7, <2>1 DEF Moves
  <2>3. Looks(s, h, new) /\ Continues(h, new)
    BY <1>9, <2>1 DEF Looks, Continues
  <2>4. QED
    BY <2>1, <2>2, <2>3
<1>10. QED
  BY <1>8, <1>9

\* s goes on to post the object of its first step, which is not reused.
LEMMA RenewMoves ==
  ASSUME SyncInv, NEW s \in Syncs, todo[s] # <<>>, NEW h, h = Head(todo[s]),
         NEW ret \in [Objects -> HubIds \cup {None, Skipped}],
         GoWith(s, Renew(h.obj), ret), Grows,
         \A o \in Objects : /\ ret[o] = Skipped => IsQuery(o)
                            /\ ret[o] > 0 /\ Kind(o) # "action" => IsOf(ret[o], o)
                            /\ Kind(o) = "action" => ret[o] = got[s][o],
         Kind(h.obj) = "trace" => ret[Task(Id(h.obj))] > 0,
         ~IsQuery(h.obj), Kind(h.obj) # "scene",
         \/ h.op = "enter" /\ Kind(h.obj) \notin {"task", "plan", "action"}
         \/ h.op = "check",
         Kind(h.obj) \notin Single =>
           \/ h.op = "enter" /\ (Forced(s) \/ Mapped(<<h.obj, None>>) = None)
           \/ h.op = "check" /\ (Forced(s) \/ ~(h.saw > 0) \/ ~Live(h.saw))
  PROVE  /\ Moves(s, Renew(h.obj), ret) /\ Continues(h, Renew(h.obj)) /\ Looks(s, h, Renew(h.obj))
         /\ \A a \in Elems(Renew(h.obj)) : a.op \in {"find", "post", "store"} => a.obj # Scenario
<1> DEFINE o == h.obj
<1>1. h \in Steps /\ o \in Objects /\ Obj(s) = o
  BY FirstStep DEF Obj
<1>2. PICK new : new = Renew(o)
  OBVIOUS
<1>3. /\ new \in Seq(Steps) /\ new # <<>> /\ Nest(new)
      /\ Step("post", o, None) \in Elems(new)
      /\ \A a \in Elems(new) :
           \/ a \in EnterSteps /\ Rank(a.obj) < Rank(o)
           \/ Kind(o) = "action" /\ a = Step("robot", o, None)
           \/ a = Step("post", o, None)
  BY <1>1, <1>2, RenewSteps
<1>4. \A a \in Elems(new) :
        \/ a.op = "enter" /\ a.saw = None /\ Kind(a.obj) # "trace" /\ Rank(a.obj) < Rank(o)
        \/ a.op = "robot" /\ a.obj = o /\ Kind(o) = "action"
        \/ a.op = "post" /\ a.obj = o
  BY <1>3, EnterStepsFit, StepFields
<1>5. \A a \in Elems(new) : InPlace(a, h)
  BY <1>4 DEF InPlace
<1>6. ASSUME NEW a \in Elems(new)
      PROVE  StepFits(a)'
  BY <1>4 DEF StepFits
<1>7. Head(new) \in Elems(new)
  BY <1>3, ElemsTail
<1>8. Moves(s, new, ret)
  <2>1. Kind(Head(new).obj) = "trace" => Head(new).obj = o
    BY <1>4, <1>7
  <2>2. \A a \in Elems(new) : a.op \in {"check", "robot", "post"} /\ Kind(a.obj) = "action"
          => a.obj = o /\ ret[o] = got[s][o] /\ h.op \in {"check", "robot", "post"}
    BY <1>1, <1>4
  <2>3. Head(new).op # "store"
    BY <1>4, <1>7
  <2>4. h.op \notin {"keep", "robot"}
    OBVIOUS
  <2>5. GoWith(s, new, ret)
    BY <1>2
  <2>6. \A p \in Objects : /\ ret[p] = Skipped => IsQuery(p)
                           /\ ret[p] > 0 /\ Kind(p) # "action" => IsOf(ret[p], p)
                           /\ Kind(p) = "action" /\ p # Obj(s) => ret[p] = got[s][p]
    OBVIOUS
  <2>7. /\ Head(todo[s]).op = "keep" => ret[Obj(s)] = None \/ IsOf(ret[Obj(s)], TaskFor(Obj(s)))
        /\ Head(todo[s]).op = "robot" => ret[Obj(s)] = got[s][Obj(s)]
    BY <2>4
  <2>8. new # <<>> /\ Kind(Head(new).obj) = "trace" => ret[Task(Id(Head(new).obj))] > 0
    BY <2>1
  <2>9. QED
    BY <1>1, <1>3, <1>5, <1>6, <2>2, <2>3, <2>5, <2>6, <2>7, <2>8 DEF Moves
<1>9. Continues(h, new)
  <2>1. Step("post", o, None).obj = o /\ Step("post", o, None).op = "post"
    BY StepFields
  <2>2. QED
    BY <1>3, <2>1 DEF Continues
<1>10. Looks(s, h, new)
  BY <1>4 DEF Looks
<1>11. \A a \in Elems(new) : a.op \in {"find", "post", "store"} => a.obj # Scenario
  BY <1>4, ObjectKinds
<1>12. QED
  BY <1>2, <1>8, <1>9, <1>10, <1>11

\* s goes on with one step for the same object.
LEMMA OneMoves ==
  ASSUME SyncInv, NEW s \in Syncs, todo[s] # <<>>, NEW h, h = Head(todo[s]),
         h.op \in {"enter", "find", "post"}, h.op = "enter" => h.obj = Scenario,
         NEW a \in Steps, a.obj = h.obj, a.op \in {"find", "post", "store"},
         a.op = "post" => a.obj = Scenario,
         Go(s, <<a>>), Grows, StepFits(a)',
         a.op = "store" /\ Kind(a.obj) = "entity" => hub'[a.saw].scene = got[s][Scenario]
  PROVE  Moves(s, <<a>>, got[s]) /\ Continues(h, <<a>>) /\ Looks(s, h, <<a>>)
<1>1. /\ h \in Steps /\ h.obj \in Objects /\ Obj(s) = h.obj
      /\ got[s] \in [Objects -> HubIds \cup {None, Skipped}]
      /\ \A p \in Objects : /\ got[s][p] = Skipped => IsQuery(p)
                            /\ got[s][p] > 0 /\ Kind(p) # "action" => IsOf(got[s][p], p)
  BY FirstStep DEF Obj
<1>2. PICK new : new = <<a>>
  OBVIOUS
<1>3. /\ new \in Seq(Steps) /\ new # <<>> /\ Elems(new) = {a} /\ Head(new) = a /\ Nest(new)
  BY <1>2, ElemsOf DEF Nest
<1>4. InPlace(a, h)
  BY DEF InPlace
<1>5. Kind(a.obj) = "trace" => got[s][Task(Id(a.obj))] > 0
  BY <1>1 DEF SyncInv, GotFits
<1>6. a.op = "post" => Kind(a.obj) = "scene"
  BY ObjectKinds
<1>7. Moves(s, new, got[s])
  <2>1. GoWith(s, new, got[s])
    BY <1>2 DEF Go
  <2>2. \A b \in Elems(new) : InPlace(b, Head(todo[s])) /\ StepFits(b)'
    BY <1>3, <1>4
  <2>3. \A b \in Elems(new) : ~(b.op \in {"check", "robot", "post"} /\ Kind(b.obj) = "action")
    BY <1>3, <1>6
  <2>4. /\ new # <<>> /\ Kind(Head(new).obj) = "trace" => got[s][Task(Id(Head(new).obj))] > 0
        /\ new # <<>> /\ Head(new).op = "store" /\ Kind(Head(new).obj) = "entity"
           => hub'[Head(new).saw].scene = got[s][Scenario]
    BY <1>3, <1>5
  <2>5. Head(todo[s]).op \notin {"keep", "robot"}
    OBVIOUS
  <2>6. QED
    BY <1>1, <1>3, <2>1, <2>2, <2>3, <2>4, <2>5 DEF Moves
<1>8. Continues(h, new)
  BY <1>3, ObjectKinds DEF Continues
<1>9. Looks(s, h, new)
  BY <1>3, <1>6 DEF Looks, Single
<1>10. QED
  BY <1>2, <1>7, <1>8, <1>9

LEMMA EnterSceneMoves ==
  ASSUME SyncInv, NEW s \in Syncs, EnterScene(s)
  PROVE  \E h, new, ret : MoveOf(s, h, new, ret)
<1>1. PICK h : h = Head(todo[s])
  OBVIOUS
<1>2. PICK a : a = Step("find", Scenario, version)
  OBVIOUS
<1>3. todo[s] # <<>> /\ h.op = "enter" /\ h.obj = Scenario /\ Go(s, <<a>>)
  BY <1>1, <1>2 DEF EnterScene, Doing, Obj
<1>4. Grows
  BY SteadyGrows DEF EnterScene, SyncInv, TypeOK, request
<1>5. a \in Steps /\ a.op = "find" /\ a.obj = Scenario /\ a.saw = version /\ version \in Nat
  <2>1. version \in Nat
    BY DEF SyncInv, TypeOK
  <2>2. QED
    BY <1>2, <2>1, StepFields, ObjectKinds
<1>6. StepFits(a)'
  BY <1>5 DEF StepFits
<1>7. Moves(s, <<a>>, got[s]) /\ Continues(h, <<a>>) /\ Looks(s, h, <<a>>)
  BY <1>1, <1>3, <1>4, <1>5, <1>6, OneMoves
<1>8. Elems(<<a>>) = {a}
  BY ElemsOf
<1>9. Names(h, <<a>>)
  BY <1>3, <1>5, <1>8 DEF Names, EnterScene
<1>10. Makes(s, h, <<a>>)
  BY <1>3 DEF Makes, EnterScene
<1>11. QED
  BY <1>1, <1>4, <1>7, <1>9, <1>10 DEF MoveOf

LEMMA FindSceneMoves ==
  ASSUME SyncInv, NEW s \in Syncs, FindScene(s)
  PROVE  \E h, new, ret : MoveOf(s, h, new, ret)
<1>1. PICK h : h = Head(todo[s])
  OBVIOUS
<1>2. todo[s] # <<>> /\ h.op = "find" /\ Saw(s) = h.saw
  BY <1>1 DEF FindScene, Doing, Saw
<1>3. Grows
  BY SteadyGrows DEF FindScene, SyncInv, TypeOK, request
<1>4. h.obj = Scenario /\ h.saw \in Nat /\ h \in Steps
  BY <1>1, <1>2, FirstStep DEF StepFits
<1>5. PICK a : /\ Go(s, <<a>>)
               /\ \/ a = Step("post", Scenario, h.saw)
                  \/ \E n \in Same(Scenario, h.saw, None) : a = Step("store", Scenario, n)
  BY <1>2 DEF FindScene
<1>6. /\ a \in Steps /\ a.obj = Scenario /\ a.op \in {"post", "store"} /\ Kind(a.obj) = "scene"
      /\ a.op = "post" => a.saw = h.saw
      /\ a.op = "store" => IsOf(a.saw, Scenario) /\ hub[a.saw].name = h.saw
  <2>1. CASE a = Step("post", Scenario, h.saw)
    BY <1>4, <2>1, StepFields, ObjectKinds
  <2>2. CASE \E n \in Same(Scenario, h.saw, None) : a = Step("store", Scenario, n)
    <3>1. PICK n \in Same(Scenario, h.saw, None) : a = Step("store", Scenario, n)
      BY <2>2
    <3>2. n \in HubIds /\ hub[n].of = Scenario /\ hub[n].name = h.saw /\ n \in Int
      BY <3>1, ObjectKinds DEF Same, HubIds, SyncInv, TypeOK
    <3>3. QED
      BY <3>1, <3>2, StepFields, ObjectKinds DEF IsOf
  <2>3. QED
    BY <1>5, <2>1, <2>2
<1>7. ~IsQuery(Scenario)
  BY ObjectKinds DEF IsQuery
<1>8. StepFits(a)'
  <2>1. StepFits(a)
    BY <1>4, <1>6, <1>7 DEF StepFits
  <2>2. QED
    BY <1>3, <2>1, IsOfStays DEF SyncInv
<1>9. Moves(s, <<a>>, got[s]) /\ Continues(h, <<a>>) /\ Looks(s, h, <<a>>)
  BY <1>1, <1>2, <1>3, <1>4, <1>5, <1>6, <1>8, OneMoves
<1>10. Elems(<<a>>) = {a}
  BY ElemsOf
<1>11. hub' = hub /\ map' = map
  BY DEF FindScene
<1>12. Names(h, <<a>>)
  BY <1>2, <1>4, <1>6, <1>10, <1>11 DEF Names
<1>13. Makes(s, h, <<a>>)
  BY <1>2, <1>11 DEF Makes
<1>14. QED
  BY <1>1, <1>3, <1>9, <1>12, <1>13 DEF MoveOf

\* What the table says of an object.
LEMMA MappedFits ==
  ASSUME SyncInv, NEW key
  PROVE  /\ Mapped(key) \in HubIds \cup {None, Skipped} /\ Mapped(key) \in Int
         /\ Mapped(key) # None <=> key \in DOMAIN map
         /\ Mapped(key) = Skipped => IsQuery(key[1])
         /\ Mapped(key) > 0 => /\ IsOf(Mapped(key), key[1])
                               /\ Kind(key[1]) = "entity" => hub[Mapped(key)].scene = key[2]
         /\ IsQuery(key[1]) => ~(Mapped(key) > 0)
<1>1. TypeOK /\ MapFits /\ IdsAreOwn
  BY DEF SyncInv
<1>2. \A n \in HubIds : n \in Int /\ n > 0 /\ n # Skipped /\ n # None
  BY <1>1 DEF TypeOK, HubIds, Skipped, None
<1>3. None \in Int /\ Skipped \in Int /\ ~(None > 0) /\ ~(Skipped > 0) /\ None # Skipped
  BY DEF None, Skipped
<1>4. CASE key \in DOMAIN map
  <2>1. Mapped(key) = map[key] /\ map[key] \in HubIds \cup {Skipped}
    BY <1>1, <1>4 DEF Mapped, TypeOK
  <2>2. map[key] # Skipped => /\ hub[map[key]].of = key[1]
                              /\ Kind(key[1]) = "entity" => hub[map[key]].scene = key[2]
    BY <1>1, <1>4 DEF IdsAreOwn
  <2>3. map[key] = Skipped <=> IsQuery(key[1])
    BY <1>1, <1>4 DEF MapFits
  <2>4. QED
    BY <1>2, <1>3, <1>4, <2>1, <2>2, <2>3 DEF IsOf
<1>5. CASE key \notin DOMAIN map
  <2>1. Mapped(key) = None
    BY <1>5 DEF Mapped
  <2>2. QED
    BY <1>3, <1>5, <2>1
<1>6. QED
  BY <1>4, <1>5

\* A move that leaves the Hub, the table and the scenario alone.
LEMMA SteadyMoves ==
  ASSUME SyncInv, NEW s \in Syncs, NEW h, h = Head(todo[s]), NEW new, NEW ret,
         UNCHANGED <<hub, map>>, Grows, Moves(s, new, ret), Continues(h, new), Looks(s, h, new),
         h.obj # Scenario, h.op # "store",
         \A a \in Elems(new) : a.op \in {"find", "post", "store"} => a.obj # Scenario
  PROVE  \E g, n, r : MoveOf(s, g, n, r)
<1>1. Names(h, new)
  BY DEF Names
<1>2. Makes(s, h, new)
  BY DEF Makes
<1>3. QED
  BY <1>1, <1>2 DEF MoveOf

LEMMA EnterMappedMoves ==
  ASSUME SyncInv, NEW s \in Syncs, EnterMapped(s)
  PROVE  \E h, new, ret : MoveOf(s, h, new, ret)
<1>1. PICK h : h = Head(todo[s])
  OBVIOUS
<1>2. PICK key : key = KeyOf(h.obj, got[s][Scenario])
  OBVIOUS
<1>3. /\ todo[s] # <<>> /\ h.op = "enter" /\ Kind(h.obj) \in {"entity", "run"}
      /\ IF Reusable(s, h.obj, Mapped(key)) THEN Return(s, h.obj, Mapped(key))
                                            ELSE Go(s, Renew(h.obj))
      /\ UNCHANGED <<hub, map>>
  BY <1>1, <1>2 DEF EnterMapped, Doing, Obj
<1>4. Grows
  BY SteadyGrows DEF EnterMapped, SyncInv, TypeOK, request
<1>5. h.obj # Scenario /\ ~IsQuery(h.obj) /\ Kind(h.obj) \in Single
  BY <1>3, ObjectKinds DEF IsQuery, Single
<1>6. key[1] = h.obj
  BY <1>2 DEF KeyOf
<1>7. CASE Reusable(s, h.obj, Mapped(key))
  <2>1. Mapped(key) > 0
    BY <1>7 DEF Reusable
  <2>2. IsOf(Mapped(key), h.obj) /\ key \in DOMAIN map'
    BY <1>3, <1>6, <2>1, MappedFits DEF None
  <2>3. \E new, ret : /\ Moves(s, new, ret) /\ Continues(h, new) /\ Looks(s, h, new)
                      /\ \A a \in Elems(new) : a.op = "enter" /\ Kind(a.obj) = "trace"
    BY <1>1, <1>3, <1>4, <1>5, <1>6, <1>7, <2>2, ReturnMoves
  <2>4. QED
    BY <1>1, <1>3, <1>4, <1>5, <2>3, SteadyMoves
<1>8. CASE ~Reusable(s, h.obj, Mapped(key))
  <2>1. GoWith(s, Renew(h.obj), got[s])
    BY <1>3, <1>8 DEF Go
  <2>2. /\ got[s] \in [Objects -> HubIds \cup {None, Skipped}]
        /\ \A o \in Objects : /\ got[s][o] = Skipped => IsQuery(o)
                              /\ got[s][o] > 0 /\ Kind(o) # "action" => IsOf(got[s][o], o)
    BY <1>1, <1>3, FirstStep
  <2>3. /\ Moves(s, Renew(h.obj), got[s]) /\ Continues(h, Renew(h.obj))
        /\ Looks(s, h, Renew(h.obj))
        /\ \A a \in Elems(Renew(h.obj)) : a.op \in {"find", "post", "store"} => a.obj # Scenario
    BY <1>1, <1>3, <1>4, <1>5, <2>1, <2>2, RenewMoves
  <2>4. QED
    BY <1>1, <1>3, <1>4, <1>5, <2>3, SteadyMoves
<1>9. QED
  BY <1>7, <1>8

LEMMA EnterTraceMoves ==
  ASSUME SyncInv, NEW s \in Syncs, EnterTrace(s)
  PROVE  \E h, new, ret : MoveOf(s, h, new, ret)
<1>1. PICK h : h = Head(todo[s])
  OBVIOUS
<1>2. PICK existing : existing = Mapped(<<h.obj, None>>)
  OBVIOUS
<1>3. /\ todo[s] # <<>> /\ h.op = "enter" /\ Kind(h.obj) = "trace"
      /\ UNCHANGED <<hub, map>>
  BY <1>1 DEF EnterTrace, Doing, Obj
<1>4. Grows
  BY SteadyGrows DEF EnterTrace, SyncInv, TypeOK, request
<1>5. h.obj # Scenario /\ ~IsQuery(h.obj)
  BY <1>3, ObjectKinds DEF IsQuery
<1>6. IF existing # None /\ ~Forced(s) THEN Return(s, h.obj, existing) ELSE Go(s, Renew(h.obj))
  BY <1>1, <1>2, <1>3, PlainKey DEF EnterTrace, Obj
<1>7. CASE existing # None /\ ~Forced(s)
  <2>1. <<h.obj, None>>[1] = h.obj
    OBVIOUS
  <2>2. <<h.obj, None>> \in DOMAIN map' /\ existing # Skipped /\ existing \in HubIds
    BY <1>2, <1>3, <1>5, <1>7, <2>1, MappedFits
  <2>3. existing > 0
    BY <2>2 DEF HubIds, SyncInv, TypeOK
  <2>4. IsOf(existing, h.obj)
    BY <1>2, <2>1, <2>3, MappedFits
  <2>5. \E new, ret : /\ Moves(s, new, ret) /\ Continues(h, new) /\ Looks(s, h, new)
                      /\ \A a \in Elems(new) : a.op = "enter" /\ Kind(a.obj) = "trace"
    BY <1>1, <1>3, <1>4, <1>5, <1>6, <1>7, <2>1, <2>2, <2>4, ReturnMoves
  <2>6. QED
    BY <1>1, <1>3, <1>4, <1>5, <2>5, SteadyMoves
<1>8. CASE ~(existing # None /\ ~Forced(s))
  <2>1. GoWith(s, Renew(h.obj), got[s])
    BY <1>6, <1>8 DEF Go
  <2>2. /\ got[s] \in [Objects -> HubIds \cup {None, Skipped}]
        /\ \A o \in Objects : /\ got[s][o] = Skipped => IsQuery(o)
                              /\ got[s][o] > 0 /\ Kind(o) # "action" => IsOf(got[s][o], o)
    BY <1>1, <1>3, FirstStep
  <2>3. got[s][Task(Id(h.obj))] > 0
    BY <1>1, <1>3 DEF SyncInv, GotFits, Obj
  <2>4. Forced(s) \/ Mapped(<<h.obj, None>>) = None
    BY <1>2, <1>8
  <2>5. /\ Moves(s, Renew(h.obj), got[s]) /\ Continues(h, Renew(h.obj))
        /\ Looks(s, h, Renew(h.obj))
        /\ \A a \in Elems(Renew(h.obj)) : a.op \in {"find", "post", "store"} => a.obj # Scenario
    BY <1>1, <1>3, <1>4, <1>5, <2>1, <2>2, <2>3, <2>4, RenewMoves
  <2>6. QED
    BY <1>1, <1>3, <1>4, <1>5, <2>5, SteadyMoves
<1>9. QED
  BY <1>7, <1>8

LEMMA EnterChildMoves ==
  ASSUME SyncInv, NEW s \in Syncs, EnterChild(s)
  PROVE  \E h, new, ret : MoveOf(s, h, new, ret)
<1>1. PICK h : h = Head(todo[s])
  OBVIOUS
<1>2. PICK existing : existing = Mapped(<<h.obj, None>>)
  OBVIOUS
<1>3. PICK new : new = Climb(h.obj, existing)
  OBVIOUS
<1>4. /\ todo[s] # <<>> /\ h.op = "enter" /\ Kind(h.obj) \in {"task", "plan", "action"}
      /\ ~IsQuery(h.obj) /\ UNCHANGED <<hub, map>>
  BY <1>1 DEF EnterChild, Doing, Obj, IsQuery
<1>5. Grows
  BY SteadyGrows DEF EnterChild, SyncInv, TypeOK, request
<1>6. GoWith(s, new, got[s])
  <2>1. KeyOf(h.obj, None) = <<h.obj, None>>
    BY <1>4, PlainKey
  <2>2. QED
    BY <1>1, <1>2, <1>3, <1>4, <2>1 DEF EnterChild, Obj, Go, Climb, TaskFor
<1>7. /\ h \in Steps /\ h.obj \in Objects
      /\ got[s] \in [Objects -> HubIds \cup {None, Skipped}]
      /\ \A o \in Objects : /\ got[s][o] = Skipped => IsQuery(o)
                            /\ got[s][o] > 0 /\ Kind(o) # "action" => IsOf(got[s][o], o)
  BY <1>1, <1>4, FirstStep
<1>8. /\ existing \in Int
      /\ existing # None => IsOf(existing, h.obj) /\ <<h.obj, None>> \in DOMAIN map
  <2>1. <<h.obj, None>>[1] = h.obj
    OBVIOUS
  <2>2. existing \in HubIds \cup {None}
    BY <1>2, <1>4, <2>1, MappedFits
  <2>3. existing \in HubIds => existing > 0 /\ existing # None
    BY DEF HubIds, SyncInv, TypeOK, None
  <2>4. /\ existing \in Int
        /\ existing # None => <<h.obj, None>> \in DOMAIN map
        /\ existing > 0 => IsOf(existing, h.obj)
    BY <1>2, <2>1, MappedFits
  <2>5. QED
    BY <2>2, <2>3, <2>4
<1>9. /\ new \in Seq(Steps) /\ new # <<>> /\ Nest(new)
      /\ Step("check", h.obj, existing) \in Elems(new)
      /\ Kind(h.obj) = "task" => Enter(Run(RunOf[Id(h.obj)])) \in Elems(new)
      /\ Kind(h.obj) = "plan" => Enter(Task(TaskOf[Id(h.obj)])) \in Elems(new)
      /\ Kind(h.obj) = "action" => /\ Enter(Plan(PlanOf[Id(h.obj)])) \in Elems(new)
                                   /\ Step("keep", h.obj, None) \in Elems(new)
      /\ \A a \in Elems(new) :
           \/ a \in EnterSteps /\ Rank(a.obj) < Rank(h.obj)
           \/ Kind(h.obj) = "action" /\ a = Step("keep", h.obj, None)
           \/ a = Step("check", h.obj, existing)
      /\ Head(new).op = "enter" /\ Kind(Head(new).obj) # "trace"
  BY <1>3, <1>4, <1>7, <1>8, ClimbSteps
<1>10. \A a \in Elems(new) :
         \/ a.op = "enter" /\ a.saw = None /\ Rank(a.obj) < Rank(h.obj)
         \/ a.op = "keep" /\ a.obj = h.obj /\ Kind(h.obj) = "action"
         \/ a.op = "check" /\ a.obj = h.obj /\ a.saw = existing
  BY <1>9, EnterStepsFit, StepFields
<1>11. \A a \in Elems(new) : InPlace(a, h)
  BY <1>4, <1>10 DEF InPlace
<1>12. \A a \in Elems(new) : StepFits(a)'
  <2>1. ASSUME NEW a \in Elems(new)
        PROVE  StepFits(a)
    BY <1>4, <1>8, <1>10 DEF StepFits
  <2>2. QED
    BY <1>5, <2>1, IsOfStays DEF SyncInv
<1>13. Moves(s, new, got[s])
  <2>1. \A a \in Elems(new) :
          a.op \in {"check", "robot", "post"} /\ Kind(a.obj) = "action" =>
            \E b \in Elems(new) : b.op = "keep" /\ b.obj = a.obj
    <3>1. Step("keep", h.obj, None).op = "keep" /\ Step("keep", h.obj, None).obj = h.obj
      BY StepFields
    <3>2. QED
      BY <1>9, <1>10, <3>1
  <2>2. Head(todo[s]).op \notin {"keep", "robot"}
    BY <1>1, <1>4
  <2>3. QED
    BY <1>1, <1>4, <1>6, <1>7, <1>9, <1>11, <1>12, <2>1, <2>2 DEF Moves
<1>14. Continues(h, new)
  <2>1. Step("check", h.obj, existing).obj = h.obj /\ Step("check", h.obj, existing).op = "check"
    BY StepFields
  <2>2. QED
    BY <1>9, <2>1 DEF Continues
<1>15. Looks(s, h, new)
  BY <1>2, <1>4, <1>10 DEF Looks
<1>16. QED
  BY <1>1, <1>4, <1>5, <1>10, <1>13, <1>14, <1>15, SteadyMoves, ObjectKinds

LEMMA KeepTaskMoves ==
  ASSUME SyncInv, NEW s \in Syncs, KeepTask(s)
  PROVE  \E h, new, ret : MoveOf(s, h, new, ret)
<1>1. PICK h : h = Head(todo[s])
  OBVIOUS
<1>2. /\ todo[s] # <<>> /\ h.op = "keep" /\ Obj(s) = h.obj /\ UNCHANGED <<hub, map>>
  BY <1>1 DEF KeepTask, Doing, Obj
<1>3. Grows
  BY SteadyGrows DEF KeepTask, SyncInv, TypeOK, request
<1>4. /\ h \in Steps /\ h.obj \in Objects /\ Kind(h.obj) = "action"
      /\ got[s] \in [Objects -> HubIds \cup {None, Skipped}]
      /\ \A o \in Objects : /\ got[s][o] = Skipped => IsQuery(o)
                            /\ got[s][o] > 0 /\ Kind(o) # "action" => IsOf(got[s][o], o)
  BY <1>1, <1>2, FirstStep DEF StepFits
<1>5. PICK n : n = got[s][TaskFor(h.obj)]
  OBVIOUS
<1>6. PICK ret : ret = [got[s] EXCEPT ![h.obj] = n]
  OBVIOUS
<1>7. GoWith(s, <<>>, ret)
  BY <1>2, <1>5, <1>6 DEF KeepTask, TaskFor
<1>8. n = None \/ IsOf(n, TaskFor(h.obj))
  <2>1. TaskFor(h.obj) \in Objects /\ Kind(TaskFor(h.obj)) = "task"
    BY <1>4, Parents
  <2>2. n \in HubIds \cup {None}
    BY <1>4, <1>5, <2>1 DEF IsQuery
  <2>3. n \in HubIds => n > 0
    BY DEF HubIds, SyncInv, TypeOK
  <2>4. QED
    BY <1>4, <1>5, <2>1, <2>2, <2>3
<1>9. ret \in [Objects -> HubIds \cup {None, Skipped}] /\ n # Skipped
  BY <1>4, <1>6, <1>8 DEF IsOf, None, Skipped, HubIds, SyncInv, TypeOK
<1>10. /\ ret[h.obj] = n
       /\ \A o \in Objects : o # h.obj => ret[o] = got[s][o]
  BY <1>4, <1>6
<1>11. Elems(<<>>) = {}
  BY ElemsOf
<1>12. Moves(s, <<>>, ret)
  <2>1. <<>> \in Seq(Steps) /\ Nest(<<>>)
    BY DEF Nest
  <2>2. \A o \in Objects : /\ ret[o] = Skipped => IsQuery(o)
                           /\ ret[o] > 0 /\ Kind(o) # "action" => IsOf(ret[o], o)
                           /\ Kind(o) = "action" /\ o # Obj(s) => ret[o] = got[s][o]
    BY <1>2, <1>4, <1>9, <1>10
  <2>3. Head(todo[s]).op = "keep"
    BY <1>1, <1>2
  <2>4. QED
    BY <1>2, <1>7, <1>8, <1>9, <1>10, <1>11, <2>1, <2>2, <2>3 DEF Moves
<1>13. Continues(h, <<>>) /\ Looks(s, h, <<>>)
  BY <1>2, <1>11 DEF Continues, Looks
<1>14. h.obj # Scenario /\ h.op # "store"
  BY <1>2, <1>4, ObjectKinds
<1>15. QED
  BY <1>1, <1>2, <1>3, <1>11, <1>12, <1>13, <1>14, SteadyMoves

LEMMA FindRobotMoves ==
  ASSUME SyncInv, NEW s \in Syncs, FindRobot(s)
  PROVE  \E h, new, ret : MoveOf(s, h, new, ret)
<1>1. PICK h : h = Head(todo[s])
  OBVIOUS
<1>2. /\ todo[s] # <<>> /\ h.op = "robot" /\ Obj(s) = h.obj /\ UNCHANGED <<hub, map>>
  BY <1>1 DEF FindRobot, Doing, Obj
<1>3. Grows
  BY SteadyGrows DEF FindRobot, SyncInv, TypeOK, request
<1>4. /\ h \in Steps /\ h.obj \in Objects /\ Kind(h.obj) = "action"
      /\ got[s] \in [Objects -> HubIds \cup {None, Skipped}]
      /\ \A o \in Objects : /\ got[s][o] = Skipped => IsQuery(o)
                            /\ got[s][o] > 0 /\ Kind(o) # "action" => IsOf(got[s][o], o)
  BY <1>1, <1>2, FirstStep DEF StepFits
<1>5. PICK robot : robot = Entity(RobotOf[Id(h.obj)])
  OBVIOUS
<1>6. PICK scene : scene = Mapped(<<Scenario, None>>)
  OBVIOUS
<1>7. PICK entity : entity = Mapped(<<robot, scene>>)
  OBVIOUS
<1>8. PICK ret : ret = [got[s] EXCEPT ![Scenario] = scene, ![robot] = entity]
  OBVIOUS
<1>9. /\ robot \in Objects /\ Kind(robot) = "entity" /\ ~IsQuery(robot)
      /\ Scenario \in Objects /\ Kind(Scenario) = "scene" /\ ~IsQuery(Scenario)
      /\ robot # Scenario
  BY <1>4, <1>5, Parents, ObjectKinds DEF IsQuery
<1>10. PICK new : new = IF entity = None THEN <<Enter(robot)>> ELSE <<>>
  OBVIOUS
<1>11. GoWith(s, new, ret)
  <2>1. KeyOf(Scenario, None) = <<Scenario, None>> /\ KeyOf(robot, scene) = <<robot, scene>>
    BY <1>9, PlainKey
  <2>2. QED
    BY <1>2, <1>5, <1>6, <1>7, <1>8, <1>10, <2>1 DEF FindRobot
<1>12. /\ scene \in HubIds \cup {None} /\ entity \in HubIds \cup {None}
       /\ scene > 0 => IsOf(scene, Scenario)
       /\ entity > 0 => IsOf(entity, robot)
  <2>1. <<Scenario, None>>[1] = Scenario /\ <<robot, scene>>[1] = robot
    OBVIOUS
  <2>2. /\ scene \in HubIds \cup {None, Skipped}
        /\ scene = Skipped => IsQuery(Scenario)
        /\ scene > 0 => IsOf(scene, Scenario)
    BY <1>6, <2>1, MappedFits
  <2>3. /\ entity \in HubIds \cup {None, Skipped}
        /\ entity = Skipped => IsQuery(robot)
        /\ entity > 0 => IsOf(entity, robot)
    BY <1>7, <2>1, MappedFits
  <2>4. QED
    BY <1>9, <2>2, <2>3
<1>13. Skipped \notin HubIds \cup {None}
  BY DEF Skipped, None, HubIds, SyncInv, TypeOK
<1>14. \A o \in Objects : ret[o] = IF o = robot THEN entity
                                   ELSE IF o = Scenario THEN scene ELSE got[s][o]
  BY <1>4, <1>8, <1>9
<1>15. ret \in [Objects -> HubIds \cup {None, Skipped}]
  BY <1>4, <1>8, <1>9, <1>12
<1>16. \A o \in Objects : /\ ret[o] = Skipped => IsQuery(o)
                          /\ ret[o] > 0 /\ Kind(o) # "action" => IsOf(ret[o], o)
                          /\ Kind(o) = "action" => ret[o] = got[s][o]
  BY <1>4, <1>9, <1>12, <1>13, <1>14
<1>17. /\ new \in Seq(Steps) /\ Nest(new)
       /\ \A a \in Elems(new) : a.op = "enter" /\ a.obj = robot /\ a.saw = None
       /\ new # <<>> => Head(new).op = "enter" /\ Kind(Head(new).obj) # "trace"
  <2>1. Enter(robot) \in Steps /\ Enter(robot).op = "enter" /\ Enter(robot).obj = robot
        /\ Enter(robot).saw = None
    BY <1>9 DEF Enter, Step, Steps, None
  <2>2. CASE entity = None
    <3>1. new = <<Enter(robot)>> /\ Elems(<<Enter(robot)>>) = {Enter(robot)}
      BY <1>10, <2>2, ElemsOf
    <3>2. Head(new) = Enter(robot) /\ new \in Seq(Steps) /\ Nest(new)
      BY <2>1, <3>1 DEF Nest
    <3>3. QED
      BY <1>9, <2>1, <3>1, <3>2
  <2>3. CASE entity # None
    <3>1. new = <<>> /\ Elems(<<>>) = {}
      BY <1>10, <2>3, ElemsOf
    <3>2. QED
      BY <3>1 DEF Nest
  <2>4. QED
    BY <2>2, <2>3
<1>18. Moves(s, new, ret)
  <2>1. Rank(robot) < Rank(h.obj)
    BY <1>4, <1>9, Ranks
  <2>2. \A a \in Elems(new) : InPlace(a, h) /\ StepFits(a)'
    BY <1>17, <2>1 DEF InPlace, StepFits
  <2>3. Head(todo[s]).op = "robot" /\ ret[Obj(s)] = got[s][Obj(s)]
    BY <1>1, <1>2, <1>4, <1>16
  <2>4. QED
    BY <1>1, <1>2, <1>11, <1>15, <1>16, <1>17, <2>2, <2>3 DEF Moves
<1>19. Continues(h, new) /\ Looks(s, h, new)
  BY <1>2, <1>17 DEF Continues, Looks
<1>20. h.obj # Scenario /\ h.op # "store"
  BY <1>2, <1>4, ObjectKinds
<1>21. QED
  BY <1>1, <1>2, <1>3, <1>17, <1>18, <1>19, <1>20, SteadyMoves

LEMMA CheckMoves ==
  ASSUME SyncInv, NEW s \in Syncs, Check(s)
  PROVE  \E h, new, ret : MoveOf(s, h, new, ret)
<1>1. PICK h : h = Head(todo[s])
  OBVIOUS
<1>2. PICK scene : scene = IF Kind(h.obj) = "task" THEN Mapped(<<Scenario, None>>)
                                                  ELSE got[s][Scenario]
  OBVIOUS
<1>3. PICK ret : ret = [got[s] EXCEPT ![Scenario] = scene]
  OBVIOUS
<1>4. /\ todo[s] # <<>> /\ h.op = "check" /\ Obj(s) = h.obj /\ Saw(s) = h.saw
      /\ UNCHANGED <<hub, map>>
  BY <1>1 DEF Check, Doing, Obj, Saw
<1>5. Grows
  BY SteadyGrows DEF Check, SyncInv, TypeOK, request
<1>6. /\ h \in Steps /\ h.obj \in Objects /\ Kind(h.obj) \in {"task", "plan", "action"}
      /\ ~IsQuery(h.obj) /\ h.saw \in Int
      /\ h.saw # None => IsOf(h.saw, h.obj) /\ <<h.obj, None>> \in DOMAIN map
      /\ got[s] \in [Objects -> HubIds \cup {None, Skipped}]
      /\ \A o \in Objects : /\ got[s][o] = Skipped => IsQuery(o)
                            /\ got[s][o] > 0 /\ Kind(o) # "action" => IsOf(got[s][o], o)
  BY <1>1, <1>4, FirstStep DEF StepFits
<1>7. h.obj # Scenario /\ Kind(h.obj) \notin Single
  BY <1>6, ObjectKinds DEF Single
<1>8. IF Reusable(s, h.obj, h.saw) THEN Return(s, h.obj, h.saw)
                                   ELSE GoWith(s, Renew(h.obj), ret)
  <2>1. KeyOf(Scenario, None) = <<Scenario, None>>
    BY PlainKey, ObjectKinds
  <2>2. QED
    BY <1>2, <1>3, <1>4, <2>1 DEF Check
<1>9. CASE Reusable(s, h.obj, h.saw)
  <2>1. IsOf(h.saw, h.obj) /\ <<h.obj, None>> \in DOMAIN map'
    BY <1>4, <1>6, <1>9 DEF Reusable, None
  <2>2. <<h.obj, None>>[1] = h.obj
    OBVIOUS
  <2>3. \E new, r : /\ Moves(s, new, r) /\ Continues(h, new) /\ Looks(s, h, new)
                    /\ \A a \in Elems(new) : a.op = "enter" /\ Kind(a.obj) = "trace"
    BY <1>1, <1>4, <1>5, <1>8, <1>9, <2>1, <2>2, ReturnMoves
  <2>4. QED
    BY <1>1, <1>4, <1>5, <1>7, <2>3, SteadyMoves
<1>10. CASE ~Reusable(s, h.obj, h.saw)
  <2>1. GoWith(s, Renew(h.obj), ret)
    BY <1>8, <1>10
  <2>2. scene \in HubIds \cup {None} /\ (scene > 0 => IsOf(scene, Scenario))
    <3>1. <<Scenario, None>>[1] = Scenario /\ Scenario \in Objects /\ ~IsQuery(Scenario)
          /\ Kind(Scenario) # "action"
      BY ObjectKinds DEF IsQuery
    <3>2. CASE Kind(h.obj) = "task"
      BY <1>2, <3>1, <3>2, MappedFits
    <3>3. CASE Kind(h.obj) # "task"
      BY <1>2, <1>6, <3>1, <3>3
    <3>4. QED
      BY <3>2, <3>3
  <2>3. Skipped \notin HubIds \cup {None}
    BY DEF Skipped, None, HubIds, SyncInv, TypeOK
  <2>4. \A o \in Objects : ret[o] = IF o = Scenario THEN scene ELSE got[s][o]
    BY <1>3, <1>6
  <2>5. ret \in [Objects -> HubIds \cup {None, Skipped}]
    BY <1>3, <1>6, <2>2
  <2>6. \A o \in Objects : /\ ret[o] = Skipped => IsQuery(o)
                           /\ ret[o] > 0 /\ Kind(o) # "action" => IsOf(ret[o], o)
                           /\ Kind(o) = "action" => ret[o] = got[s][o]
    BY <1>6, <2>2, <2>3, <2>4, ObjectKinds
  <2>7. Forced(s) \/ ~(h.saw > 0) \/ ~Live(h.saw)
    BY <1>6, <1>10 DEF Reusable
  <2>8. /\ Moves(s, Renew(h.obj), ret) /\ Continues(h, Renew(h.obj))
        /\ Looks(s, h, Renew(h.obj))
        /\ \A a \in Elems(Renew(h.obj)) : a.op \in {"find", "post", "store"} => a.obj # Scenario
    BY <1>1, <1>4, <1>5, <1>6, <2>1, <2>5, <2>6, <2>7, RenewMoves
  <2>9. QED
    BY <1>1, <1>4, <1>5, <1>7, <2>8, SteadyMoves
<1>11. QED
  BY <1>9, <1>10

\* A row of the table is written.
LEMMA UpdateGrows ==
  ASSUME SyncInv, NEW key, NEW v, map' = Upserted(key, v),
         UNCHANGED <<version, hub, lost, asked, at, before>>, refused' \subseteq Objects,
         key \in Objects \X (HubIds \cup {None}), Kind(key[1]) # "entity" => key[2] = None,
         \/ v = Skipped /\ IsQuery(key[1])
         \/ /\ ~IsQuery(key[1]) /\ IsOf(v, key[1])
            /\ Kind(key[1]) = "entity" => hub[v].scene = key[2]
  PROVE  /\ Grows /\ key \in DOMAIN map' /\ map'[key] = v
         /\ \A k \in DOMAIN map : k # key => map'[k] = map[k]
<1>1. /\ DOMAIN map' = {key} \cup DOMAIN map /\ map'[key] = v
      /\ \A k \in DOMAIN map : k # key => map'[k] = map[k]
  BY DEF Upserted
<1>2. TypeOK /\ MapFits /\ HubFits /\ IdsAreOwn
  BY DEF SyncInv
<1>3. HubIds' = HubIds
  BY DEF HubIds
<1>4. v = Skipped <=> IsQuery(key[1])
  BY <1>2 DEF IsOf, Skipped, HubIds, TypeOK
<1>5. v \in HubIds \cup {Skipped}
  BY DEF IsOf
<1>6. MapFits'
  <2>1. \A k \in DOMAIN map' : /\ Kind(k[1]) # "entity" => k[2] = None
                               /\ map'[k] = Skipped <=> IsQuery(k[1])
    BY <1>1, <1>2, <1>4 DEF MapFits
  <2>2. QED
    BY <2>1 DEF MapFits
<1>7. HubFits'
  BY <1>2, <1>3 DEF HubFits
<1>8. IdsAreOwn'
  <2>1. \A k \in DOMAIN map' :
          IF map'[k] = Skipped THEN Id(k[1]) \in Queries
          ELSE hub[map'[k]].of = k[1] /\ (Kind(k[1]) = "entity" => hub[map'[k]].scene = k[2])
    <3>1. ASSUME NEW k \in DOMAIN map, k # key
          PROVE  IF map'[k] = Skipped THEN Id(k[1]) \in Queries
                 ELSE hub[map'[k]].of = k[1] /\ (Kind(k[1]) = "entity" => hub[map'[k]].scene = k[2])
      BY <1>1, <1>2, <3>1 DEF IdsAreOwn
    <3>2. IF v = Skipped THEN Id(key[1]) \in Queries
          ELSE hub[v].of = key[1] /\ (Kind(key[1]) = "entity" => hub[v].scene = key[2])
      BY <1>4 DEF IsOf, IsQuery
    <3>3. QED
      BY <1>1, <3>1, <3>2
  <2>2. QED
    BY <1>2, <1>3, <2>1 DEF IdsAreOwn
<1>9. Len(hub) <= Len(hub')
  BY <1>2 DEF TypeOK
<1>10. /\ DOMAIN map' \subseteq Objects \X (HubIds' \cup {None})
       /\ \A k \in DOMAIN map' : map'[k] \in HubIds' \cup {Skipped}
  <2>1. /\ DOMAIN map \subseteq Objects \X (HubIds \cup {None})
        /\ \A k \in DOMAIN map : map[k] \in HubIds \cup {Skipped}
    BY <1>2 DEF TypeOK
  <2>2. QED
    BY <1>1, <1>3, <1>5, <2>1
<1>11. Grows
  BY <1>1, <1>2, <1>6, <1>7, <1>8, <1>9, <1>10 DEF Grows, TypeOK
<1>12. QED
  BY <1>1, <1>11

LEMMA SkipQueryMoves ==
  ASSUME SyncInv, NEW s \in Syncs, SkipQuery(s)
  PROVE  \E h, new, ret : MoveOf(s, h, new, ret)
<1>1. PICK h : h = Head(todo[s])
  OBVIOUS
<1>2. PICK key : key = <<h.obj, None>>
  OBVIOUS
<1>3. /\ todo[s] # <<>> /\ h.op = "enter" /\ Kind(h.obj) = "action" /\ IsQuery(h.obj)
      /\ Return(s, h.obj, Skipped) /\ hub' = hub
  BY <1>1 DEF SkipQuery, Doing, Obj, IsQuery
<1>4. map' = Upserted(key, Skipped)
  <2>1. KeyOf(h.obj, None) = key
    BY <1>2, <1>3, PlainKey
  <2>2. QED
    BY <1>1, <2>1 DEF SkipQuery, Obj
<1>5. h.obj \in Objects /\ key[1] = h.obj /\ key[2] = None /\ h.obj # Scenario
  BY <1>1, <1>2, <1>3, FirstStep, ObjectKinds
<1>6. /\ Grows /\ key \in DOMAIN map'
      /\ \A k \in DOMAIN map : k # key => map'[k] = map[k]
  <2>1. UNCHANGED <<version, hub, lost, asked, at, before>> /\ refused' \subseteq Objects
    BY DEF SkipQuery, request, SyncInv, TypeOK
  <2>2. key \in Objects \X (HubIds \cup {None})
    BY <1>2, <1>5
  <2>3. QED
    BY <1>3, <1>4, <1>5, <2>1, <2>2, UpdateGrows
<1>7. \E new, ret : /\ Moves(s, new, ret) /\ Continues(h, new) /\ Looks(s, h, new)
                    /\ \A a \in Elems(new) : a.op = "enter" /\ Kind(a.obj) = "trace"
  BY <1>1, <1>3, <1>5, <1>6, ReturnMoves
<1>8. PICK new, ret : /\ Moves(s, new, ret) /\ Continues(h, new) /\ Looks(s, h, new)
                      /\ \A a \in Elems(new) : a.op = "enter" /\ Kind(a.obj) = "trace"
  BY <1>7
<1>9. Names(h, new)
  <2>1. <<Scenario, None>> # key
    BY <1>2, <1>5
  <2>2. QED
    BY <1>5, <1>6, <1>8, <2>1 DEF Names
<1>10. Makes(s, h, new)
  BY <1>3 DEF Makes
<1>11. QED
  BY <1>1, <1>6, <1>8, <1>9, <1>10 DEF MoveOf

LEMMA StoreMoves ==
  ASSUME SyncInv, NEW s \in Syncs, Store(s)
  PROVE  \E h, new, ret : MoveOf(s, h, new, ret)
<1>1. PICK h : h = Head(todo[s])
  OBVIOUS
<1>2. PICK key : key = KeyOf(h.obj, got[s][Scenario])
  OBVIOUS
<1>3. /\ todo[s] # <<>> /\ h.op = "store" /\ Return(s, h.obj, h.saw) /\ hub' = hub
      /\ map' = Upserted(key, h.saw)
  BY <1>1, <1>2 DEF Store, Doing, Obj, Saw
<1>4. /\ h.obj \in Objects /\ ~IsQuery(h.obj) /\ IsOf(h.saw, h.obj)
      /\ got[s] \in [Objects -> HubIds \cup {None, Skipped}]
      /\ \A o \in Objects : got[s][o] = Skipped => IsQuery(o)
  BY <1>1, <1>3, FirstStep DEF StepFits
<1>5. Kind(h.obj) = "entity" => hub[h.saw].scene = got[s][Scenario]
  BY <1>1, <1>3 DEF SyncInv, GotFits, Doing, Obj, Saw
<1>6. got[s][Scenario] \in HubIds \cup {None}
  BY <1>4, ObjectKinds DEF IsQuery
<1>7. /\ Kind(h.obj) # "entity" => key = <<h.obj, None>>
      /\ Kind(h.obj) = "entity" => key = <<h.obj, got[s][Scenario]>>
  BY <1>2, PlainKey
<1>8. /\ key[1] = h.obj
      /\ key[2] = IF Kind(h.obj) = "entity" THEN got[s][Scenario] ELSE None
      /\ key \in Objects \X (HubIds \cup {None})
  BY <1>4, <1>6, <1>7
<1>9. /\ Grows /\ key \in DOMAIN map' /\ map'[key] = h.saw
      /\ \A k \in DOMAIN map : k # key => map'[k] = map[k]
  <2>1. UNCHANGED <<version, hub, lost, asked, at, before>> /\ refused' \subseteq Objects
    BY DEF Store, request, SyncInv, TypeOK
  <2>2. QED
    BY <1>3, <1>4, <1>5, <1>8, <2>1, UpdateGrows
<1>10. \E new, ret : /\ Moves(s, new, ret) /\ Continues(h, new) /\ Looks(s, h, new)
                     /\ \A a \in Elems(new) : a.op = "enter" /\ Kind(a.obj) = "trace"
  BY <1>1, <1>3, <1>4, <1>8, <1>9, ReturnMoves
<1>11. PICK new, ret : /\ Moves(s, new, ret) /\ Continues(h, new) /\ Looks(s, h, new)
                       /\ \A a \in Elems(new) : a.op = "enter" /\ Kind(a.obj) = "trace"
  BY <1>10
<1>12. Names(h, new)
  <2>1. h.obj = Scenario => key = <<Scenario, None>>
    BY <1>7, ObjectKinds
  <2>2. h.obj # Scenario => key # <<Scenario, None>>
    BY <1>8
  <2>3. QED
    BY <1>3, <1>9, <1>11, <2>1, <2>2 DEF Names
<1>13. Makes(s, h, new)
  BY <1>3, <1>7, <1>9 DEF Makes
<1>14. QED
  BY <1>1, <1>9, <1>11, <1>12, <1>13 DEF MoveOf

\* A new object of the Hub that refers to others as it should.
LEMMA AppendGrows ==
  ASSUME SyncInv, NEW x \in HubObjects, hub' = Append(hub, x),
         UNCHANGED <<version, lost, map, asked, at, before>>, refused' \subseteq Objects,
         Kind(x.of) = "plan" => IsOf(x.task, Task(TaskOf[Id(x.of)])),
         Kind(x.of) = "trace" => IsOf(x.task, Task(Id(x.of))),
         Kind(x.of) = "action" => /\ IsOf(x.task, TaskFor(x.of))
                                  /\ IsOf(x.plan, Plan(PlanOf[Id(x.of)]))
                                  /\ IsOf(x.entity, Entity(RobotOf[Id(x.of)]))
  PROVE  Grows
<1>1. TypeOK /\ MapFits /\ HubFits /\ IdsAreOwn
  BY DEF SyncInv
<1>2. /\ hub \in Seq(HubObjects) /\ hub' \in Seq(HubObjects) /\ Len(hub') = Len(hub) + 1
      /\ Len(hub) \in Nat /\ hub'[Len(hub) + 1] = x
      /\ \A n \in 1..Len(hub) : hub'[n] = hub[n]
  BY <1>1 DEF TypeOK
<1>3. /\ HubIds = 1..Len(hub) /\ HubIds' = HubIds \cup {Len(hub) + 1}
      /\ Len(hub) + 1 \notin HubIds /\ Skipped \notin HubIds
  BY <1>2 DEF HubIds, Skipped
<1>4. MapFits'
  BY <1>1 DEF MapFits
<1>5. ASSUME NEW n \in HubIds'
      PROVE  /\ Kind(hub'[n].of) \in {"trace", "plan", "action"} => hub'[n].task \in HubIds'
             /\ Kind(hub'[n].of) = "action" => hub'[n].plan \in HubIds' /\ hub'[n].entity \in HubIds'
             /\ Kind(hub'[n].of) = "plan" => hub'[hub'[n].task].of = Task(TaskOf[Id(hub'[n].of)])
             /\ Kind(hub'[n].of) = "trace" => hub'[hub'[n].task].of = Task(Id(hub'[n].of))
             /\ Kind(hub'[n].of) = "action" =>
                  /\ hub'[hub'[n].plan].of = Plan(PlanOf[Id(hub'[n].of)])
                  /\ hub'[hub'[n].task].of = Task(NamedTask[Id(hub'[n].of)])
                  /\ hub'[hub'[n].entity].of = Entity(RobotOf[Id(hub'[n].of)])
  <2>1. CASE n \in HubIds
    <3>1. hub'[n] = hub[n]
      BY <1>2, <1>3, <2>1
    <3>2. /\ Kind(hub[n].of) \in {"trace", "plan", "action"} => hub[n].task \in HubIds
          /\ Kind(hub[n].of) = "action" => hub[n].plan \in HubIds /\ hub[n].entity \in HubIds
      BY <1>1, <2>1 DEF HubFits
    <3>3. /\ Kind(hub[n].of) = "plan" => hub[hub[n].task].of = Task(TaskOf[Id(hub[n].of)])
          /\ Kind(hub[n].of) = "trace" => hub[hub[n].task].of = Task(Id(hub[n].of))
          /\ Kind(hub[n].of) = "action" =>
               /\ hub[hub[n].plan].of = Plan(PlanOf[Id(hub[n].of)])
               /\ hub[hub[n].task].of = Task(NamedTask[Id(hub[n].of)])
               /\ hub[hub[n].entity].of = Entity(RobotOf[Id(hub[n].of)])
      BY <1>1, <2>1 DEF IdsAreOwn
    <3>4. \A m \in HubIds : hub'[m] = hub[m] /\ m \in HubIds'
      BY <1>2, <1>3
    <3>5. QED
      BY <3>1, <3>2, <3>3, <3>4
  <2>2. CASE n = Len(hub) + 1
    <3>1. hub'[n] = x
      BY <1>2, <2>2
    <3>2. \A m, o : IsOf(m, o) => m \in HubIds' /\ hub'[m].of = o
      BY <1>2, <1>3 DEF IsOf
    <3>3. CASE Kind(x.of) = "plan"
      <4>1. x.task \in HubIds' /\ hub'[x.task].of = Task(TaskOf[Id(x.of)])
        BY <3>2, <3>3
      <4>2. QED
        BY <3>1, <3>3, <4>1
    <3>4. CASE Kind(x.of) = "trace"
      <4>1. x.task \in HubIds' /\ hub'[x.task].of = Task(Id(x.of))
        BY <3>2, <3>4
      <4>2. QED
        BY <3>1, <3>4, <4>1
    <3>5. CASE Kind(x.of) = "action"
      <4>1. /\ x.task \in HubIds' /\ hub'[x.task].of = TaskFor(x.of)
            /\ x.plan \in HubIds' /\ hub'[x.plan].of = Plan(PlanOf[Id(x.of)])
            /\ x.entity \in HubIds' /\ hub'[x.entity].of = Entity(RobotOf[Id(x.of)])
        BY <3>2, <3>5
      <4>2. TaskFor(x.of) = Task(NamedTask[Id(x.of)])
        BY DEF TaskFor
      <4>3. QED
        BY <3>1, <3>5, <4>1, <4>2
    <3>6. QED
      BY <3>1, <3>3, <3>4, <3>5
  <2>3. QED
    BY <1>3, <2>1, <2>2
<1>6. HubFits'
  BY <1>5 DEF HubFits
<1>7. \A k \in DOMAIN map :
        IF map[k] = Skipped THEN Id(k[1]) \in Queries
        ELSE hub'[map[k]].of = k[1] /\ (Kind(k[1]) = "entity" => hub'[map[k]].scene = k[2])
  <2>1. \A k \in DOMAIN map : map[k] # Skipped => hub'[map[k]] = hub[map[k]]
    BY <1>1, <1>2, <1>3 DEF TypeOK
  <2>2. QED
    BY <1>1, <2>1 DEF IdsAreOwn
<1>8. IdsAreOwn'
  BY <1>5, <1>7 DEF IdsAreOwn
<1>9. /\ DOMAIN map' \subseteq Objects \X (HubIds' \cup {None})
      /\ \A k \in DOMAIN map' : map'[k] \in HubIds' \cup {Skipped}
  <2>1. /\ DOMAIN map \subseteq Objects \X (HubIds \cup {None})
        /\ \A k \in DOMAIN map : map[k] \in HubIds \cup {Skipped}
    BY <1>1 DEF TypeOK
  <2>2. QED
    BY <1>3, <2>1
<1>10. Len(hub) <= Len(hub') /\ \A n \in HubIds : hub'[n] = hub[n]
  BY <1>2, <1>3
<1>11. QED
  BY <1>2, <1>4, <1>6, <1>8, <1>9, <1>10 DEF Grows

\* What s posts, if the Hub accepts it.
LEMMA PostedFits ==
  ASSUME SyncInv, NEW s \in Syncs, Doing(s, "post"), NEW h, h = Head(todo[s])
  PROVE  /\ Posted(s).of = h.obj /\ Posted(s).by = s
         /\ Kind(h.obj) = "scene" => Posted(s).name = h.saw
         /\ Kind(h.obj) # "scene" => Posted(s).scene = got[s][Scenario]
         /\ Accepts(Posted(s)) =>
              /\ Posted(s) \in HubObjects
              /\ Kind(h.obj) = "plan" => IsOf(Posted(s).task, Task(TaskOf[Id(h.obj)]))
              /\ Kind(h.obj) = "trace" => IsOf(Posted(s).task, Task(Id(h.obj)))
              /\ Kind(h.obj) = "action" =>
                   /\ IsOf(Posted(s).task, TaskFor(h.obj))
                   /\ IsOf(Posted(s).plan, Plan(PlanOf[Id(h.obj)]))
                   /\ IsOf(Posted(s).entity, Entity(RobotOf[Id(h.obj)]))
<1> DEFINE o == h.obj
<1>1. PICK x : x = Posted(s)
  OBVIOUS
<1>2. todo[s] # <<>> /\ h.op = "post" /\ Obj(s) = o /\ Saw(s) = h.saw
  BY DEF Doing, Obj, Saw
<1>3. /\ h \in Steps /\ o \in Objects /\ ~IsQuery(o) /\ (Kind(o) = "scene" => h.saw \in Nat)
      /\ got[s] \in [Objects -> HubIds \cup {None, Skipped}]
      /\ \A p \in Objects : /\ got[s][p] = Skipped => IsQuery(p)
                            /\ got[s][p] > 0 /\ Kind(p) # "action" => IsOf(got[s][p], p)
  BY <1>2, FirstStep DEF StepFits
<1>4. /\ x.of = o /\ x.by = s
      /\ x.name = IF Kind(o) = "scene" THEN h.saw ELSE None
      /\ x.scene = IF Kind(o) = "scene" THEN None ELSE got[s][Scenario]
      /\ Kind(o) = "plan" => x.task = got[s][Task(TaskOf[Id(o)])]
      /\ Kind(o) = "trace" => x.task = got[s][Task(Id(o))]
      /\ Kind(o) = "action" => x.task = got[s][o]
      /\ Kind(o) \notin {"plan", "trace", "action"} => x.task = None
      /\ x.plan = IF Kind(o) = "action" THEN got[s][Plan(PlanOf[Id(o)])] ELSE None
      /\ x.entity = IF Kind(o) = "action" THEN got[s][Entity(RobotOf[Id(o)])] ELSE None
      /\ x = [of |-> x.of, by |-> x.by, name |-> x.name, scene |-> x.scene,
              task |-> x.task, plan |-> x.plan, entity |-> x.entity]
  BY <1>1, <1>2 DEF Posted
<1>5. \A n \in HubIds : n \in Nat /\ n > 0
  BY DEF HubIds, SyncInv, TypeOK
<1>6. None \in Nat
  BY DEF None
<1>7. x.scene \in Nat /\ x.name \in Nat
  <2>1. got[s][Scenario] \in HubIds \cup {None}
    BY <1>3, ObjectKinds DEF IsQuery
  <2>2. QED
    BY <1>3, <1>4, <1>5, <1>6, <2>1
<1>8. ASSUME Accepts(x), Kind(o) = "plan"
      PROVE  IsOf(x.task, Task(TaskOf[Id(o)]))
  <2>1. x.task \in HubIds /\ x.task = got[s][Task(TaskOf[Id(o)])]
    BY <1>4, <1>8 DEF Accepts, Live
  <2>2. Task(TaskOf[Id(o)]) \in Objects /\ Kind(Task(TaskOf[Id(o)])) = "task"
    BY <1>3, <1>8, Parents
  <2>3. QED
    BY <1>3, <1>5, <2>1, <2>2
<1>9. ASSUME Kind(o) = "trace"
      PROVE  IsOf(x.task, Task(Id(o)))
  <2>1. got[s][Task(Id(o))] > 0
    BY <1>2, <1>9 DEF SyncInv, GotFits
  <2>2. Task(Id(o)) \in Objects /\ Kind(Task(Id(o))) = "task"
    BY <1>3, <1>9, Parents
  <2>3. QED
    BY <1>3, <1>4, <1>9, <2>1, <2>2
<1>10. ASSUME Accepts(x), Kind(o) = "action"
       PROVE  /\ IsOf(x.task, TaskFor(o)) /\ IsOf(x.plan, Plan(PlanOf[Id(o)]))
              /\ IsOf(x.entity, Entity(RobotOf[Id(o)]))
  <2>1. x.task \in HubIds /\ x.plan \in HubIds /\ x.entity \in HubIds
    BY <1>4, <1>10 DEF Accepts, Live
  <2>2. /\ x.task = got[s][o] /\ x.plan = got[s][Plan(PlanOf[Id(o)])]
        /\ x.entity = got[s][Entity(RobotOf[Id(o)])]
    BY <1>4, <1>10
  <2>3. /\ Plan(PlanOf[Id(o)]) \in Objects /\ Kind(Plan(PlanOf[Id(o)])) = "plan"
        /\ Entity(RobotOf[Id(o)]) \in Objects /\ Kind(Entity(RobotOf[Id(o)])) = "entity"
    BY <1>3, <1>10, Parents
  <2>4. IsOf(x.plan, Plan(PlanOf[Id(o)])) /\ IsOf(x.entity, Entity(RobotOf[Id(o)]))
    BY <1>3, <1>5, <2>1, <2>2, <2>3
  <2>5. IsOf(x.task, TaskFor(o))
    <3>1. HasTask(s, o)
      <4>1. h \in Elems(todo[s])
        BY <1>2, FirstStep
      <4>2. QED
        BY <1>2, <1>10, <4>1 DEF SyncInv, GotFits
    <3>2. ASSUME NEW st \in Elems(todo[s]), st.op = "keep", st.obj = o
          PROVE  FALSE
      <4>1. todo[s] \in Seq(Steps) /\ Nest(todo[s])
        BY DEF SyncInv, TypeOK, StepsFit
      <4>2. Elems(todo[s]) = {h} \cup Elems(Tail(todo[s]))
        BY <1>2, <4>1, ElemsTail
      <4>3. st \in Elems(Tail(todo[s]))
        BY <1>2, <3>2, <4>2
      <4>4. Below(h, st)
        BY <1>2, <4>1, <4>3, NestTail
      <4>5. Rank(o) \in Int
        BY <1>3, Ranks
      <4>6. QED
        BY <1>2, <3>2, <4>4, <4>5 DEF Below
    <3>3. got[s][o] # None
      BY <1>5, <2>1, <2>2 DEF None
    <3>4. QED
      BY <2>2, <3>1, <3>2, <3>3 DEF HasTask
  <2>6. QED
    BY <2>4, <2>5
<1>11. ASSUME Accepts(x)
       PROVE  x \in HubObjects
  <2>1. x.task \in Nat
    <3>1. CASE Kind(o) = "plan"
      BY <1>5, <1>8, <1>11, <3>1 DEF IsOf
    <3>2. CASE Kind(o) = "trace"
      BY <1>5, <1>9, <3>2 DEF IsOf
    <3>3. CASE Kind(o) = "action"
      BY <1>5, <1>10, <1>11, <3>3 DEF IsOf
    <3>4. CASE Kind(o) \notin {"plan", "trace", "action"}
      BY <1>4, <1>6, <3>4
    <3>5. QED
      BY <3>1, <3>2, <3>3, <3>4
  <2>2. x.plan \in Nat /\ x.entity \in Nat
    <3>1. CASE Kind(o) = "action"
      BY <1>5, <1>10, <1>11, <3>1 DEF IsOf
    <3>2. CASE Kind(o) # "action"
      BY <1>4, <1>6, <3>2
    <3>3. QED
      BY <3>1, <3>2
  <2>3. QED
    BY <1>3, <1>4, <1>7, <2>1, <2>2 DEF HubObjects
<1>12. QED
  BY <1>1, <1>4, <1>8, <1>9, <1>10, <1>11

LEMMA PostMoves ==
  ASSUME SyncInv, NEW s \in Syncs, Post(s)
  PROVE  \E h, new, ret : MoveOf(s, h, new, ret)
<1>1. PICK h : h = Head(todo[s])
  OBVIOUS
<1>2. PICK x : x = Posted(s)
  OBVIOUS
<1>3. /\ Doing(s, "post") /\ todo[s] # <<>> /\ h.op = "post"
      /\ UNCHANGED <<version, lost, map, asked, at, before>> /\ refused' \subseteq Objects
  BY <1>1 DEF Post, Doing, request, SyncInv, TypeOK
<1>4. /\ h \in Steps /\ h.obj \in Objects /\ ~IsQuery(h.obj)
      /\ Kind(h.obj) = "scene" => h.saw \in Nat
  BY <1>1, <1>3, FirstStep DEF StepFits
<1>5. /\ x.of = h.obj /\ x.by = s
      /\ Kind(h.obj) = "scene" => x.name = h.saw
      /\ Kind(h.obj) # "scene" => x.scene = got[s][Scenario]
      /\ Accepts(x) =>
           /\ x \in HubObjects
           /\ Kind(h.obj) = "plan" => IsOf(x.task, Task(TaskOf[Id(h.obj)]))
           /\ Kind(h.obj) = "trace" => IsOf(x.task, Task(Id(h.obj)))
           /\ Kind(h.obj) = "action" => /\ IsOf(x.task, TaskFor(h.obj))
                                        /\ IsOf(x.plan, Plan(PlanOf[Id(h.obj)]))
                                        /\ IsOf(x.entity, Entity(RobotOf[Id(h.obj)]))
  BY <1>1, <1>2, <1>3, PostedFits
<1>6. hub \in Seq(HubObjects) /\ Len(hub) \in Nat
  BY DEF SyncInv, TypeOK
<1>7. CASE Accepts(x) /\ hub' = Append(hub, x) /\ Go(s, <<Step("store", x.of, Len(hub) + 1)>>)
  <2>1. PICK a : a = Step("store", h.obj, Len(hub) + 1)
    OBVIOUS
  <2>2. Grows
    BY <1>3, <1>5, <1>7, AppendGrows
  <2>3. /\ a \in Steps /\ a.op = "store" /\ a.obj = h.obj /\ a.saw = Len(hub) + 1
    BY <1>4, <1>6, <2>1, StepFields
  <2>4. a.saw \in 1..Len(hub') /\ hub'[a.saw] = x
    BY <1>5, <1>6, <1>7, <2>3
  <2>5. StepFits(a)'
    BY <1>4, <1>5, <2>3, <2>4 DEF StepFits, IsOf, HubIds
  <2>6. Moves(s, <<a>>, got[s]) /\ Continues(h, <<a>>) /\ Looks(s, h, <<a>>)
    <3>1. Go(s, <<a>>)
      BY <1>5, <1>7, <2>1
    <3>2. Kind(a.obj) = "entity" => hub'[a.saw].scene = got[s][Scenario]
      BY <1>5, <2>3, <2>4
    <3>3. QED
      BY <1>1, <1>3, <2>2, <2>3, <2>5, <3>1, <3>2, OneMoves
  <2>7. Elems(<<a>>) = {a}
    BY ElemsOf
  <2>8. Names(h, <<a>>)
    <3>1. h.obj = Scenario => hub'[a.saw].name = h.saw
      BY <1>5, <2>4, ObjectKinds
    <3>2. QED
      BY <1>3, <2>3, <2>7, <3>1 DEF Names
  <2>9. Makes(s, h, <<a>>)
    BY <1>2, <1>3, <1>7, <2>1 DEF Makes
  <2>10. QED
    BY <1>1, <2>2, <2>6, <2>8, <2>9 DEF MoveOf
<1>8. CASE /\ hub' = hub /\ Kind(x.of) \in Single
           /\ \E n \in Same(x.of, x.name, x.scene) : Go(s, <<Step("store", x.of, n)>>)
  <2>1. PICK n \in Same(x.of, x.name, x.scene) : Go(s, <<Step("store", x.of, n)>>)
    BY <1>8
  <2>2. PICK a : a = Step("store", h.obj, n)
    OBVIOUS
  <2>3. /\ n \in HubIds /\ hub[n].of = h.obj /\ n \in Int
        /\ Kind(h.obj) = "scene" => hub[n].name = h.saw
        /\ Kind(h.obj) = "entity" => hub[n].scene = got[s][Scenario]
    BY <1>5, <1>6, <2>1 DEF Same, HubIds
  <2>4. Grows
    BY <1>3, <1>8, SteadyGrows
  <2>5. /\ a \in Steps /\ a.op = "store" /\ a.obj = h.obj /\ a.saw = n
    BY <1>4, <2>2, <2>3, StepFields
  <2>6. StepFits(a)'
    <3>1. StepFits(a)
      BY <1>4, <2>3, <2>5 DEF StepFits, IsOf
    <3>2. QED
      BY <2>4, <3>1, IsOfStays DEF SyncInv
  <2>7. Moves(s, <<a>>, got[s]) /\ Continues(h, <<a>>) /\ Looks(s, h, <<a>>)
    <3>1. Go(s, <<a>>)
      BY <1>5, <2>1, <2>2
    <3>2. Kind(a.obj) = "entity" => hub'[a.saw].scene = got[s][Scenario]
      BY <1>8, <2>3, <2>5
    <3>3. QED
      BY <1>1, <1>3, <2>4, <2>5, <2>6, <3>1, <3>2, OneMoves
  <2>8. Elems(<<a>>) = {a}
    BY ElemsOf
  <2>9. Names(h, <<a>>)
    <3>1. h.obj = Scenario => hub'[a.saw].name = h.saw
      BY <1>8, <2>3, <2>5, ObjectKinds
    <3>2. QED
      BY <1>3, <2>5, <2>8, <3>1 DEF Names
  <2>10. Makes(s, h, <<a>>)
    BY <1>3, <1>8 DEF Makes
  <2>11. QED
    BY <1>1, <2>4, <2>7, <2>9, <2>10 DEF MoveOf
<1>9. QED
  BY <1>2, <1>7, <1>8 DEF Post

\* The steps of a request other than its beginning and its failures.
Moving(s) ==
  \/ EnterScene(s) \/ FindScene(s) \/ EnterMapped(s) \/ EnterTrace(s) \/ EnterChild(s)
  \/ SkipQuery(s) \/ KeepTask(s) \/ Check(s) \/ FindRobot(s) \/ Post(s) \/ Store(s)

LEMMA AllMove ==
  ASSUME SyncInv, NEW s \in Syncs, Moving(s)
  PROVE  \E h, new, ret : MoveOf(s, h, new, ret)
BY EnterSceneMoves, FindSceneMoves, EnterMappedMoves, EnterTraceMoves, EnterChildMoves,
   SkipQueryMoves, KeepTaskMoves, CheckMoves, FindRobotMoves, PostMoves, StoreMoves DEF Moving

\* A request that fails: Fail and Refuse.
GivesUp(s) ==
  /\ todo[s] # <<>> /\ GiveUp(s) /\ refused' \subseteq Objects
  /\ UNCHANGED <<version, hub, lost, map, asked, at, before>>

LEMMA FailuresGiveUp ==
  ASSUME SyncInv, NEW s \in Syncs, Fail(s) \/ Refuse(s)
  PROVE  GivesUp(s)
<1>1. CASE Fail(s)
  BY <1>1 DEF Fail, GivesUp, request, SyncInv, TypeOK
<1>2. CASE Refuse(s)
  <2>1. todo[s] # <<>>
    BY <1>2 DEF Refuse, Doing
  <2>2. Obj(s) \in Objects
    BY <2>1, FirstStep DEF Obj
  <2>3. QED
    BY <1>2, <2>1, <2>2 DEF Refuse, GivesUp, request, SyncInv, TypeOK
<1>3. QED
  BY <1>1, <1>2

LEMMA GivingUp ==
  ASSUME SyncInv, NEW s \in Syncs, GivesUp(s)
  PROVE  /\ todo'[s] = <<>> /\ got'[s] = NothingGot /\ result'[s] = "error"
         /\ \A r \in Syncs \ {s} : todo'[r] = todo[r] /\ got'[r] = got[r] /\ result'[r] = result[r]
BY DEF GivesUp, GiveUp, SyncInv, TypeOK

LEMMA GivingUpKeeps ==
  ASSUME SyncInv, NEW s \in Syncs, GivesUp(s)
  PROVE  SyncInv'
<1>1. /\ todo'[s] = <<>> /\ got'[s] = NothingGot /\ result'[s] = "error"
      /\ \A r \in Syncs \ {s} : todo'[r] = todo[r] /\ got'[r] = got[r] /\ result'[r] = result[r]
  BY GivingUp
<1>2. /\ todo[s] # <<>> /\ refused' \subseteq Objects
      /\ UNCHANGED <<version, hub, lost, map, asked, at, before>>
  BY DEF GivesUp
<1>3. TypeOK /\ Phases /\ StepsFit /\ GotFits /\ MapFits /\ HubFits /\ IdsAreOwn
  BY DEF SyncInv
<1>4. HubIds' = HubIds /\ Elems(<<>>) = {}
  BY <1>2, ElemsOf DEF HubIds
<1>5. Grows
  BY <1>2, SteadyGrows
<1>6. TypeOK'
  <2>1. NothingGot \in [Objects -> HubIds \cup {None, Skipped}]
    BY DEF NothingGot
  <2>2. /\ todo' \in [Syncs -> Seq(Steps)]
        /\ got' \in [Syncs -> [Objects -> HubIds \cup {None, Skipped}]]
        /\ result' \in [Syncs -> {"none", "ok", "error"}]
    BY <1>3, <2>1 DEF GivesUp, GiveUp, TypeOK
  <2>3. QED
    BY <1>2, <1>3, <1>4, <2>2 DEF TypeOK
<1>7. Phases'
  <2>1. asked[s] # NoRequest /\ result[s] = "none"
    BY <1>2, <1>3 DEF Phases
  <2>2. \A r \in Syncs : \A p \in before'[r] : result'[p] # "none"
    <3>1. \A r \in Syncs : \A p \in before[r] : p \in Syncs /\ result[p] # "none"
      BY <1>3 DEF TypeOK, Phases
    <3>2. QED
      BY <1>1, <1>2, <3>1
  <2>3. \A r \in Syncs : /\ todo'[r] # <<>> <=> asked'[r] # NoRequest /\ result'[r] = "none"
                         /\ asked'[r] = NoRequest => result'[r] = "none"
                         /\ asked'[r] # NoRequest => at'[r] > 0
    BY <1>1, <1>2, <1>3, <2>1 DEF Phases
  <2>4. QED
    BY <2>2, <2>3 DEF Phases
<1>8. \A st : StepFits(st) => StepFits(st)'
  BY <1>3, <1>5, IsOfStays
<1>9. StepsFit'
  <2>1. Nest(<<>>)
    BY DEF Nest
  <2>2. QED
    BY <1>1, <1>3, <1>4, <1>8, <2>1 DEF StepsFit
<1>10. GotFits'
  <2>1. \A o \in Objects : NothingGot[o] = 0
    BY DEF NothingGot, None
  <2>2. \A r \in Syncs \ {s} :
          /\ \A o \in Objects : got[r][o] = Skipped => IsQuery(o)
          /\ \A o \in Objects : got[r][o] > 0 /\ Kind(o) # "action" => IsOf(got[r][o], o)
          /\ todo[r] # <<>> /\ Kind(Obj(r)) = "trace" => got[r][Task(Id(Obj(r)))] > 0
          /\ Doing(r, "store") /\ Kind(Obj(r)) = "entity" => hub[Saw(r)].scene = got[r][Scenario]
          /\ \A st \in Elems(todo[r]) :
               st.op \in {"check", "robot", "post"} /\ Kind(st.obj) = "action" => HasTask(r, st.obj)
    BY <1>3 DEF GotFits
  <2>3. QED
    BY <1>1, <1>2, <1>4, <2>1, <2>2 DEF GotFits, Doing, Obj, Saw, HasTask, IsOf, Skipped
<1>11. QED
  BY <1>5, <1>6, <1>7, <1>9, <1>10 DEF SyncInv, Grows

LEMMA BeginKeeps ==
  ASSUME SyncInv, NEW s \in Syncs, NEW q \in AnyRequest, Begin(s, q)
  PROVE  SyncInv'
<1>1. TypeOK /\ Phases /\ StepsFit /\ GotFits /\ MapFits /\ HubFits /\ IdsAreOwn
  BY DEF SyncInv
<1>2. /\ asked[s] = NoRequest /\ version' \in {version, version + 1}
      /\ asked' = [asked EXCEPT ![s] = q] /\ todo' = [todo EXCEPT ![s] = Work(q)]
      /\ at' = [at EXCEPT ![s] = version']
      /\ before' = [before EXCEPT ![s] = {r \in Syncs : result[r] # "none"}]
      /\ UNCHANGED <<hub, lost, map, got, result, refused>>
  BY DEF Begin
<1>3. /\ Work(q) \in Seq(Steps) /\ Work(q) # <<>> /\ Nest(Work(q))
      /\ \A a \in Elems(Work(q)) : /\ a.op = "enter" /\ a.saw = None /\ Kind(a.obj) # "trace"
      /\ Head(Work(q)) \in Elems(Work(q))
  <2>1. Work(q) \in Seq(EnterSteps) /\ Work(q) # <<>>
    BY WorkType
  <2>2. QED
    BY <2>1, EntersNest, EnterStepsFit, ElemsTail
<1>4. HubIds' = HubIds
  BY <1>2 DEF HubIds
<1>5. version \in Nat \ {0} /\ version' \in Nat \ {0} /\ version <= version'
  BY <1>1, <1>2 DEF TypeOK
<1>6. TypeOK'
  <2>1. todo' \in [Syncs -> Seq(Steps)]
    BY <1>1, <1>2, <1>3 DEF TypeOK
  <2>2. at' \in [Syncs -> 0..version']
    BY <1>1, <1>2, <1>5 DEF TypeOK
  <2>3. before' \in [Syncs -> SUBSET Syncs]
    BY <1>1, <1>2 DEF TypeOK
  <2>4. asked' \in [Syncs -> AnyRequest \cup {NoRequest}]
    BY <1>1, <1>2 DEF TypeOK
  <2>5. QED
    BY <1>1, <1>2, <1>4, <1>5, <2>1, <2>2, <2>3, <2>4 DEF TypeOK
<1>7. /\ todo'[s] = Work(q) /\ asked'[s] = q /\ at'[s] = version'
      /\ before'[s] = {r \in Syncs : result[r] # "none"}
      /\ \A r \in Syncs \ {s} : /\ todo'[r] = todo[r] /\ asked'[r] = asked[r]
                                /\ at'[r] = at[r] /\ before'[r] = before[r]
  BY <1>1, <1>2 DEF TypeOK
<1>8. Phases'
  <2>1. result[s] = "none"
    BY <1>1, <1>2 DEF Phases
  <2>2. q # NoRequest
    BY DEF AnyRequest, NoRequest
  <2>3. /\ todo'[s] # <<>> /\ asked'[s] # NoRequest /\ result'[s] = "none" /\ at'[s] > 0
        /\ \A p \in before'[s] : result'[p] # "none"
    BY <1>2, <1>3, <1>5, <1>7, <2>1, <2>2
  <2>4. \A r \in Syncs \ {s} : /\ todo'[r] # <<>> <=> asked'[r] # NoRequest /\ result'[r] = "none"
                               /\ asked'[r] = NoRequest => result'[r] = "none"
                               /\ asked'[r] # NoRequest => at'[r] > 0
                               /\ \A p \in before'[r] : result'[p] # "none"
    BY <1>1, <1>2, <1>7 DEF Phases
  <2>5. QED
    BY <2>3, <2>4 DEF Phases
<1>9. ASSUME NEW st, StepFits(st)
      PROVE  StepFits(st)'
  BY <1>2, <1>4, <1>9 DEF StepFits, IsOf
<1>10. StepsFit'
  <2>1. \A a \in Elems(Work(q)) : StepFits(a)'
    BY <1>3 DEF StepFits
  <2>2. \A r \in Syncs \ {s} : Nest(todo[r]) /\ \A st \in Elems(todo[r]) : StepFits(st)'
    BY <1>1, <1>9 DEF StepsFit
  <2>3. QED
    BY <1>3, <1>7, <2>1, <2>2 DEF StepsFit
<1>11. GotFits'
  <2>1. \A r \in Syncs \ {s} :
          /\ \A o \in Objects : got[r][o] = Skipped => IsQuery(o)
          /\ \A o \in Objects : got[r][o] > 0 /\ Kind(o) # "action" => IsOf(got[r][o], o)
          /\ todo[r] # <<>> /\ Kind(Obj(r)) = "trace" => got[r][Task(Id(Obj(r)))] > 0
          /\ Doing(r, "store") /\ Kind(Obj(r)) = "entity" => hub[Saw(r)].scene = got[r][Scenario]
          /\ \A st \in Elems(todo[r]) :
               st.op \in {"check", "robot", "post"} /\ Kind(st.obj) = "action" => HasTask(r, st.obj)
    BY <1>1 DEF GotFits
  <2>2. \A o \in Objects : /\ got[s][o] = Skipped => IsQuery(o)
                           /\ got[s][o] > 0 /\ Kind(o) # "action" => IsOf(got[s][o], o)
    BY <1>1 DEF GotFits
  <2>3. /\ Head(Work(q)).op = "enter" /\ Kind(Head(Work(q)).obj) # "trace"
        /\ \A a \in Elems(Work(q)) : a.op = "enter"
    BY <1>3
  <2>4. QED
    BY <1>2, <1>4, <1>7, <2>1, <2>2, <2>3 DEF GotFits, Doing, Obj, Saw, HasTask, IsOf
<1>12. MapFits' /\ HubFits' /\ IdsAreOwn'
  BY <1>1, <1>2, <1>4 DEF MapFits, HubFits, IdsAreOwn
<1>13. QED
  BY <1>6, <1>8, <1>10, <1>11, <1>12 DEF SyncInv

\* Steps at which the requests and what they work with stay, and the Hub may lose objects.
LEMMA IdleKeeps ==
  ASSUME SyncInv, lost' \in 0..Len(hub),
         UNCHANGED <<version, hub, map, asked, todo, got, result, refused, at, before>>
  PROVE  SyncInv'
<1>1. TypeOK /\ Phases /\ StepsFit /\ GotFits /\ MapFits /\ HubFits /\ IdsAreOwn
  BY DEF SyncInv
<1>2. HubIds' = HubIds
  BY DEF HubIds
<1>3. TypeOK'
  BY <1>1, <1>2 DEF TypeOK
<1>4. Phases'
  BY <1>1 DEF Phases
<1>5. ASSUME NEW st, StepFits(st)
      PROVE  StepFits(st)'
  BY <1>2, <1>5 DEF StepFits, IsOf
<1>6. StepsFit'
  BY <1>1, <1>5 DEF StepsFit
<1>7. GotFits'
  BY <1>1, <1>2 DEF GotFits, Doing, Obj, Saw, HasTask, IsOf
<1>8. MapFits' /\ HubFits' /\ IdsAreOwn'
  BY <1>1, <1>2 DEF MapFits, HubFits, IdsAreOwn
<1>9. QED
  BY <1>3, <1>4, <1>6, <1>7, <1>8 DEF SyncInv

LEMMA InitSync ==
  ASSUME Init
  PROVE  SyncInv
<1>1. /\ version = 1 /\ hub = <<>> /\ lost = 0 /\ map = <<>> /\ refused = {}
      /\ asked = [s \in Syncs |-> NoRequest] /\ todo = [s \in Syncs |-> <<>>]
      /\ got = [s \in Syncs |-> [o \in Objects |-> None]]
      /\ result = [s \in Syncs |-> "none"]
      /\ at = [s \in Syncs |-> 0] /\ before = [s \in Syncs |-> {}]
  BY DEF Init
<1>2. HubIds = {} /\ DOMAIN map = {} /\ Elems(<<>>) = {} /\ Len(hub) = 0
  BY <1>1, ElemsOf DEF HubIds
<1>3. TypeOK
  BY <1>1, <1>2 DEF TypeOK
<1>4. Phases
  BY <1>1 DEF Phases
<1>5. StepsFit
  BY <1>1, <1>2 DEF StepsFit, Nest
<1>6. GotFits
  <2>1. \A s \in Syncs : todo[s] = <<>> /\ \A o \in Objects : got[s][o] = 0
    BY <1>1 DEF None
  <2>2. QED
    BY <1>2, <2>1 DEF GotFits, Doing, Skipped
<1>7. MapFits /\ HubFits /\ IdsAreOwn
  BY <1>2 DEF MapFits, HubFits, IdsAreOwn
<1>8. QED
  BY <1>3, <1>4, <1>5, <1>6, <1>7 DEF SyncInv

\* The ways a step of the system can go.
LEMMA NextCases ==
  ASSUME SyncInv, [Next]_vars
  PROVE  \/ \E s \in Syncs : \E q \in AnyRequest : Begin(s, q)
         \/ \E s \in Syncs : \E h, new, ret : MoveOf(s, h, new, ret)
         \/ \E s \in Syncs : GivesUp(s)
         \/ Reset
         \/ UNCHANGED vars
<1>1. CASE \E s \in Syncs : \E q \in Requests[s] : Begin(s, q)
  BY <1>1, SyncAssumption
<1>2. CASE \E s \in Syncs : Moving(s)
  BY <1>2, AllMove
<1>3. CASE \E s \in Syncs : Fail(s) \/ Refuse(s)
  BY <1>3, FailuresGiveUp
<1>4. CASE Reset
  BY <1>4
<1>5. CASE UNCHANGED vars
  BY <1>5
<1>6. QED
  BY <1>1, <1>2, <1>3, <1>4, <1>5 DEF Next, Moving

LEMMA SyncStep ==
  ASSUME SyncInv, [Next]_vars
  PROVE  SyncInv'
<1>1. CASE \E s \in Syncs : \E q \in AnyRequest : Begin(s, q)
  BY <1>1, BeginKeeps
<1>2. CASE \E s \in Syncs : \E h, new, ret : MoveOf(s, h, new, ret)
  BY <1>2, MoveKeeps DEF MoveOf
<1>3. CASE \E s \in Syncs : GivesUp(s)
  BY <1>3, GivingUpKeeps
<1>4. CASE Reset
  BY <1>4, IdleKeeps DEF Reset, request, SyncInv, TypeOK
<1>5. CASE UNCHANGED vars
  BY <1>5, IdleKeeps DEF vars, SyncInv, TypeOK
<1>6. QED
  BY <1>1, <1>2, <1>3, <1>4, <1>5, NextCases

\* Steps, answers, mappings and Hub objects refer to each other as they should.
THEOREM SyncInvariant == Spec => []SyncInv
<1>1. Init => SyncInv
  BY InitSync
<1>2. SyncInv /\ [Next]_vars => SyncInv'
  BY SyncStep
<1>3. QED
  BY <1>1, <1>2, PTL DEF Spec

\* TypeOK holds for any requests, robots, runs, tasks, plans and Actions.
THEOREM TypeCorrect == Spec => []TypeOK
<1>1. SyncInv => TypeOK
  BY DEF SyncInv
<1>2. QED
  BY <1>1, SyncInvariant, PTL

\* The ids in hub_id_mappings and in what is posted belong to the objects they stand for, in
\* every interleaving of requests and after every failure and loss.
THEOREM IdsOwn == Spec => []IdsAreOwn
<1>1. SyncInv => IdsAreOwn
  BY DEF SyncInv
<1>2. QED
  BY <1>1, SyncInvariant, PTL

-----------------------------------------------------------------------------
\* No way through the calls forgets an object

LEMMA MoveCovers ==
  ASSUME SyncInv, NEW s \in Syncs, NEW h, NEW new, NEW ret, MoveOf(s, h, new, ret),
         NEW o \in Objects
  PROVE  /\ Covered(s, o) => Covered(s, o)'
         /\ Kind(o) = "task" /\ Awaits(s, o) => Awaits(s, o)' \/ Covered(s, Trace(Id(o)))'
         /\ Enters(s, o) =>
              \/ Enters(s, o)'
              \/ /\ Kind(o) = "task" => Covered(s, Run(RunOf[Id(o)]))'
                 /\ Kind(o) = "plan" => Covered(s, Task(TaskOf[Id(o)]))'
                 /\ Kind(o) = "action" /\ ~IsQuery(o) => Covered(s, Plan(PlanOf[Id(o)]))'
<1>1. /\ h = Head(todo[s]) /\ Moves(s, new, ret) /\ Grows /\ Continues(h, new)
      /\ todo[s] # <<>>
  BY DEF MoveOf, Moves
<1>2. todo[s] \in Seq(Steps) /\ Elems(todo'[s]) = Elems(new) \cup Elems(Tail(todo[s]))
  BY <1>1, MoveSteps
<1>3. Elems(todo[s]) = {h} \cup Elems(Tail(todo[s]))
  BY <1>1, <1>2, ElemsTail
<1>4. \A p : (\E k \in DOMAIN map' : k[1] = p) => Covered(s, p)'
  BY DEF Covered, HasMapping
<1>5. \A p : HasMapping(p) => Covered(s, p)'
  BY <1>1, <1>4 DEF HasMapping, Grows
<1>6. \A p : (\E a \in Elems(todo'[s]) : a.obj = p /\ a.op \notin {"keep", "robot"})
             => Awaits(s, p)' /\ Covered(s, p)'
  BY DEF Covered, Awaits
<1>7. \A p : Enter(p) \in Elems(new) => Awaits(s, p)' /\ Covered(s, p)'
  <2>1. \A p : Enter(p).obj = p /\ Enter(p).op = "enter"
    BY DEF Enter, Step
  <2>2. QED
    BY <1>2, <1>6, <2>1
<1>8. ASSUME Awaits(s, o)
      PROVE  Awaits(s, o)' \/ (h.obj = o /\ h.op \notin {"keep", "robot"})
  <2>1. PICK st \in Elems(todo[s]) : st.obj = o /\ st.op \notin {"keep", "robot"}
    BY <1>8 DEF Awaits
  <2>2. CASE st \in Elems(Tail(todo[s]))
    BY <1>2, <1>6, <2>1, <2>2
  <2>3. CASE st = h
    BY <2>1, <2>3
  <2>4. QED
    BY <1>3, <2>2, <2>3
<1>9. ASSUME h.obj = o, h.op \notin {"keep", "robot"}
      PROVE  /\ Covered(s, o)'
             /\ Kind(o) = "task" => Awaits(s, o)' \/ Covered(s, Trace(Id(o)))'
  <2>1. (\E a \in Elems(new) : a.obj = o /\ a.op \notin {"keep", "robot"}) =>
          Awaits(s, o)' /\ Covered(s, o)'
    BY <1>2, <1>6
  <2>2. QED
    BY <1>1, <1>4, <1>7, <1>9, <2>1 DEF Continues
<1>10. Covered(s, o) => Covered(s, o)'
  BY <1>5, <1>8, <1>9 DEF Covered
<1>11. Kind(o) = "task" /\ Awaits(s, o) => Awaits(s, o)' \/ Covered(s, Trace(Id(o)))'
  BY <1>8, <1>9
<1>12. ASSUME Enters(s, o), ~Enters(s, o)'
       PROVE  /\ Kind(o) = "task" => Covered(s, Run(RunOf[Id(o)]))'
              /\ Kind(o) = "plan" => Covered(s, Task(TaskOf[Id(o)]))'
              /\ Kind(o) = "action" /\ ~IsQuery(o) => Covered(s, Plan(PlanOf[Id(o)]))'
  <2>1. h = Enter(o)
    BY <1>2, <1>3, <1>12 DEF Enters
  <2>2. h.op = "enter" /\ h.obj = o
    BY <2>1 DEF Enter, Step
  <2>3. QED
    BY <1>1, <1>7, <2>2 DEF Continues
<1>13. QED
  BY <1>10, <1>11, <1>12

\* CoverInv of one request and one object.
CoverOf(s, o) ==
  /\ Covered(s, o)
  /\ Kind(o) = "task" => /\ Covered(s, Run(RunOf[Id(o)])) \/ Enters(s, o)
                         /\ Covered(s, Trace(Id(o))) \/ Awaits(s, o)
  /\ Kind(o) = "plan" => Covered(s, Task(TaskOf[Id(o)])) \/ Enters(s, o)
  /\ Kind(o) = "action" /\ Id(o) \notin Queries =>
       Covered(s, Plan(PlanOf[Id(o)])) \/ Enters(s, o)

LEMMA MoveCoverOf ==
  ASSUME SyncInv, NEW s \in Syncs, NEW h, NEW new, NEW ret, MoveOf(s, h, new, ret),
         NEW o \in Objects, CoverOf(s, o)
  PROVE  CoverOf(s, o)'
<1>1. /\ Kind(o) = "task" => Run(RunOf[Id(o)]) \in Objects /\ Trace(Id(o)) \in Objects
      /\ Kind(o) = "plan" => Task(TaskOf[Id(o)]) \in Objects
      /\ Kind(o) = "action" => Plan(PlanOf[Id(o)]) \in Objects
  BY Parents
<1>2. \A p \in Objects : Covered(s, p) => Covered(s, p)'
  BY MoveCovers
<1>3. /\ Kind(o) = "task" /\ Awaits(s, o) => Awaits(s, o)' \/ Covered(s, Trace(Id(o)))'
      /\ Enters(s, o) =>
           \/ Enters(s, o)'
           \/ /\ Kind(o) = "task" => Covered(s, Run(RunOf[Id(o)]))'
              /\ Kind(o) = "plan" => Covered(s, Task(TaskOf[Id(o)]))'
              /\ Kind(o) = "action" /\ ~IsQuery(o) => Covered(s, Plan(PlanOf[Id(o)]))'
  BY MoveCovers
<1>4. CASE Kind(o) = "task"
  BY <1>1, <1>2, <1>3, <1>4 DEF CoverOf
<1>5. CASE Kind(o) = "plan"
  BY <1>1, <1>2, <1>3, <1>5 DEF CoverOf
<1>6. CASE Kind(o) = "action"
  BY <1>1, <1>2, <1>3, <1>6 DEF CoverOf, IsQuery
<1>7. CASE Kind(o) \notin {"task", "plan", "action"}
  BY <1>2, <1>7 DEF CoverOf
<1>8. QED
  BY <1>4, <1>5, <1>6, <1>7

\* Other requests do not take from it.
LEMMA CoverStays ==
  ASSUME NEW s \in Syncs, todo'[s] = todo[s], DOMAIN map \subseteq DOMAIN map', NEW o, CoverOf(s, o)
  PROVE  CoverOf(s, o)'
<1>1. \A p : Covered(s, p) => Covered(s, p)'
  BY DEF Covered, HasMapping, Awaits
<1>2. \A p : (Awaits(s, p) => Awaits(s, p)') /\ (Enters(s, p) => Enters(s, p)')
  BY DEF Awaits, Enters
<1>3. QED
  BY <1>1, <1>2 DEF CoverOf

LEMMA CoverStep ==
  ASSUME SyncInv, CoverInv, [Next]_vars
  PROVE  CoverInv'
<1>1. TypeOK /\ Phases
  BY DEF SyncInv
<1>2. \A s \in Syncs : asked[s] # NoRequest /\ result[s] # "error" =>
        \A o \in Meant(asked[s]) : CoverOf(s, o)
  BY DEF CoverInv, CoverOf
<1>3. SUFFICES ASSUME NEW s \in Syncs, asked'[s] # NoRequest, result'[s] # "error",
                      NEW o \in Meant(asked'[s])
               PROVE  CoverOf(s, o)'
  BY DEF CoverInv, CoverOf
<1>4. ASSUME asked'[s] = asked[s], todo'[s] = todo[s], result'[s] = result[s],
             DOMAIN map \subseteq DOMAIN map'
      PROVE  CoverOf(s, o)'
  BY <1>2, <1>3, <1>4, CoverStays
<1>5. ASSUME NEW r \in Syncs, NEW q \in AnyRequest, Begin(r, q)
      PROVE  CoverOf(s, o)'
  <2>1. /\ todo'[r] = Work(q) /\ asked'[r] = q /\ result' = result /\ map' = map
        /\ \A p \in Syncs \ {r} : todo'[p] = todo[p] /\ asked'[p] = asked[p]
    BY <1>1, <1>5 DEF Begin, TypeOK
  <2>2. CASE s = r
    <3>1. Enter(o) \in Elems(todo'[s])
      BY <1>3, <2>1, <2>2, MeantEntered
    <3>2. Enter(o).obj = o /\ Enter(o).op = "enter"
      BY DEF Enter, Step
    <3>3. Enters(s, o)' /\ Awaits(s, o)' /\ Covered(s, o)'
      BY <3>1, <3>2 DEF Enters, Awaits, Covered
    <3>4. QED
      BY <3>3 DEF CoverOf
  <2>3. QED
    BY <1>4, <2>1, <2>2
<1>6. ASSUME NEW r \in Syncs, NEW h, NEW new, NEW ret, MoveOf(r, h, new, ret)
      PROVE  CoverOf(s, o)'
  <2>1. Moves(r, new, ret) /\ Grows
    BY <1>6 DEF MoveOf
  <2>2. /\ \A p \in Syncs \ {r} : todo'[p] = todo[p] /\ result'[p] = result[p]
        /\ result[r] = "none"
    <3>1. /\ todo[r] # <<>> /\ new \in Seq(Steps) /\ GoWith(r, new, ret)
          /\ ret \in [Objects -> HubIds \cup {None, Skipped}]
      BY <2>1 DEF Moves
    <3>2. ret \in [Objects -> Int]
      BY <1>1, <3>1 DEF TypeOK, HubIds, None, Skipped
    <3>3. QED
      BY <1>1, <3>1, <3>2, GoesWith DEF Phases
  <2>3. asked' = asked /\ DOMAIN map \subseteq DOMAIN map'
    BY <2>1 DEF Grows
  <2>4. CASE s = r
    <3>1. CoverOf(s, o)
      BY <1>2, <1>3, <2>2, <2>3, <2>4
    <3>2. o \in Objects
      BY <1>1, <1>3, <2>3, MeantEntered DEF TypeOK
    <3>3. QED
      BY <1>6, <2>4, <3>1, <3>2, MoveCoverOf
  <2>5. QED
    BY <1>4, <2>2, <2>3, <2>4
<1>7. ASSUME NEW r \in Syncs, GivesUp(r)
      PROVE  CoverOf(s, o)'
  <2>1. /\ result'[r] = "error" /\ \A p \in Syncs \ {r} : todo'[p] = todo[p] /\ result'[p] = result[p]
    BY <1>7, GivingUp
  <2>2. asked' = asked /\ map' = map
    BY <1>7 DEF GivesUp
  <2>3. QED
    BY <1>3, <1>4, <2>1, <2>2
<1>8. CASE Reset
  BY <1>4, <1>8 DEF Reset, request
<1>9. CASE UNCHANGED vars
  BY <1>4, <1>9 DEF vars
<1>10. QED
  BY <1>5, <1>6, <1>7, <1>8, <1>9, NextCases

\* A mapping for an object, and for what is above it.
MappedWithParents(o) ==
  /\ HasMapping(o)
  /\ Kind(o) = "task" => {<<Trace(Id(o)), None>>, <<Run(RunOf[Id(o)]), None>>}
                           \subseteq DOMAIN map
  /\ Kind(o) = "plan" => <<Task(TaskOf[Id(o)]), None>> \in DOMAIN map
  /\ Kind(o) = "action" /\ Id(o) \notin Queries =>
       <<Plan(PlanOf[Id(o)]), None>> \in DOMAIN map

\* A request that has answered has nothing left to do.
LEMMA CoverEnds ==
  ASSUME SyncInv, CoverInv, NEW s \in Syncs, result[s] = "ok", NEW o \in Meant(asked[s])
  PROVE  MappedWithParents(o)
<1>1. TypeOK /\ Phases /\ MapFits
  BY DEF SyncInv
<1>2. SUFFICES /\ HasMapping(o)
               /\ Kind(o) = "task" => {<<Trace(Id(o)), None>>, <<Run(RunOf[Id(o)]), None>>}
                                        \subseteq DOMAIN map
               /\ Kind(o) = "plan" => <<Task(TaskOf[Id(o)]), None>> \in DOMAIN map
               /\ Kind(o) = "action" /\ Id(o) \notin Queries =>
                    <<Plan(PlanOf[Id(o)]), None>> \in DOMAIN map
  BY DEF MappedWithParents
<1>3. asked[s] # NoRequest /\ asked[s] \in AnyRequest /\ todo[s] = <<>>
  BY <1>1 DEF Phases, TypeOK
<1>4. o \in Objects
  BY <1>3, MeantEntered
<1>5. CoverOf(s, o)
  BY <1>3 DEF CoverInv, CoverOf
<1>6. Elems(todo[s]) = {}
  BY <1>3, ElemsOf
<1>7. ~Enters(s, o) /\ \A p : ~Awaits(s, p)
  BY <1>6 DEF Enters, Awaits
<1>8. \A p : Covered(s, p) => HasMapping(p)
  BY <1>7 DEF Covered
<1>9. \A p : HasMapping(p) /\ Kind(p) # "entity" => <<p, None>> \in DOMAIN map
  <2>1. ASSUME NEW p, HasMapping(p), Kind(p) # "entity"
        PROVE  <<p, None>> \in DOMAIN map
    <3>1. PICK k \in DOMAIN map : k[1] = p
      BY <2>1 DEF HasMapping
    <3>2. k[2] = None /\ k \in Objects \X (HubIds \cup {None})
      BY <1>1, <2>1, <3>1 DEF MapFits, TypeOK
    <3>3. k = <<p, None>>
      BY <3>1, <3>2
    <3>4. QED
      BY <3>1, <3>3
  <2>2. QED
    BY <2>1
<1>10. CASE Kind(o) = "task"
  <2>1. HasMapping(o) /\ HasMapping(Run(RunOf[Id(o)])) /\ HasMapping(Trace(Id(o)))
    BY <1>5, <1>7, <1>8, <1>10 DEF CoverOf
  <2>2. QED
    BY <1>4, <1>9, <1>10, <2>1, Parents
<1>11. CASE Kind(o) = "plan"
  <2>1. HasMapping(o) /\ HasMapping(Task(TaskOf[Id(o)]))
    BY <1>5, <1>7, <1>8, <1>11 DEF CoverOf
  <2>2. QED
    BY <1>4, <1>9, <1>11, <2>1, Parents
<1>12. CASE Kind(o) = "action"
  <2>1. HasMapping(o) /\ (Id(o) \notin Queries => HasMapping(Plan(PlanOf[Id(o)])))
    BY <1>5, <1>7, <1>8, <1>12 DEF CoverOf
  <2>2. QED
    BY <1>4, <1>9, <1>12, <2>1, Parents
<1>13. CASE Kind(o) \notin {"task", "plan", "action"}
  BY <1>5, <1>8, <1>13 DEF CoverOf
<1>14. QED
  BY <1>10, <1>11, <1>12, <1>13

LEMMA CoverOk ==
  ASSUME SyncInv, CoverInv
  PROVE  OkMeansMapped
<1>1. SUFFICES ASSUME NEW s \in Syncs, result[s] = "ok"
               PROVE  /\ \A o \in Meant(asked[s]) : MappedWithParents(o)
                      /\ asked[s].what = "graph" =>
                           \A a \in ActionsOf(Id(asked[s].obj)) :
                             Cardinality(Newer(a)) < ActionLimit => HasMapping(Action(a))
  BY DEF OkMeansMapped, MappedWithParents, HasMapping
<1>2. \A o \in Meant(asked[s]) : MappedWithParents(o)
  BY <1>1, CoverEnds
<1>3. asked[s] \in AnyRequest
  BY <1>1 DEF SyncInv, Phases, TypeOK
<1>4. ASSUME asked[s].what = "graph", NEW a \in ActionsOf(Id(asked[s].obj)),
             Cardinality(Newer(a)) < ActionLimit
      PROVE  HasMapping(Action(a))
  BY <1>2, <1>3, <1>4, MeantActions DEF MappedWithParents
<1>5. QED
  BY <1>2, <1>4

\* What a request has still to do covers what it was to bring to the Hub.
THEOREM CoverInvariant == Spec => []CoverInv
<1>1. Init => CoverInv
  BY DEF Init, CoverInv
<1>2. SyncInv /\ CoverInv /\ [Next]_vars => CoverInv'
  BY CoverStep
<1>3. QED
  BY <1>1, <1>2, SyncInvariant, PTL DEF Spec

\* A request that answers ok has left mappings for all it was asked for, whatever other requests
\* did meanwhile: no way through the recursive calls of hub_client.py forgets one.
THEOREM OkMapped == Spec => []OkMeansMapped
<1>1. SyncInv /\ CoverInv => OkMeansMapped
  BY CoverOk
<1>2. QED
  BY <1>1, SyncInvariant, CoverInvariant, PTL

-----------------------------------------------------------------------------
\* What has been made for a request is not made again

\* How a move leaves the requests and what the Hub has.
LEMMA MoveChanges ==
  ASSUME SyncInv, NEW s \in Syncs, NEW h, NEW new, NEW ret, MoveOf(s, h, new, ret)
  PROVE  /\ todo[s] # <<>> /\ result[s] = "none" /\ asked[s] # NoRequest
         /\ h = Head(todo[s]) /\ h \in Elems(todo[s]) /\ h \in Steps /\ StepFits(h)
         /\ Elems(todo'[s]) = Elems(new) \cup Elems(Tail(todo[s]))
         /\ \A b \in Elems(Tail(todo[s])) : b \in Elems(todo[s]) /\ b \in Steps /\ Below(h, b)
         /\ \A r \in Syncs \ {s} : todo'[r] = todo[r] /\ result'[r] = result[r]
         /\ result'[s] = IF todo'[s] = <<>> THEN "ok" ELSE "none"
         /\ \A r \in Syncs : s \notin before[r]
         /\ UNCHANGED <<version, lost, asked, at, before>> /\ DOMAIN map \subseteq DOMAIN map'
         /\ \A x \in HubIds : x \in HubIds' /\ hub'[x] = hub[x]
         /\ \A x \in HubIds' \ HubIds :
              /\ \A y \in HubIds : y < x
              /\ h.op = "post" /\ hub'[x].by = s /\ hub'[x].of = h.obj
              /\ \A y \in HubIds' : y <= x
              /\ todo'[s] # <<>> /\ Head(todo'[s]) = Step("store", h.obj, x)
<1>1. /\ h = Head(todo[s]) /\ Moves(s, new, ret) /\ Grows /\ Makes(s, h, new)
      /\ TypeOK /\ Phases
  BY DEF MoveOf, SyncInv
<1>2. /\ todo[s] # <<>> /\ new \in Seq(Steps) /\ GoWith(s, new, ret)
      /\ ret \in [Objects -> HubIds \cup {None, Skipped}]
  BY <1>1 DEF Moves
<1>3. ret \in [Objects -> Int]
  BY <1>1, <1>2 DEF TypeOK, HubIds, None, Skipped
<1>4. result[s] = "none" /\ asked[s] # NoRequest /\ \A r \in Syncs : s \notin before[r]
  BY <1>1, <1>2 DEF Phases
<1>5. /\ \A r \in Syncs \ {s} : todo'[r] = todo[r] /\ result'[r] = result[r]
      /\ result'[s] = IF todo'[s] = <<>> THEN "ok" ELSE "none"
      /\ new # <<>> => todo'[s] # <<>> /\ Head(todo'[s]) = Head(new)
  BY <1>1, <1>2, <1>3, <1>4, GoesWith
<1>6. /\ h \in Elems(todo[s]) /\ h \in Steps /\ StepFits(h)
      /\ Elems(todo'[s]) = Elems(new) \cup Elems(Tail(todo[s]))
      /\ \A b \in Elems(Tail(todo[s])) : b \in Elems(todo[s]) /\ b \in Steps /\ Below(h, b)
  BY <1>1, <1>2, MoveSteps, FirstStep
<1>7. /\ UNCHANGED <<version, lost, asked, at, before>> /\ DOMAIN map \subseteq DOMAIN map'
      /\ \A x \in HubIds : x \in HubIds' /\ hub'[x] = hub[x]
  BY <1>1, IsOfStays DEF Grows
<1>8. ASSUME NEW x \in HubIds' \ HubIds
      PROVE  /\ \A y \in HubIds : y < x
             /\ h.op = "post" /\ hub'[x].by = s /\ hub'[x].of = h.obj
             /\ \A y \in HubIds' : y <= x
             /\ todo'[s] # <<>> /\ Head(todo'[s]) = Step("store", h.obj, x)
  <2>1. hub' # hub
    BY <1>8 DEF HubIds
  <2>2. /\ h.op = "post" /\ hub' = Append(hub, Posted(s))
        /\ new = <<Step("store", h.obj, Len(hub) + 1)>>
    BY <1>1, <2>1 DEF Makes
  <2>3. /\ hub \in Seq(HubObjects) /\ Len(hub) \in Nat /\ Len(hub') = Len(hub) + 1
        /\ hub'[Len(hub) + 1] = Posted(s)
    BY <1>1, <2>2 DEF TypeOK
  <2>4. x = Len(hub) + 1 /\ \A y \in HubIds' : y <= x
    BY <1>8, <2>3 DEF HubIds
  <2>5. Posted(s).by = s /\ Posted(s).of = h.obj
    BY <1>1 DEF Posted, Obj
  <2>6. new # <<>> /\ Head(new) = Step("store", h.obj, x)
    BY <2>2, <2>4
  <2>7. \A y \in HubIds : y < x
    BY <2>3, <2>4 DEF HubIds
  <2>8. QED
    BY <1>5, <2>2, <2>3, <2>4, <2>5, <2>6, <2>7
<1>9. QED
  BY <1>1, <1>2, <1>4, <1>5, <1>6, <1>7, <1>8

\* What s or one that ended well before s has made is mapped, unless s is about to store it.
LEMMA MineMapped ==
  ASSUME SyncInv, MadeInv, NEW s \in Syncs, todo[s] # <<>>, Head(todo[s]).op # "store",
         NEW x \in HubIds, Mine(s, x), Kind(hub[x].of) \notin Single
  PROVE  Mapped(<<hub[x].of, None>>) # None
<1>1. TypeOK /\ Phases
  BY DEF SyncInv
<1>2. hub[x] \in HubObjects
  BY <1>1 DEF TypeOK, HubIds
<1>3. hub[x].by \in Syncs
  BY <1>2 DEF HubObjects
<1>4. \/ <<hub[x].of, None>> \in DOMAIN map
      \/ result[hub[x].by] = "error"
      \/ todo[hub[x].by] # <<>> /\ Head(todo[hub[x].by]) = Step("store", hub[x].of, x)
  BY DEF MadeInv
<1>5. result[s] = "none"
  BY <1>1 DEF Phases
<1>6. <<hub[x].of, None>> \in DOMAIN map
  <2>1. CASE hub[x].by = s
    BY <1>4, <1>5, <2>1, StepFields
  <2>2. CASE result[hub[x].by] = "ok"
    BY <1>1, <1>3, <1>4, <2>2 DEF Phases
  <2>3. QED
    BY <2>1, <2>2 DEF Mine
<1>7. map[<<hub[x].of, None>>] \in HubIds \cup {Skipped}
  BY <1>1, <1>6 DEF TypeOK
<1>8. QED
  BY <1>1, <1>6, <1>7 DEF Mapped, None, Skipped, HubIds, TypeOK

LEMMA MoveMade ==
  ASSUME SyncInv, MadeInv, NEW s \in Syncs, NEW h, NEW new, NEW ret, MoveOf(s, h, new, ret)
  PROVE  MadeInv'
<1>1. SUFFICES ASSUME NEW x \in HubIds', Kind(hub'[x].of) \notin Single
               PROVE  /\ asked'[hub'[x].by] # NoRequest
                      /\ \/ <<hub'[x].of, None>> \in DOMAIN map'
                         \/ result'[hub'[x].by] = "error"
                         \/ /\ todo'[hub'[x].by] # <<>>
                            /\ Head(todo'[hub'[x].by]) = Step("store", hub'[x].of, x)
  BY DEF MadeInv
<1>2. /\ result[s] = "none" /\ asked[s] # NoRequest /\ h = Head(todo[s])
      /\ \A r \in Syncs \ {s} : todo'[r] = todo[r] /\ result'[r] = result[r]
      /\ asked' = asked /\ DOMAIN map \subseteq DOMAIN map'
  BY MoveChanges
<1>3. CASE x \in HubIds' \ HubIds
  BY <1>2, <1>3, MoveChanges
<1>4. CASE x \in HubIds
  <2>1. hub'[x] = hub[x] /\ hub[x].by \in Syncs
    <3>1. hub'[x] = hub[x]
      BY <1>4, MoveChanges
    <3>2. hub[x] \in HubObjects
      BY <1>4 DEF SyncInv, TypeOK, HubIds
    <3>3. QED
      BY <3>1, <3>2 DEF HubObjects
  <2>2. /\ asked[hub[x].by] # NoRequest
        /\ \/ <<hub[x].of, None>> \in DOMAIN map
           \/ result[hub[x].by] = "error"
           \/ todo[hub[x].by] # <<>> /\ Head(todo[hub[x].by]) = Step("store", hub[x].of, x)
    BY <1>1, <1>4, <2>1 DEF MadeInv
  <2>3. CASE hub[x].by = s /\ h = Step("store", hub[x].of, x)
    <3>1. h.op = "store" /\ h.obj = hub[x].of
      BY <2>3, StepFields
    <3>2. <<h.obj, None>> \in DOMAIN map'
      BY <1>1, <2>1, <3>1 DEF MoveOf, Makes, Single
    <3>3. QED
      BY <1>2, <2>1, <2>2, <3>1, <3>2
  <2>4. QED
    BY <1>2, <2>1, <2>2, <2>3
<1>5. QED
  BY <1>3, <1>4

\* What a lookup or a post that a move adds means for what is there already.
LEMMA MoveLooks ==
  ASSUME SyncInv, MadeInv, RepeatInv, NEW s \in Syncs, NEW h, NEW new, NEW ret,
         MoveOf(s, h, new, ret), ~Forced(s), NEW a \in Elems(new), a.op \in {"check", "post"},
         Kind(a.obj) \notin Single, Unlost(a.obj),
         NEW x \in HubIds, hub[x].of = a.obj, Mine(s, x)
  PROVE  h.op # "post" /\ a.op = "check" /\ a.saw # None
<1>1. /\ todo[s] # <<>> /\ h = Head(todo[s]) /\ h \in Elems(todo[s]) /\ StepFits(h)
  BY MoveChanges
<1>2. Looks(s, h, new)
  BY DEF MoveOf
<1>3. a.obj = h.obj
  BY <1>2 DEF Looks
<1>4. \/ h.op = "enter" /\ a.op = "check" /\ a.saw = Mapped(<<h.obj, None>>)
      \/ h.op = "enter" /\ a.op = "post" /\ Mapped(<<h.obj, None>>) = None
      \/ h.op = "check" /\ a.op = "post" /\ (~(h.saw > 0) \/ ~Live(h.saw))
  BY <1>2 DEF Looks
<1>5. h.op # "store" => Mapped(<<h.obj, None>>) # None
  BY <1>1, <1>3, MineMapped
<1>6. ~(h.op = "check" /\ (~(h.saw > 0) \/ ~Live(h.saw)))
  <2>1. SUFFICES ASSUME h.op = "check"
                 PROVE  h.saw > 0 /\ Live(h.saw)
    OBVIOUS
  <2>2. h.saw # None
    BY <1>1, <1>3, <2>1 DEF RepeatInv
  <2>3. h.saw \in HubIds /\ hub[h.saw].of = h.obj
    BY <1>1, <2>1, <2>2 DEF StepFits, IsOf
  <2>4. h.saw \notin 1..lost
    BY <1>3, <2>3 DEF Unlost
  <2>5. lost \in Nat
    BY DEF SyncInv, TypeOK
  <2>6. QED
    BY <2>3, <2>4, <2>5 DEF Live, HubIds
<1>7. QED
  BY <1>4, <1>5, <1>6

LEMMA MoveRepeats ==
  ASSUME SyncInv, MadeInv, RepeatInv, NEW s \in Syncs, NEW h, NEW new, NEW ret,
         MoveOf(s, h, new, ret)
  PROVE  RepeatInv'
<1>1. SUFFICES ASSUME NEW r \in Syncs, ~Forced(r)', NEW st \in Elems(todo'[r]),
                      Kind(st.obj) \notin Single, st.op \in {"check", "post"}, Unlost(st.obj)',
                      NEW x \in HubIds', hub'[x].of = st.obj, Mine(r, x)'
               PROVE  st.op = "check" /\ st.saw # None
  BY DEF RepeatInv
<1>2. /\ Elems(todo'[s]) = Elems(new) \cup Elems(Tail(todo[s]))
      /\ \A b \in Elems(Tail(todo[s])) : b \in Elems(todo[s]) /\ b \in Steps /\ Below(h, b)
      /\ \A p \in Syncs \ {s} : todo'[p] = todo[p] /\ result'[p] = result[p]
      /\ \A p \in Syncs : s \notin before[p]
      /\ UNCHANGED <<version, lost, asked, at, before>>
      /\ \A y \in HubIds : y \in HubIds' /\ hub'[y] = hub[y]
  BY MoveChanges
<1>3. Looks(s, h, new)
  BY DEF MoveOf
<1>4. ~Forced(r)
  BY <1>1, <1>2 DEF Forced
<1>5. Unlost(st.obj)
  <2>1. 1..lost \subseteq HubIds
    BY DEF SyncInv, TypeOK, HubIds
  <2>2. QED
    BY <1>1, <1>2, <2>1 DEF Unlost
<1>6. ASSUME x \in HubIds
      PROVE  hub[x].of = st.obj /\ Mine(r, x)
  <2>1. before[r] \subseteq Syncs
    BY DEF SyncInv, TypeOK
  <2>2. hub'[x] = hub[x]
    BY <1>2, <1>6
  <2>3. QED
    BY <1>1, <1>2, <2>1, <2>2 DEF Mine
<1>7. CASE r = s /\ st \in Elems(new)
  <2>1. x \in HubIds
    <3>1. st.obj = h.obj /\ h.op # "post"
      BY <1>1, <1>3, <1>7 DEF Looks
    <3>2. QED
      BY <1>1, <3>1, MoveChanges
  <2>2. hub[x].of = st.obj /\ Mine(s, x)
    BY <1>6, <1>7, <2>1
  <2>3. QED
    BY <1>1, <1>4, <1>5, <1>7, <2>1, <2>2, MoveLooks
<1>8. CASE st \in Elems(todo[r]) /\ x \in HubIds
  BY <1>1, <1>4, <1>5, <1>6, <1>8 DEF RepeatInv
<1>9. CASE r = s /\ st \in Elems(Tail(todo[s])) /\ x \notin HubIds
  <2>1. h.op = "post" /\ st.obj = h.obj
    BY <1>1, <1>9, MoveChanges
  <2>2. Below(h, st) /\ st.obj \in Objects
    BY <1>2, <1>9 DEF Steps
  <2>3. Rank(st.obj) \in Int
    BY <2>2, Ranks
  <2>4. QED
    BY <1>1, <2>1, <2>2, <2>3 DEF Below
<1>10. CASE r # s /\ x \notin HubIds
  <2>1. hub'[x].by = s
    BY <1>1, <1>10, MoveChanges
  <2>2. QED
    BY <1>1, <1>2, <1>10, <2>1 DEF Mine
<1>11. QED
  BY <1>1, <1>2, <1>7, <1>8, <1>9, <1>10

\* An object made twice.
Repeats(x, y) ==
  /\ x < y /\ hub[x].of = hub[y].of /\ Kind(hub[x].of) \notin Single
  /\ ~asked[hub[y].by].force /\ Unlost(hub[x].of)

LEMMA MoveNeedless ==
  ASSUME SyncInv, MadeInv, RepeatInv, NoNeedlessRepeat, NEW s \in Syncs, NEW h, NEW new, NEW ret,
         MoveOf(s, h, new, ret)
  PROVE  NoNeedlessRepeat'
<1>1. SUFFICES ASSUME NEW x \in HubIds', NEW y \in HubIds', Repeats(x, y)'
               PROVE  /\ hub'[x].by # hub'[y].by
                      /\ ~(hub'[x].by \in before'[hub'[y].by] /\ result'[hub'[x].by] = "ok")
  BY DEF NoNeedlessRepeat, Repeats, Unlost
<1>2. /\ h = Head(todo[s]) /\ h \in Elems(todo[s])
      /\ \A p \in Syncs \ {s} : todo'[p] = todo[p] /\ result'[p] = result[p]
      /\ \A p \in Syncs : s \notin before[p]
      /\ UNCHANGED <<version, lost, asked, at, before>>
      /\ \A n \in HubIds : n \in HubIds' /\ hub'[n] = hub[n]
  BY MoveChanges
<1>3. \A n \in HubIds : hub[n].by \in Syncs
  <2>1. \A n \in HubIds : hub[n] \in HubObjects
    BY DEF SyncInv, TypeOK, HubIds
  <2>2. QED
    BY <2>1 DEF HubObjects
<1>4. x \in HubIds /\ hub'[x] = hub[x]
  <2>1. x < y /\ x \in Int /\ y \in Int
    BY <1>1 DEF Repeats, HubIds
  <2>2. x \notin HubIds' \ HubIds
    <3>1. x \in HubIds' \ HubIds => y <= x
      BY <1>1, MoveChanges
    <3>2. QED
      BY <2>1, <3>1
  <2>3. QED
    BY <1>1, <1>2, <2>2
<1>5. \A o : Unlost(o)' => Unlost(o)
  <2>1. 1..lost \subseteq HubIds
    BY DEF SyncInv, TypeOK, HubIds
  <2>2. QED
    BY <1>2, <2>1 DEF Unlost
<1>6. CASE y \in HubIds
  <2>1. hub'[y] = hub[y] /\ Repeats(x, y)
    BY <1>1, <1>2, <1>4, <1>5, <1>6 DEF Repeats
  <2>2. /\ hub[x].by # hub[y].by
        /\ ~(hub[x].by \in before[hub[y].by] /\ result[hub[x].by] = "ok")
    BY <1>4, <1>6, <2>1 DEF NoNeedlessRepeat, Repeats, Unlost
  <2>3. s \notin before[hub[y].by]
    BY <1>2, <1>3, <1>6
  <2>4. QED
    BY <1>2, <1>3, <1>4, <2>1, <2>2, <2>3
<1>7. CASE y \notin HubIds
  <2>1. hub'[y].by = s /\ hub'[y].of = h.obj /\ h.op = "post"
    BY <1>1, <1>7, MoveChanges
  <2>2. Kind(h.obj) \notin Single /\ Unlost(h.obj) /\ ~Forced(s) /\ hub[x].of = h.obj
    BY <1>1, <1>2, <1>4, <1>5, <2>1 DEF Repeats, Forced
  <2>3. ~Mine(s, x)
    BY <1>2, <1>4, <2>1, <2>2 DEF RepeatInv
  <2>4. QED
    BY <1>2, <1>3, <1>4, <2>1, <2>3 DEF Mine
<1>8. QED
  BY <1>6, <1>7

\* A request that begins looks nothing up and posts nothing yet.
LEMMA BeginSteps ==
  ASSUME SyncInv, NEW s \in Syncs, NEW q \in AnyRequest, Begin(s, q)
  PROVE  /\ asked[s] = NoRequest /\ asked'[s] = q /\ result[s] = "none" /\ result' = result
         /\ version <= version' /\ at'[s] = version' /\ version \in Nat
         /\ q.what = "publish" => version < version'
         /\ before'[s] = {r \in Syncs : result[r] # "none"}
         /\ \A a \in Elems(todo'[s]) : a.op = "enter"
         /\ todo'[s] = Work(q) /\ \A r \in Syncs : s \notin before[r]
         /\ \A r \in Syncs \ {s} : /\ todo'[r] = todo[r] /\ asked'[r] = asked[r]
                                   /\ at'[r] = at[r] /\ before'[r] = before[r]
         /\ hub' = hub /\ lost' = lost /\ map' = map /\ HubIds' = HubIds
<1>1. TypeOK /\ Phases
  BY DEF SyncInv
<1>2. /\ asked[s] = NoRequest /\ hub' = hub /\ lost' = lost /\ map' = map /\ result' = result
      /\ asked'[s] = q /\ todo'[s] = Work(q) /\ at'[s] = version'
      /\ before'[s] = {r \in Syncs : result[r] # "none"}
      /\ version' = IF q.what = "publish" THEN version + 1 ELSE version
      /\ \A r \in Syncs \ {s} : /\ todo'[r] = todo[r] /\ asked'[r] = asked[r]
                                /\ at'[r] = at[r] /\ before'[r] = before[r]
  BY <1>1 DEF Begin, TypeOK
<1>3. version \in Nat /\ version <= version' /\ (q.what = "publish" => version < version')
  BY <1>1, <1>2 DEF TypeOK
<1>4. \A a \in Elems(Work(q)) : a.op = "enter"
  <2>1. Work(q) \in Seq(EnterSteps)
    BY WorkType
  <2>2. QED
    BY <2>1, EntersNest, EnterStepsFit
<1>5. result[s] = "none" /\ \A r \in Syncs : s \notin before[r]
  BY <1>1, <1>2 DEF Phases
<1>6. HubIds' = HubIds
  BY <1>2 DEF HubIds
<1>7. QED
  BY <1>2, <1>3, <1>4, <1>5, <1>6

Repeated == MadeInv /\ RepeatInv /\ NoNeedlessRepeat

LEMMA BeginRepeats ==
  ASSUME SyncInv, Repeated, NEW s \in Syncs, NEW q \in AnyRequest, Begin(s, q)
  PROVE  Repeated'
<1>1. MadeInv /\ RepeatInv /\ NoNeedlessRepeat
  BY DEF Repeated
<1>2. /\ asked[s] = NoRequest /\ result' = result /\ \A a \in Elems(todo'[s]) : a.op = "enter"
      /\ \A r \in Syncs \ {s} : todo'[r] = todo[r] /\ asked'[r] = asked[r] /\ before'[r] = before[r]
      /\ hub' = hub /\ lost' = lost /\ map' = map /\ HubIds' = HubIds
  BY BeginSteps
<1>3. \A x \in HubIds : Kind(hub[x].of) \notin Single => hub[x].by \in Syncs \ {s}
  <2>1. \A x \in HubIds : hub[x] \in HubObjects
    BY DEF SyncInv, TypeOK, HubIds
  <2>2. \A x \in HubIds : Kind(hub[x].of) \notin Single => hub[x].by # s
    BY <1>1, <1>2 DEF MadeInv
  <2>3. QED
    BY <2>1, <2>2 DEF HubObjects
<1>4. MadeInv'
  BY <1>1, <1>2, <1>3 DEF MadeInv
<1>5. RepeatInv'
  BY <1>1, <1>2 DEF RepeatInv, Forced, Unlost, Mine
<1>6. NoNeedlessRepeat'
  BY <1>1, <1>2, <1>3 DEF NoNeedlessRepeat
<1>7. QED
  BY <1>4, <1>5, <1>6 DEF Repeated

LEMMA GivingUpRepeats ==
  ASSUME SyncInv, Repeated, NEW s \in Syncs, GivesUp(s)
  PROVE  Repeated'
<1>1. MadeInv /\ RepeatInv /\ NoNeedlessRepeat
  BY DEF Repeated
<1>2. /\ todo'[s] = <<>> /\ result'[s] = "error"
      /\ \A r \in Syncs \ {s} : todo'[r] = todo[r] /\ result'[r] = result[r]
      /\ hub' = hub /\ lost' = lost /\ map' = map /\ asked' = asked /\ before' = before
  BY GivingUp DEF GivesUp
<1>3. HubIds' = HubIds /\ Elems(todo'[s]) = {}
  BY <1>2, ElemsOf DEF HubIds
<1>4. /\ \A x \in HubIds : hub[x].by \in Syncs
      /\ \A r \in Syncs : before[r] \subseteq Syncs
  <2>1. \A x \in HubIds : hub[x] \in HubObjects
    BY DEF SyncInv, TypeOK, HubIds
  <2>2. \A r \in Syncs : before[r] \subseteq Syncs
    BY DEF SyncInv, TypeOK
  <2>3. QED
    BY <2>1, <2>2 DEF HubObjects
<1>5. MadeInv'
  BY <1>1, <1>2, <1>3, <1>4 DEF MadeInv
<1>6. \A r \in Syncs : result'[r] = "ok" => result[r] = "ok"
  BY <1>2
<1>7. RepeatInv'
  <2>1. \A r \in Syncs, x \in HubIds : Mine(r, x)' => Mine(r, x)
    BY <1>2, <1>4, <1>6 DEF Mine
  <2>2. QED
    BY <1>1, <1>2, <1>3, <2>1 DEF RepeatInv, Forced, Unlost
<1>8. NoNeedlessRepeat'
  BY <1>1, <1>2, <1>3, <1>4, <1>6 DEF NoNeedlessRepeat
<1>9. QED
  BY <1>5, <1>7, <1>8 DEF Repeated

LEMMA ResetRepeats ==
  ASSUME SyncInv, Repeated, Reset
  PROVE  Repeated'
<1>1. MadeInv /\ RepeatInv /\ NoNeedlessRepeat
  BY DEF Repeated
<1>2. /\ lost' = Len(hub) /\ \A s \in Syncs : todo[s] = <<>>
      /\ hub' = hub /\ map' = map /\ todo' = todo /\ result' = result
      /\ asked' = asked /\ before' = before
  BY DEF Reset, request
<1>3. HubIds' = HubIds /\ 1..lost' = HubIds
  BY <1>2 DEF HubIds
<1>4. MadeInv'
  BY <1>1, <1>2, <1>3 DEF MadeInv
<1>5. RepeatInv'
  BY <1>2, ElemsOf DEF RepeatInv
<1>6. NoNeedlessRepeat'
  BY <1>2, <1>3 DEF NoNeedlessRepeat
<1>7. QED
  BY <1>4, <1>5, <1>6 DEF Repeated

LEMMA RepeatedStep ==
  ASSUME SyncInv, Repeated, [Next]_vars
  PROVE  Repeated'
<1>1. CASE \E s \in Syncs : \E q \in AnyRequest : Begin(s, q)
  BY <1>1, BeginRepeats
<1>2. CASE \E s \in Syncs : \E h, new, ret : MoveOf(s, h, new, ret)
  BY <1>2, MoveMade, MoveRepeats, MoveNeedless DEF Repeated
<1>3. CASE \E s \in Syncs : GivesUp(s)
  BY <1>3, GivingUpRepeats
<1>4. CASE Reset
  BY <1>4, ResetRepeats
<1>5. CASE UNCHANGED vars
  <2>1. HubIds' = HubIds
    BY <1>5 DEF vars, HubIds
  <2>2. QED
    BY <1>5, <2>1 DEF vars, Repeated, MadeInv, RepeatInv, NoNeedlessRepeat, Mine, Unlost, Forced
<1>6. QED
  BY <1>1, <1>2, <1>3, <1>4, <1>5, NextCases

\* What has been made is mapped, about to be stored, or its request has failed; and no request
\* looks in vain for what it or one that ended well before it has made.
THEOREM RepeatInvariant == Spec => []Repeated
<1>1. Init => Repeated
  <2>1. ASSUME Init
        PROVE  HubIds = {} /\ \A s \in Syncs : Elems(todo[s]) = {}
    <3>1. hub = <<>> /\ \A s \in Syncs : todo[s] = <<>>
      BY <2>1 DEF Init
    <3>2. QED
      BY <3>1, ElemsOf DEF HubIds
  <2>2. QED
    BY <2>1 DEF Repeated, MadeInv, RepeatInv, NoNeedlessRepeat
<1>2. SyncInv /\ Repeated /\ [Next]_vars => Repeated'
  BY RepeatedStep
<1>3. QED
  BY <1>1, <1>2, SyncInvariant, PTL DEF Spec

\* One request does not post a task, a trace, a plan or an Action twice, and none posts again what
\* one that answered ok before it began has posted, unless it was forced or the Hub lost it.
THEOREM NotRepeated == Spec => []NoNeedlessRepeat
<1>1. Repeated => NoNeedlessRepeat
  BY DEF Repeated
<1>2. QED
  BY <1>1, RepeatInvariant, PTL

-----------------------------------------------------------------------------
\* The scenario is mapped to the scene of the current version

LEMMA MoveNames ==
  ASSUME SyncInv, NameInv, NEW s \in Syncs, NEW h, NEW new, NEW ret, MoveOf(s, h, new, ret)
  PROVE  NameInv'
<1>1. /\ h \in Elems(todo[s]) /\ Elems(todo'[s]) = Elems(new) \cup Elems(Tail(todo[s]))
      /\ \A b \in Elems(Tail(todo[s])) : b \in Elems(todo[s])
      /\ \A p \in Syncs \ {s} : todo'[p] = todo[p]
      /\ version' = version /\ at' = at
      /\ \A x \in HubIds : hub'[x] = hub[x]
  BY MoveChanges
<1>2. Names(h, new) /\ StepsFit /\ version \in Nat /\ at[s] \in 0..version
  BY DEF MoveOf, SyncInv, TypeOK
<1>3. ASSUME NEW r \in Syncs, NEW st \in Elems(todo[r])
      PROVE  /\ st.op \in {"find", "post"} /\ st.obj = Scenario => st.saw \in at[r]..version
             /\ st.op = "store" /\ st.obj = Scenario => hub'[st.saw].name \in at[r]..version
  <2>1. st.op = "store" => st.saw \in HubIds
    BY <1>2, <1>3 DEF StepsFit, StepFits, IsOf
  <2>2. st.op = "store" => hub'[st.saw] = hub[st.saw]
    BY <1>1, <2>1
  <2>3. QED
    BY <1>3, <2>2 DEF NameInv
<1>4. ASSUME NEW a \in Elems(new), a.obj = Scenario, a.op \in {"find", "post", "store"}
      PROVE  /\ a.op \in {"find", "post"} => a.saw \in at[s]..version
             /\ a.op = "store" => hub'[a.saw].name \in at[s]..version
  <2>1. /\ h.obj = Scenario
        /\ \/ h.op = "enter" /\ a.op = "find" /\ a.saw = version
           \/ h.op = "find" /\ a.op = "post" /\ a.saw = h.saw
           \/ h.op \in {"find", "post"} /\ a.op = "store" /\ hub'[a.saw].name = h.saw
    BY <1>2, <1>4 DEF Names
  <2>2. h.op \in {"find", "post"} => h.saw \in at[s]..version
    BY <1>1, <1>3, <2>1
  <2>3. version \in at[s]..version
    BY <1>2
  <2>4. QED
    BY <2>1, <2>2, <2>3
<1>5. QED
  BY <1>1, <1>3, <1>4 DEF NameInv

\* The scene of the table when a move is done.
LEMMA MoveScene ==
  ASSUME SyncInv, NameInv, SceneInv, NEW s \in Syncs, NEW h, NEW new, NEW ret,
         MoveOf(s, h, new, ret)
  PROVE  SceneInv'
<1>1. SUFFICES ASSUME NEW r \in Syncs, asked'[r] # NoRequest, result'[r] # "error", Sole(r)',
                      asked'[r].what \in {"scene", "entities", "publish"}
               PROVE  Named' \/ Awaits(r, Scenario)'
  BY DEF SceneInv
<1>2. /\ h \in Elems(todo[s]) /\ Elems(todo'[s]) = Elems(new) \cup Elems(Tail(todo[s]))
      /\ todo[s] # <<>> /\ h = Head(todo[s]) /\ StepFits(h)
      /\ result[s] = "none" /\ asked[s] # NoRequest
      /\ \A p \in Syncs \ {s} : todo'[p] = todo[p] /\ result'[p] = result[p]
      /\ \A p \in Syncs : s \notin before[p]
      /\ UNCHANGED <<version, lost, asked, at, before>> /\ DOMAIN map \subseteq DOMAIN map'
      /\ \A x \in HubIds : hub'[x] = hub[x]
  BY MoveChanges
<1>3. Names(h, new) /\ TypeOK /\ MapFits /\ todo[s] \in Seq(Steps)
  BY DEF MoveOf, SyncInv, TypeOK
<1>4. Elems(todo[s]) = {h} \cup Elems(Tail(todo[s]))
  BY <1>2, <1>3, ElemsTail
<1>5. Sole(r)
  BY <1>1, <1>2 DEF Sole
<1>6. Named \/ Awaits(r, Scenario)
  BY <1>1, <1>2, <1>5 DEF SceneInv
<1>7. KeyOf(Scenario, None) = <<Scenario, None>>
  BY PlainKey, ObjectKinds
<1>8. CASE h.obj = Scenario /\ h.op = "store"
  <2>1. /\ <<Scenario, None>> \in DOMAIN map' /\ map'[<<Scenario, None>>] = h.saw
    BY <1>3, <1>8 DEF Names
  <2>2. hub'[h.saw] = hub[h.saw]
    BY <1>2, <1>8 DEF StepFits, IsOf
  <2>3. hub[h.saw].name \in at[s]..version
    BY <1>2, <1>8 DEF NameInv
  <2>4. ~(at[s] < version) /\ at[s] \in 0..version /\ version \in Nat
    BY <1>2, <1>3, <1>5 DEF Sole, TypeOK
  <2>5. hub[h.saw].name = version
    BY <2>3, <2>4
  <2>6. QED
    BY <1>2, <1>7, <2>1, <2>2, <2>5 DEF Named
<1>9. CASE h.obj # Scenario \/ h.op # "store"
  <2>1. ASSUME Named
        PROVE  Named'
    <3>1. <<Scenario, None>> \in DOMAIN map /\ hub[map[<<Scenario, None>>]].name = version
      BY <1>7, <2>1 DEF Named
    <3>2. map'[<<Scenario, None>>] = map[<<Scenario, None>>]
      BY <1>3, <1>9, <3>1 DEF Names
    <3>3. map[<<Scenario, None>>] \in HubIds
      <4>1. ~IsQuery(Scenario)
        BY ObjectKinds DEF IsQuery
      <4>2. \A k \in DOMAIN map : map[k] \in HubIds \cup {Skipped} /\ (map[k] = Skipped <=> IsQuery(k[1]))
        BY <1>3 DEF TypeOK, MapFits
      <4>3. <<Scenario, None>>[1] = Scenario
        OBVIOUS
      <4>4. QED
        BY <3>1, <4>1, <4>2, <4>3
    <3>4. QED
      BY <1>2, <1>7, <3>1, <3>2, <3>3 DEF Named
  <2>2. ASSUME Awaits(r, Scenario)
        PROVE  Awaits(r, Scenario)'
    <3>1. CASE r # s
      BY <1>2, <2>2, <3>1 DEF Awaits
    <3>2. CASE r = s /\ h.obj = Scenario
      BY <1>2, <1>3, <1>9, <3>2 DEF Awaits, Names
    <3>3. CASE r = s /\ h.obj # Scenario
      BY <1>2, <1>4, <2>2, <3>3 DEF Awaits
    <3>4. QED
      BY <3>1, <3>2, <3>3
  <2>3. QED
    BY <1>6, <2>1, <2>2
<1>10. QED
  BY <1>8, <1>9

\* A request for the scene begins with the scenario.
LEMMA ScenarioEntered ==
  ASSUME NEW q \in AnyRequest, q.what \in {"scene", "entities", "publish"}
  PROVE  Enter(Scenario) \in Elems(Work(q))
<1>1. Enter(Scenario) \in EnterSteps
  BY ObjectKinds DEF EnterSteps
<1>2. PICK e : e = EnterAll(Entities)
  OBVIOUS
<1>3. PICK o : o = Enter(Scenario)
  OBVIOUS
<1>4. e \in Seq(EnterSteps) /\ <<o>> \in Seq(EnterSteps) /\ <<o, o>> \in Seq(EnterSteps)
  BY <1>1, <1>2, <1>3, EntitiesType
<1>5. o \in Elems(<<o>>) /\ o \in Elems(<<o>> \o e) /\ o \in Elems(<<o, o>> \o e)
  <2>1. o \in Elems(<<o>>) /\ o \in Elems(<<o, o>>)
    BY ElemsOf
  <2>2. /\ Elems(<<o>> \o e) = Elems(<<o>>) \cup Elems(e)
        /\ Elems(<<o, o>> \o e) = Elems(<<o, o>>) \cup Elems(e)
    BY <1>4, ElemsConcat
  <2>3. QED
    BY <2>1, <2>2
<1>6. CASE q.what = "scene"
  BY <1>3, <1>5, <1>6 DEF Work
<1>7. CASE q.what = "entities"
  BY <1>2, <1>3, <1>5, <1>7 DEF Work
<1>8. CASE q.what = "publish"
  BY <1>2, <1>3, <1>5, <1>8 DEF Work
<1>9. QED
  BY <1>6, <1>7, <1>8

Followed == NameInv /\ SceneInv

LEMMA BeginFollows ==
  ASSUME SyncInv, Followed, NEW s \in Syncs, NEW q \in AnyRequest, Begin(s, q)
  PROVE  Followed'
<1>1. NameInv /\ SceneInv
  BY DEF Followed
<1>2. /\ asked[s] = NoRequest /\ asked'[s] = q /\ result' = result
      /\ version <= version' /\ version \in Nat /\ version' \in {version, version + 1}
      /\ before'[s] = {r \in Syncs : result[r] # "none"} /\ at'[s] = version'
      /\ \A a \in Elems(todo'[s]) : a.op = "enter"
      /\ todo'[s] = Work(q) /\ \A r \in Syncs : s \notin before[r]
      /\ \A r \in Syncs \ {s} : /\ todo'[r] = todo[r] /\ asked'[r] = asked[r]
                                /\ at'[r] = at[r] /\ before'[r] = before[r]
      /\ hub' = hub /\ map' = map
  BY BeginSteps DEF Begin
<1>3. \A r \in Syncs : at[r] \in 0..version
  BY DEF SyncInv, TypeOK
<1>4. NameInv'
  <2>1. ASSUME NEW r \in Syncs \ {s}, NEW st \in Elems(todo'[r])
        PROVE  /\ st.op \in {"find", "post"} /\ st.obj = Scenario => st.saw \in at'[r]..version'
               /\ st.op = "store" /\ st.obj = Scenario => hub'[st.saw].name \in at'[r]..version'
    <3>1. at[r]..version \subseteq at'[r]..version'
      BY <1>2, <1>3, <2>1
    <3>2. st \in Elems(todo[r])
      BY <1>2, <2>1
    <3>3. /\ st.op \in {"find", "post"} /\ st.obj = Scenario => st.saw \in at[r]..version
          /\ st.op = "store" /\ st.obj = Scenario => hub[st.saw].name \in at[r]..version
      BY <1>1, <3>2 DEF NameInv
    <3>4. QED
      BY <1>2, <3>1, <3>3
  <2>2. QED
    BY <1>2, <2>1 DEF NameInv
<1>5. SceneInv'
  <2>1. SUFFICES ASSUME NEW r \in Syncs, asked'[r] # NoRequest, result'[r] # "error", Sole(r)',
                        asked'[r].what \in {"scene", "entities", "publish"}
                 PROVE  Named' \/ Awaits(r, Scenario)'
    BY DEF SceneInv
  <2>2. CASE r = s
    <3>1. Enter(Scenario) \in Elems(todo'[s])
      BY <1>2, <2>1, <2>2, ScenarioEntered
    <3>2. Enter(Scenario).obj = Scenario /\ Enter(Scenario).op = "enter"
      BY DEF Enter, Step
    <3>3. QED
      BY <2>2, <3>1, <3>2 DEF Awaits
  <2>3. CASE r # s
    <3>1. version' = version
      BY <1>2, <1>3, <2>1, <2>3 DEF Sole
    <3>2. Sole(r)
      <4>1. at[r] = version
        BY <1>2, <2>1, <2>3, <3>1 DEF Sole
      <4>2. ASSUME NEW p \in Syncs, asked[p] # NoRequest, at[p] < version
            PROVE  p \in before[r]
        <5>1. p # s /\ asked'[p] = asked[p] /\ at'[p] = at[p]
          BY <1>2, <4>2
        <5>2. QED
          BY <1>2, <2>1, <2>3, <3>1, <4>2, <5>1 DEF Sole
      <4>3. QED
        BY <4>1, <4>2 DEF Sole
    <3>3. Named \/ Awaits(r, Scenario)
      BY <1>1, <1>2, <2>1, <2>3, <3>2 DEF SceneInv
    <3>4. QED
      BY <1>2, <2>3, <3>1, <3>3 DEF Named, Awaits
  <2>4. QED
    BY <2>2, <2>3
<1>6. QED
  BY <1>4, <1>5 DEF Followed

LEMMA FollowedStep ==
  ASSUME SyncInv, Followed, [Next]_vars
  PROVE  Followed'
<1>1. CASE \E s \in Syncs : \E q \in AnyRequest : Begin(s, q)
  BY <1>1, BeginFollows
<1>2. CASE \E s \in Syncs : \E h, new, ret : MoveOf(s, h, new, ret)
  BY <1>2, MoveNames, MoveScene DEF Followed
<1>3. ASSUME NEW s \in Syncs, GivesUp(s)
      PROVE  Followed'
  <2>1. /\ todo'[s] = <<>> /\ result'[s] = "error"
        /\ \A r \in Syncs \ {s} : todo'[r] = todo[r] /\ result'[r] = result[r]
        /\ hub' = hub /\ map' = map /\ asked' = asked /\ before' = before
        /\ at' = at /\ version' = version
    BY <1>3, GivingUp DEF GivesUp
  <2>2. Elems(todo'[s]) = {}
    BY <2>1, ElemsOf
  <2>3. NameInv'
    BY <2>1, <2>2 DEF Followed, NameInv
  <2>4. SceneInv'
    <3>1. \A r \in Syncs : result'[r] # "error" => todo'[r] = todo[r] /\ result'[r] = result[r]
      BY <2>1
    <3>2. QED
      BY <2>1, <3>1 DEF Followed, SceneInv, Sole, Named, Awaits
  <2>5. QED
    BY <2>3, <2>4 DEF Followed
<1>4. CASE Reset
  BY <1>4 DEF Reset, request, Followed, NameInv, SceneInv, Sole, Named, Awaits
<1>5. CASE UNCHANGED vars
  BY <1>5 DEF vars, Followed, NameInv, SceneInv, Sole, Named, Awaits
<1>6. QED
  BY <1>1, <1>2, <1>3, <1>4, <1>5, NextCases

\* Requests work with versions of the map published since they began; and while what began
\* before the last publication has ended, the scenario is mapped to the current scene or about to be.
THEOREM FollowInvariant == Spec => []Followed
<1>1. Init => Followed
  <2>1. ASSUME Init
        PROVE  \A s \in Syncs : Elems(todo[s]) = {} /\ asked[s] = NoRequest
    <3>1. \A s \in Syncs : todo[s] = <<>> /\ asked[s] = NoRequest
      BY <2>1 DEF Init
    <3>2. QED
      BY <3>1, ElemsOf
  <2>2. QED
    BY <2>1 DEF Followed, NameInv, SceneInv
<1>2. SyncInv /\ Followed /\ [Next]_vars => Followed'
  BY FollowedStep
<1>3. QED
  BY <1>1, <1>2, SyncInvariant, PTL DEF Spec

\* After the last publication, a request for the scene that answers ok leaves the scenario mapped
\* to the scene of the current version, unless one that began before that was still on its way.
THEOREM SceneFollows == Spec => []SceneFollowsMap
<1>1. SyncInv /\ Followed => SceneFollowsMap
  <2>1. SUFFICES ASSUME SyncInv, Followed, NEW s \in Syncs, result[s] = "ok", Sole(s),
                        asked[s].what \in {"scene", "entities", "publish"}
                 PROVE  hub[map[KeyOf(Scenario, None)]].name = version
    BY DEF SceneFollowsMap, Sole
  <2>2. asked[s] # NoRequest /\ todo[s] = <<>>
    BY <2>1 DEF SyncInv, Phases
  <2>3. Named \/ Awaits(s, Scenario)
    BY <2>1, <2>2 DEF Followed, SceneInv
  <2>4. ~Awaits(s, Scenario)
    BY <2>2, ElemsOf DEF Awaits
  <2>5. QED
    BY <2>3, <2>4 DEF Named
<1>2. QED
  BY <1>1, SyncInvariant, FollowInvariant, PTL
=============================================================================
