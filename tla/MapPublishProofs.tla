-------------------------- MODULE MapPublishProofs --------------------------
(***************************************************************************)
(* What holds of MapPublish for any maps, publishers, edits and seconds.   *)
(***************************************************************************)
EXTENDS MapPublish, FiniteSetTheorems, SequenceTheorems, TLAPS

-----------------------------------------------------------------------------
\* A sort

\* Indices before i in the order of a sort by key.
Earlier(key, i) == {j \in DOMAIN key : key[j] < key[i] \/ (key[j] = key[i] /\ j < i)}
Rank(key, i) == Cardinality(Earlier(key, i))
\* The index that comes n-th.
Nth(key, n) == CHOOSE i \in DOMAIN key : Rank(key, i) = n - 1
IsKey(key) == IsFiniteSet(DOMAIN key) /\ DOMAIN key \subseteq Int /\ \A i \in DOMAIN key : key[i] \in Int

LEMMA SortedIs ==
  ASSUME NEW s, NEW key
  PROVE  SortedBy(s, key) = [n \in 1..Cardinality(DOMAIN key) |-> s[Nth(key, n)]]
BY DEF SortedBy, Nth, Rank, Earlier

LEMMA RankSize ==
  ASSUME NEW key, IsKey(key), NEW i \in DOMAIN key
  PROVE  /\ IsFiniteSet(Earlier(key, i)) /\ Cardinality(DOMAIN key) \in Nat
         /\ Rank(key, i) \in 0..(Cardinality(DOMAIN key) - 1)
<1>1. /\ IsFiniteSet(DOMAIN key \ {i}) /\ Cardinality(DOMAIN key \ {i}) = Cardinality(DOMAIN key) - 1
      /\ Cardinality(DOMAIN key) \in Nat
  BY FS_RemoveElement, FS_CardinalityType DEF IsKey
<1>2. Earlier(key, i) \in SUBSET (DOMAIN key \ {i})
  BY DEF Earlier, IsKey
<1>3. IsFiniteSet(Earlier(key, i)) /\ Rank(key, i) <= Cardinality(DOMAIN key \ {i})
  BY <1>1, <1>2, FS_Subset DEF Rank
<1>4. Rank(key, i) \in Nat
  BY <1>3, FS_CardinalityType DEF Rank
<1> QED
  BY <1>1, <1>3, <1>4

\* An index before another has a lower rank.
LEMMA RankGrows ==
  ASSUME NEW key, IsKey(key), NEW i \in DOMAIN key, NEW j \in Earlier(key, i)
  PROVE  Rank(key, j) < Rank(key, i)
<1>1. j \in DOMAIN key /\ Earlier(key, j) \in SUBSET (Earlier(key, i) \ {j})
  BY DEF Earlier, IsKey
<1>2. IsFiniteSet(Earlier(key, i)) /\ Rank(key, i) \in Nat /\ Rank(key, j) \in Nat
  BY <1>1, RankSize
<1>3. /\ IsFiniteSet(Earlier(key, i) \ {j})
      /\ Cardinality(Earlier(key, i) \ {j}) = Rank(key, i) - 1
  BY <1>2, FS_RemoveElement DEF Rank
<1>4. Rank(key, j) <= Cardinality(Earlier(key, i) \ {j})
  BY <1>1, <1>3, FS_Subset DEF Rank
<1> QED
  BY <1>2, <1>3, <1>4

LEMMA RanksDiffer ==
  ASSUME NEW key, IsKey(key), NEW i \in DOMAIN key, NEW j \in DOMAIN key, i # j
  PROVE  Rank(key, i) # Rank(key, j)
<1>1. i \in Earlier(key, j) \/ j \in Earlier(key, i)
  BY DEF Earlier, IsKey
<1>2. Rank(key, i) \in Nat /\ Rank(key, j) \in Nat
  BY RankSize
<1> QED
  BY <1>1, <1>2, RankGrows

\* Every rank is taken: otherwise there would be fewer ranks than indices.
LEMMA RankTaken ==
  ASSUME NEW key, IsKey(key), NEW n \in 1..Cardinality(DOMAIN key)
  PROVE  \E i \in DOMAIN key : Rank(key, i) = n - 1
<1> DEFINE size == Cardinality(DOMAIN key)
           others == (0..(size - 1)) \ {n - 1}
           f == [i \in DOMAIN key |-> Rank(key, i)]
<1>1. size \in Nat
  BY FS_CardinalityType DEF IsKey
<1>2. IsFiniteSet(0..(size - 1)) /\ Cardinality(0..(size - 1)) = size
  <2> HIDE DEF size
  <2>1. PICK top \in Int : top = size - 1
    BY <1>1
  <2>2. IsFiniteSet(0..top) /\ Cardinality(0..top) = IF 0 > top THEN 0 ELSE top - 0 + 1
    BY FS_Interval
  <2> QED
    BY <1>1, <2>1, <2>2
<1>3. n - 1 \in 0..(size - 1)
  BY <1>1
<1>4. IsFiniteSet(others) /\ Cardinality(others) < size
  <2>1. PICK ranks : ranks = 0..(size - 1)
    OBVIOUS
  <2>2. PICK rank : rank = n - 1
    OBVIOUS
  <2>3. /\ IsFiniteSet(ranks \ {rank})
        /\ Cardinality(ranks \ {rank}) =
             IF rank \in ranks THEN Cardinality(ranks) - 1 ELSE Cardinality(ranks)
    BY <1>2, <2>1, FS_RemoveElement
  <2> HIDE DEF size
  <2> QED
    BY <1>1, <1>2, <1>3, <2>1, <2>2, <2>3
<1> SUFFICES ASSUME \A i \in DOMAIN key : Rank(key, i) # n - 1
             PROVE  FALSE
  OBVIOUS
<1>5. f \in [DOMAIN key -> others]
  BY RankSize
<1>6. IsFiniteSet(DOMAIN key)
  BY DEF IsKey
<1>7. \E i, j \in DOMAIN key : i # j /\ f[i] = f[j]
  <2> HIDE DEF f, others
  <2> QED
    BY <1>4, <1>5, <1>6, FS_PigeonHole
<1> QED
  BY <1>7, RanksDiffer

LEMMA NthIs ==
  ASSUME NEW key, IsKey(key), NEW n \in 1..Cardinality(DOMAIN key)
  PROVE  Nth(key, n) \in DOMAIN key /\ Rank(key, Nth(key, n)) = n - 1
BY RankTaken DEF Nth

\* A sort has the elements at the indices in the key, each of them somewhere.
LEMMA SortedHas ==
  ASSUME NEW s, NEW key, IsKey(key), NEW i \in DOMAIN key
  PROVE  \E n \in 1..Cardinality(DOMAIN key) : Nth(key, n) = i
<1>1. PICK n \in 1..Cardinality(DOMAIN key) : Rank(key, i) = n - 1
  BY RankSize
<1>2. Nth(key, n) = i
  BY <1>1, NthIs, RanksDiffer
<1> QED
  BY <1>2

-----------------------------------------------------------------------------
\* The default groups

IsListed(s, n) == s = [i \in 1..n |-> s[i]]

LEMMA Listed ==
  ASSUME NEW s, NEW n \in Nat, IsListed(s, n)
  PROVE  s \in Seq(Members(s)) /\ Len(s) = n /\ DOMAIN s = 1..n
<1>1. s \in [1..n -> Members(s)]
  BY DEF Members, IsListed
<1> QED
  BY <1>1

LEMMA UpTo ==
  ASSUME NEW n \in Nat
  PROVE  IsFiniteSet(1..n) /\ Cardinality(1..n) = n
<1>1. IsFiniteSet(1..n) /\ Cardinality(1..n) = IF 1 > n THEN 0 ELSE n - 1 + 1
  BY FS_Interval
<1> QED
  BY <1>1

LEMMA SequenceDomain ==
  ASSUME NEW s, s \in Seq(Members(s))
  PROVE  /\ Len(s) \in Nat /\ DOMAIN s = 1..Len(s) /\ IsFiniteSet(DOMAIN s)
         /\ DOMAIN s \subseteq Int /\ Cardinality(DOMAIN s) = Len(s)
         /\ s # <<>> => Len(s) \in DOMAIN s
<1>1. Len(s) \in Nat /\ DOMAIN s = 1..Len(s)
  BY LenProperties
<1>2. IsFiniteSet(1..Len(s)) /\ Cardinality(1..Len(s)) = Len(s)
  BY <1>1, UpTo
<1>3. s # <<>> => Len(s) # 0
  BY EmptySeq
<1> QED
  BY <1>1, <1>2, <1>3

\* What is picked from a sequence is a sequence of its elements.
LEMMA PickedIs ==
  ASSUME NEW s, s \in Seq(Members(s)), NEW kept \in SUBSET DOMAIN s
  PROVE  /\ Picked(s, kept) \in Seq(Members(Picked(s, kept)))
         /\ \A n \in DOMAIN Picked(s, kept) : \E i \in kept : Picked(s, kept)[n] = s[i]
<1>1. PICK key : key = [i \in kept |-> i]
  OBVIOUS
<1>2. IsKey(key) /\ DOMAIN key = kept /\ Cardinality(kept) \in Nat
  BY <1>1, SequenceDomain, FS_Subset, FS_CardinalityType DEF IsKey
<1>3. PICK w : w = [n \in 1..Cardinality(kept) |-> s[Nth(key, n)]]
  OBVIOUS
<1>4. Picked(s, kept) = w
  BY <1>1, <1>2, <1>3, SortedIs DEF Picked
<1>5. w \in Seq(Members(w)) /\ DOMAIN w = 1..Cardinality(kept)
  BY <1>2, <1>3, Listed DEF IsListed
<1>6. \A n \in 1..Cardinality(kept) : Nth(key, n) \in kept
  BY <1>2, NthIs
<1> QED
  BY <1>3, <1>4, <1>5, <1>6

LEMMA BuiltInGroups ==
  ASSUME NEW m, AreGroups(DefaultGroups)
  PROVE  AreGroups(BuiltIn(m))
<1> DEFINE here(g) == {i \in DOMAIN g.edges : g.edges[i] \in Ids(m.edges)}
           group(g) == [g EXCEPT !.edges = Picked(g.edges, here(g))]
           groups == [i \in DOMAIN DefaultGroups |-> group(DefaultGroups[i])]
           kept == {i \in DOMAIN groups : groups[i].edges # <<>>}
<1>1. ASSUME NEW i \in DOMAIN DefaultGroups
      PROVE  /\ "edges" \in DOMAIN group(DefaultGroups[i])
             /\ group(DefaultGroups[i]).edges \in Seq(Members(group(DefaultGroups[i]).edges))
  <2>1. PICK g : g = DefaultGroups[i]
    OBVIOUS
  <2>2. "edges" \in DOMAIN g /\ g.edges \in Seq(Members(g.edges))
    BY <2>1 DEF AreGroups, Members
  <2>3. PICK es : es = Picked(g.edges, here(g))
    OBVIOUS
  <2>4. es \in Seq(Members(es))
    BY <2>2, <2>3, PickedIs
  <2>5. "edges" \in DOMAIN group(g) /\ group(g).edges = es
    BY <2>2, <2>3
  <2> QED
    BY <2>1, <2>4, <2>5
<1>2. PICK gs : gs = groups
  OBVIOUS
<1>3. gs \in Seq(Members(gs))
  <2>1. Len(DefaultGroups) \in Nat /\ DOMAIN DefaultGroups = 1..Len(DefaultGroups)
    BY SequenceDomain DEF AreGroups
  <2>2. IsListed(gs, Len(DefaultGroups))
    BY <1>2, <2>1 DEF IsListed
  <2> QED
    BY <2>1, <2>2, Listed
<1>4. \A i \in DOMAIN gs : "edges" \in DOMAIN gs[i] /\ gs[i].edges \in Seq(Members(gs[i].edges))
  <2> HIDE DEF group
  <2> QED
    BY <1>1, <1>2
<1>5. ASSUME NEW indices \in SUBSET DOMAIN gs
      PROVE  AreGroups(Picked(gs, indices))
  <2>1. PICK w : w = Picked(gs, indices)
    OBVIOUS
  <2>2. w \in Seq(Members(w)) /\ \A n \in DOMAIN w : \E i \in indices : w[n] = gs[i]
    BY <1>3, <2>1, PickedIs
  <2>3. \A g \in Members(w) : \E i \in DOMAIN gs : g = gs[i]
    BY <2>2 DEF Members
  <2>4. AreGroups(w)
    <3> HIDE DEF groups, group, kept
    <3> QED
      BY <1>4, <2>2, <2>3 DEF AreGroups
  <2> QED
    BY <2>1, <2>4
<1>6. AreGroups(<<>>)
  BY DEF AreGroups, Members
<1>7. BuiltIn(m) = IF m.id = DefaultMapId THEN Picked(gs, kept) ELSE <<>>
  BY <1>2 DEF BuiltIn
<1>8. kept \in SUBSET DOMAIN gs
  BY <1>2
<1> HIDE DEF kept
<1> QED
  BY <1>5, <1>6, <1>7, <1>8

LEMMA PerEdgeGroups ==
  ASSUME NEW m, AreEdges(m.edges)
  PROVE  AreGroups(PerEdge(m))
<1>1. Len(m.edges) \in Nat /\ DOMAIN m.edges = 1..Len(m.edges)
  BY SequenceDomain DEF AreEdges
<1>2. PICK gs : gs = PerEdge(m)
  OBVIOUS
<1>3. IsListed(gs, Len(m.edges))
  BY <1>1, <1>2 DEF PerEdge, IsListed
<1>4. \A i \in DOMAIN gs : "edges" \in DOMAIN gs[i] /\ gs[i].edges = <<m.edges[i].id>>
  BY <1>2 DEF PerEdge
<1>5. \A x : <<x>> \in Seq(Members(<<x>>))
  BY DEF Members
<1>6. gs \in Seq(Members(gs))
  BY <1>1, <1>3, Listed
<1>7. \A g \in Members(gs) : "edges" \in DOMAIN g /\ \E x : g.edges = <<x>>
  BY <1>4 DEF Members
<1>8. AreGroups(gs)
  BY <1>5, <1>6, <1>7 DEF AreGroups
<1> QED
  BY <1>2, <1>8

\* An edge of a map whose groups are gs.
EdgeIn(gs, e) ==
  LET own == Picked(gs, {i \in DOMAIN gs : e.id \in Members(gs[i].edges)})
      last == own[Len(own)]
  IN IF own = <<>> THEN e
     ELSE [e EXCEPT !.group = IF @ = None THEN last.id ELSE @,
                    !.rank = IF @ = None THEN CHOOSE i \in DOMAIN last.edges : last.edges[i] = e.id
                             ELSE @]

LEMMA EdgeRank ==
  ASSUME NEW gs, AreGroups(gs), NEW e, "rank" \in DOMAIN e, e.rank = None \/ e.rank \in Int
  PROVE  /\ "rank" \in DOMAIN EdgeIn(gs, e)
         /\ EdgeIn(gs, e).rank = None \/ EdgeIn(gs, e).rank \in Int
<1> DEFINE kept == {i \in DOMAIN gs : e.id \in Members(gs[i].edges)}
<1>1. PICK own : own = Picked(gs, kept)
  OBVIOUS
<1>2. PICK last : last = own[Len(own)]
  OBVIOUS
<1>3. CASE own = <<>>
  BY <1>1, <1>3 DEF EdgeIn
<1>4. CASE own # <<>>
  <2>1. own \in Seq(Members(own)) /\ \A n \in DOMAIN own : \E i \in kept : own[n] = gs[i]
    <3>1. kept \in SUBSET DOMAIN gs /\ gs \in Seq(Members(gs))
      BY DEF AreGroups
    <3> HIDE DEF kept
    <3> QED
      BY <1>1, <3>1, PickedIs
  <2>2. PICK i \in kept : last = gs[i]
    BY <1>2, <1>4, <2>1, SequenceDomain
  <2>3. last.edges \in Seq(Members(last.edges)) /\ e.id \in Members(last.edges)
    BY <2>2 DEF AreGroups, Members
  <2>4. PICK place : place = CHOOSE j \in DOMAIN last.edges : last.edges[j] = e.id
    OBVIOUS
  <2>5. place \in Int
    <3>1. \E j \in DOMAIN last.edges : last.edges[j] = e.id
      BY <2>3 DEF Members
    <3>2. place \in DOMAIN last.edges
      BY <2>4, <3>1
    <3> QED
      BY <2>3, <3>2, SequenceDomain
  <2>6. EdgeIn(gs, e) = [e EXCEPT !.group = IF @ = None THEN last.id ELSE @,
                                  !.rank = IF @ = None THEN place ELSE @]
    BY <1>1, <1>2, <1>4, <2>4 DEF EdgeIn
  <2> QED
    BY <2>5, <2>6
<1> QED
  BY <1>3, <1>4

LEMMA GroupedIsMap ==
  ASSUME NEW m, IsMap(m), NEW gs, AreGroups(gs)
  PROVE  IsMap(Grouped(m, gs))
<1>1. PICK es : es = [i \in DOMAIN m.edges |-> EdgeIn(gs, m.edges[i])]
  OBVIOUS
<1>2. Grouped(m, gs) = [m EXCEPT !.groups = gs, !.edges = es]
  BY <1>1 DEF Grouped, EdgeIn, IsMap
<1>3. es \in Seq(Members(es))
  <2>1. Len(m.edges) \in Nat /\ DOMAIN m.edges = 1..Len(m.edges)
    BY SequenceDomain DEF IsMap, AreEdges
  <2>2. IsListed(es, Len(m.edges))
    BY <1>1, <2>1 DEF IsListed
  <2> QED
    BY <2>1, <2>2, Listed
<1>4. \A e \in Members(es) : "rank" \in DOMAIN e /\ (e.rank = None \/ e.rank \in Int)
  <2> SUFFICES ASSUME NEW i \in DOMAIN es
               PROVE  "rank" \in DOMAIN es[i] /\ (es[i].rank = None \/ es[i].rank \in Int)
    BY DEF Members
  <2>1. PICK e : e = m.edges[i]
    OBVIOUS
  <2>2. "rank" \in DOMAIN e /\ (e.rank = None \/ e.rank \in Int)
    BY <1>1, <2>1 DEF IsMap, AreEdges, Members
  <2>3. es[i] = EdgeIn(gs, e)
    BY <1>1, <2>1
  <2> QED
    BY <2>2, <2>3, EdgeRank
<1>5. AreEdges(es)
  BY <1>3, <1>4 DEF AreEdges
<1> QED
  BY <1>2, <1>5 DEF IsMap

\* A map that has got its default groups is a map of the same kind.
LEMMA DefaultsKeepMap ==
  ASSUME NEW m, IsMap(m), AreGroups(DefaultGroups)
  PROVE  IsMap(WithDefaultGroups(m))
<1>1. AreGroups(BuiltIn(m)) /\ AreGroups(PerEdge(m))
  BY BuiltInGroups, PerEdgeGroups DEF IsMap
<1> QED
  BY <1>1, GroupedIsMap DEF WithDefaultGroups

-----------------------------------------------------------------------------
\* What the validator lets pass can be driven

EdgeOf(m, id) == CHOOSE e \in Members(m.edges) : e.id = id
\* Indices of a group's edges, the edges, and the keys by which they are sorted.
Known(m, g) == {i \in DOMAIN g.edges : g.edges[i] \in Ids(m.edges)}
EdgesOf(m, g) == [i \in Known(m, g) |-> EdgeOf(m, g.edges[i])]
Before(g, i) == {k \in DOMAIN g.edges : \A l \in 1..k : g.edges[l] # g.edges[i]}
KeyOf(m, g) ==
  [i \in Known(m, g) |-> IF EdgesOf(m, g)[i].rank # None THEN EdgesOf(m, g)[i].rank
                         ELSE Cardinality(Before(g, i))]

LEMMA OrderedIs ==
  ASSUME NEW m, NEW g
  PROVE  Ordered(m, g) = SortedBy(EdgesOf(m, g), KeyOf(m, g))
BY DEF Ordered, KeyOf, EdgesOf, Known, EdgeOf, Before

\* The edges of a group, in the order in which they are driven.
WayOf(m, g) == [n \in DOMAIN g.edges |-> g.edges[Nth(KeyOf(m, g), n)]]

LEMMA KeyIs ==
  ASSUME NEW m, IsMap(m), NEW g \in Members(m.groups), Members(g.edges) \subseteq Ids(m.edges)
  PROVE  /\ Known(m, g) = DOMAIN g.edges /\ IsKey(KeyOf(m, g))
         /\ DOMAIN KeyOf(m, g) = DOMAIN g.edges
<1>1. /\ Len(g.edges) \in Nat /\ DOMAIN g.edges = 1..Len(g.edges) /\ IsFiniteSet(DOMAIN g.edges)
      /\ DOMAIN g.edges \subseteq Int
  BY SequenceDomain DEF IsMap, AreGroups
<1>2. Known(m, g) = DOMAIN g.edges
  BY DEF Known, Members
<1>3. ASSUME NEW i \in Known(m, g)
      PROVE  KeyOf(m, g)[i] \in Int
  <2>1. PICK e : e = EdgesOf(m, g)[i]
    OBVIOUS
  <2>2. e \in Members(m.edges)
    <3>1. \E x \in Members(m.edges) : x.id = g.edges[i]
      BY <1>3 DEF Known, Ids
    <3> QED
      BY <1>3, <2>1, <3>1 DEF EdgesOf, EdgeOf
  <2>3. e.rank = None \/ e.rank \in Int
    BY <2>2 DEF IsMap, AreEdges
  <2>4. Cardinality(Before(g, i)) \in Nat
    <3>1. Before(g, i) \in SUBSET DOMAIN g.edges
      BY DEF Before
    <3> QED
      BY <1>1, <3>1, FS_Subset, FS_CardinalityType
  <2>5. KeyOf(m, g)[i] = IF e.rank # None THEN e.rank ELSE Cardinality(Before(g, i))
    BY <1>3, <2>1 DEF KeyOf
  <2> QED
    BY <2>3, <2>4, <2>5
<1> QED
  BY <1>1, <1>2, <1>3 DEF IsKey, KeyOf

\* The edges of a group that fits are a way, in the order in which they are sorted.
LEMMA GroupIsWay ==
  ASSUME NEW m, IsMap(m), NEW g \in Members(m.groups), Members(g.edges) \subseteq Ids(m.edges),
         Continuous(Ordered(m, g))
  PROVE  /\ WayOf(m, g) \in [DOMAIN g.edges -> Members(g.edges)]
         /\ \A id \in Members(g.edges) : \E n \in DOMAIN WayOf(m, g) : WayOf(m, g)[n] = id
         /\ \A n \in 1..(Len(g.edges) - 1) :
              EdgeOf(m, WayOf(m, g)[n]).to = EdgeOf(m, WayOf(m, g)[n + 1]).from
<1>1. /\ Len(g.edges) \in Nat /\ DOMAIN g.edges = 1..Len(g.edges)
      /\ Cardinality(DOMAIN g.edges) = Len(g.edges)
  BY SequenceDomain DEF IsMap, AreGroups
<1>2. PICK key : key = KeyOf(m, g)
  OBVIOUS
<1>3. /\ IsKey(key) /\ DOMAIN key = DOMAIN g.edges /\ Known(m, g) = DOMAIN g.edges
      /\ Cardinality(DOMAIN key) = Len(g.edges)
  BY <1>1, <1>2, KeyIs
<1>4. PICK way : way = WayOf(m, g)
  OBVIOUS
<1>5. way = [n \in 1..Len(g.edges) |-> g.edges[Nth(key, n)]]
  BY <1>1, <1>2, <1>4 DEF WayOf
<1>6. \A n \in 1..Len(g.edges) : Nth(key, n) \in DOMAIN g.edges
  BY <1>3, NthIs
<1>7. way \in [DOMAIN g.edges -> Members(g.edges)]
  BY <1>1, <1>5, <1>6 DEF Members
<1>8. ASSUME NEW id \in Members(g.edges)
      PROVE  \E n \in DOMAIN way : way[n] = id
  <2>1. PICK i \in DOMAIN g.edges : g.edges[i] = id
    BY DEF Members
  <2>2. PICK n \in 1..Len(g.edges) : Nth(key, n) = i
    BY <1>3, SortedHas
  <2> QED
    BY <1>5, <2>1, <2>2
<1>9. PICK route : route = Ordered(m, g)
  OBVIOUS
<1>10. route = [n \in 1..Len(g.edges) |-> EdgeOf(m, way[n])]
  <2>1. route = [n \in 1..Len(g.edges) |-> EdgesOf(m, g)[Nth(key, n)]]
    BY <1>2, <1>3, <1>9, OrderedIs, SortedIs
  <2>2. \A n \in 1..Len(g.edges) : EdgesOf(m, g)[Nth(key, n)] = EdgeOf(m, way[n])
    BY <1>3, <1>5, <1>6 DEF EdgesOf
  <2> QED
    BY <2>1, <2>2
<1>11. Len(route) = Len(g.edges)
  <2>1. IsListed(route, Len(g.edges))
    BY <1>10 DEF IsListed
  <2> QED
    BY <1>1, <2>1, Listed
<1>12. \A n \in 1..(Len(g.edges) - 1) : EdgeOf(m, way[n]).to = EdgeOf(m, way[n + 1]).from
  <2> TAKE n \in 1..(Len(g.edges) - 1)
  <2>1. n \in 1..Len(g.edges) /\ n + 1 \in 1..Len(g.edges) /\ n \in 1..(Len(route) - 1)
    BY <1>1, <1>11
  <2>2. route[n].to = route[n + 1].from
    BY <1>9, <2>1 DEF Continuous
  <2> QED
    BY <1>10, <2>1, <2>2
<1> QED
  BY <1>4, <1>7, <1>8, <1>12

\* A map without issues can be driven.
LEMMA ValidIsDrivable ==
  ASSUME NEW m, IsMap(m), Valid(m)
  PROVE  Drivable(m)
<1>1. \A e \in Members(m.edges) : {e.from, e.to} \subseteq PathNodes(m) /\ e.from # e.to
  BY DEF Valid, EdgesJoinNodes
<1>2. Cardinality(PathNodes(m)) > 1 =>
        PathNodes(m) \subseteq UNION {{e.from, e.to} : e \in Members(m.edges)}
  <2> SUFFICES ASSUME Cardinality(PathNodes(m)) > 1, NEW a \in PathNodes(m)
               PROVE  \E e \in Members(m.edges) : a \in {e.from, e.to}
    OBVIOUS
  <2>1. PathNodes(m) # {a}
    <3>1. Cardinality({a}) = 1
      BY FS_Singleton
    <3> QED
      BY <3>1
  <2>2. PICK b \in PathNodes(m) : Linked(m, a, b)
    BY <2>1 DEF Valid, NodesLinked
  <2> QED
    BY <2>2 DEF Linked
<1>3. ASSUME NEW g \in Members(m.groups)
      PROVE  \E way \in [DOMAIN g.edges -> Members(g.edges)] :
               /\ \A id \in Members(g.edges) :
                    id \in Ids(m.edges) /\ \E i \in DOMAIN way : way[i] = id
               /\ \A i \in 1..(Len(g.edges) - 1) :
                    EdgeOf(m, way[i]).to = EdgeOf(m, way[i + 1]).from
  <2>1. m.groups # <<>>
    BY DEF Members
  <2>2. Members(g.edges) \subseteq Ids(m.edges) /\ Continuous(Ordered(m, g))
    BY <2>1 DEF Valid, GroupsFit
  <2>3. PICK way : way = WayOf(m, g)
    OBVIOUS
  <2>4. /\ way \in [DOMAIN g.edges -> Members(g.edges)]
        /\ \A id \in Members(g.edges) : \E n \in DOMAIN way : way[n] = id
        /\ \A n \in 1..(Len(g.edges) - 1) : EdgeOf(m, way[n]).to = EdgeOf(m, way[n + 1]).from
    <3>1. IsMap(m) /\ g \in Members(m.groups)
      OBVIOUS
    <3>2. /\ WayOf(m, g) \in [DOMAIN g.edges -> Members(g.edges)]
          /\ \A id \in Members(g.edges) : \E n \in DOMAIN WayOf(m, g) : WayOf(m, g)[n] = id
          /\ \A n \in 1..(Len(g.edges) - 1) :
               EdgeOf(m, WayOf(m, g)[n]).to = EdgeOf(m, WayOf(m, g)[n + 1]).from
      BY <2>2, <3>1, GroupIsWay
    <3> QED
      BY <2>3, <3>2
  <2> QED
    BY <2>2, <2>4
<1> QED
  BY <1>1, <1>2, <1>3 DEF Drivable, EdgeOf

LEMMA PublishableIsDrivable == Publishable \subseteq DrivableDrafts
<1>1. ASSUME NEW d \in Publishable
      PROVE  d \in DrivableDrafts
  <2>1. IsMap(Content[d]) /\ AreGroups(DefaultGroups) /\ d \in Drafts
    BY PublishAssumption DEF Publishable
  <2>2. PICK m : m = WithDefaultGroups(Content[d])
    OBVIOUS
  <2>3. IsMap(m) /\ Valid(m)
    BY <2>1, <2>2, DefaultsKeepMap DEF Publishable
  <2> QED
    BY <2>1, <2>2, <2>3, ValidIsDrivable DEF DrivableDrafts
<1> QED
  BY <1>1

-----------------------------------------------------------------------------
\* The current version and the targets of a map

LastOf(rows) == CHOOSE r \in rows : \A q \in rows : q.stamp <= r.stamp

\* The row that is later than all others is the current one.
LEMMA LastIs ==
  ASSUME NEW rows, NEW r \in rows, \A q \in rows : q.stamp \in Nat,
         \A q \in rows \ {r} : q.stamp < r.stamp
  PROVE  LastOf(rows) = r
<1>1. \A q \in rows : q.stamp <= r.stamp
  OBVIOUS
<1>2. LastOf(rows) \in rows /\ \A q \in rows : q.stamp <= LastOf(rows).stamp
  BY <1>1 DEF LastOf
<1> QED
  BY <1>2

LEMMA CurrentLast == Current = LastOf(active)
BY DEF Current, LastOf

LEMMA DraftTargets ==
  ASSUME NEW d \in Drafts
  PROVE  /\ DOMAIN TargetsOf[d] \subseteq TargetIds
         /\ \A id \in DOMAIN TargetsOf[d] : TargetsOf[d][id] \in {"active", "inactive"}
         /\ Content[d].id \in MapIds
BY DEF TargetsOf, Targets, TargetIds, MapIds

LEMMA RowFields ==
  ASSUME NEW r \in Rows
  PROVE  /\ r.draft \in Drafts /\ r.version \in 0..MaxSeconds /\ r.stamp \in 0..MaxLoads
         /\ r.stamp \in Nat /\ MapOf(r) \in MapIds
BY PublishAssumption DEF Rows, MapOf, MapIds

LEMMA WantedRow ==
  ASSUME NEW r \in Rows, NEW id \in Desired(r)
  PROVE  /\ Wanted(r, id) \in TargetRows /\ Wanted(r, id) # NoTarget
         /\ Wanted(r, id).map = MapOf(r) /\ Wanted(r, id).own = TRUE
         /\ Wanted(r, id).status = TargetsOf[r.draft][id]
         /\ Wanted(r, id).status \in {"active", "inactive"}
         /\ Wanted(r, id).version = r.version
<1>1. /\ MapOf(r) \in MapIds /\ r.version \in 0..MaxSeconds
      /\ TargetsOf[r.draft][id] \in {"active", "inactive"}
  BY RowFields, DraftTargets DEF Desired
<1> QED
  BY <1>1 DEF Wanted, TargetRows, NoTarget

LEMMA FirstRowType == FirstRow \in Rows
BY PublishAssumption DEF FirstRow, Rows, Publishable

-----------------------------------------------------------------------------
\* Kinds of steps

\* A request ends, in one way or another.
Ends(p) == End(p) /\ UNCHANGED <<base, scenes, entities, env>>
\* It turns to the Hub.
AsksHub(p) == Name(p) \/ HubFails(p) \/ SyncScene(p) \/ SyncEntities(p)
EditsTarget(id) == CreateTarget(id) \/ UpdateTarget(id)

LEMMA StepKinds ==
  ASSUME [Next]_vars
  PROVE  \/ \E p \in Publishers :
              \/ \E d \in Drafts : Load(p, d)
              \/ Flush(p) \/ Commit(p) \/ Ends(p) \/ AsksHub(p)
         \/ \E id \in Edited : EditsTarget(id)
         \/ Tick
         \/ UNCHANGED vars
BY DEF Next, RollBack, Tell, Crash, Ends, AsksHub, EditsTarget

-----------------------------------------------------------------------------
\* TypeOK

\* A target once found is not removed again.
FoundStay ==
  \A p \in Publishers, id \in TargetIds : read[p][id] # NoTarget => targets[id] # NoTarget
TypeInv == TypeOK /\ FoundStay

\* Among the active rows one is the latest, and what a publisher will archive is older than
\* what it will publish.
CurrentInv ==
  /\ \E r \in active : \A q \in active : q.stamp <= r.stamp
  /\ \A r \in active : r.stamp <= loads
  /\ \A p \in Publishers :
       /\ row[p].stamp <= loads
       /\ phase[p] \in Open => \A q \in seen[p] : q.stamp < row[p].stamp

LEMMA CurrentIsActive ==
  ASSUME TypeOK, CurrentInv
  PROVE  /\ Current \in active /\ \A q \in active : q.stamp <= Current.stamp
         /\ Current \in Rows /\ Current.version \in 0..MaxSeconds /\ Current.stamp \in Nat
<1>1. Current \in active /\ \A q \in active : q.stamp <= Current.stamp
  BY DEF CurrentInv, Current
<1>2. Current \in Rows
  BY <1>1 DEF TypeOK
<1> QED
  BY <1>1, <1>2, RowFields

LEMMA TypeStart == Init => TypeInv
<1> SUFFICES ASSUME Init PROVE TypeInv
  OBVIOUS
<1> USE PublishAssumption, FirstRowType
<1>1. targets \in [TargetIds -> TargetRows]
  BY WantedRow DEF Init, TargetRows
<1>2. NothingRead \in [TargetIds -> TargetRows] /\ \A id \in TargetIds : NothingRead[id] = NoTarget
  BY DEF NothingRead, TargetRows
<1> QED
  BY <1>1, <1>2 DEF Init, TypeInv, TypeOK, FoundStay, Phases, Open, Seconds

LEMMA AfterType ==
  ASSUME TypeInv, NEW p \in Publishers, ~TargetClash(p), NEW id \in TargetIds
  PROVE  After(p, id) \in TargetRows /\ (targets[id] # NoTarget => After(p, id) # NoTarget)
<1> DEFINE old == read[p][id]
           now == targets[id]
           w == Wanted(row[p], id)
<1>1. old \in TargetRows /\ now \in TargetRows /\ (old # NoTarget => now # NoTarget)
  BY DEF TypeInv, TypeOK, FoundStay
<1>2. CASE id \in Desired(row[p])
  <2>1. /\ w \in TargetRows /\ w # NoTarget /\ w.status \in {"active", "inactive"}
        /\ row[p] \in Rows
    BY <1>2, WantedRow DEF TypeInv, TypeOK
  <2>2. old = NoTarget => now = NoTarget
    BY <1>2 DEF TargetClash
  <2> QED
    BY <1>1, <1>2, <2>1, <2>2 DEF After, Wanted, TargetRows, NoTarget
<1>3. CASE id \notin Desired(row[p])
  <2>1. CASE old.own /\ old.map = MapOf(row[p]) /\ old.status # "inactive"
    <3>1. old # NoTarget
      BY <2>1 DEF NoTarget
    <3>2. now # NoTarget
      BY <1>1, <3>1
    <3>3. now \in [map : MapIds, own : BOOLEAN, status : {"active", "inactive", "deleted"},
                   version : 0..MaxSeconds]
      BY <1>1, <3>2 DEF TargetRows
    <3>4. After(p, id) = [now EXCEPT !.status = "inactive"]
      BY <1>3, <2>1 DEF After
    <3> HIDE DEF now
    <3> QED
      BY <3>3, <3>4 DEF TargetRows, NoTarget
  <2>2. CASE ~(old.own /\ old.map = MapOf(row[p]) /\ old.status # "inactive")
    BY <1>1, <1>3, <2>2 DEF After
  <2> QED
    BY <2>1, <2>2
<1> QED
  BY <1>2, <1>3

\* A request that ends leaves its locals as at first.
LEMMA EndType ==
  ASSUME TypeInv, NEW p \in Publishers, Ends(p)
  PROVE  TypeInv'
<1>1. /\ FirstRow \in Rows /\ NothingRead \in [TargetIds -> TargetRows]
      /\ \A id \in TargetIds : NothingRead[id] = NoTarget
  BY FirstRowType DEF NothingRead, TargetRows
<1>2. MaxSeconds \in Nat /\ "idle" \in Phases
  BY PublishAssumption DEF Phases
<1>3. TypeOK'
  BY <1>1, <1>2 DEF TypeInv, TypeOK, Ends, End, Go, base, env
<1>4. FoundStay'
  BY <1>1 DEF TypeInv, FoundStay, TypeOK, Ends, End, base
<1> QED
  BY <1>3, <1>4 DEF TypeInv

LEMMA TypeStep ==
  ASSUME TypeInv, CurrentInv, [Next]_vars
  PROVE  TypeInv'
<1> USE PublishAssumption
<1>0. TypeOK /\ FoundStay /\ loads \in Nat /\ second \in 0..MaxSeconds
  BY DEF TypeInv, TypeOK, Seconds
<1>1. ASSUME NEW p \in Publishers, NEW d \in Drafts, Load(p, d)
      PROVE  TypeInv'
  <2>1. PICK r \in Rows :
          /\ row' = [row EXCEPT ![p] = r]
          /\ seen' = [seen EXCEPT ![p] = {q \in active : MapOf(q) = MapOf(r)}]
    <3>1. [draft |-> d, version |-> second, stamp |-> loads + 1] \in Rows
      BY <1>0, <1>1 DEF Rows, Load
    <3> QED
      BY <1>1, <3>1 DEF Load
  <2>2. {q \in active : MapOf(q) = MapOf(r)} \subseteq Rows
    BY <1>0 DEF TypeOK
  <2>3. loads' \in 0..MaxLoads /\ disturbed' \subseteq Publishers
    BY <1>0, <1>1 DEF TypeOK, Load, Disturb, Busy
  <2>4. "loaded" \in Phases
    BY DEF Phases, Open
  <2> QED
    BY <1>0, <1>1, <2>1, <2>2, <2>3, <2>4
       DEF TypeInv, TypeOK, FoundStay, Load, Go, base, hub
<1>2. ASSUME NEW p \in Publishers, Flush(p)
      PROVE  TypeInv'
  <2>1. "flushed" \in Phases
    BY DEF Phases, Open
  <2> QED
    BY <1>0, <1>2, <2>1 DEF TypeInv, TypeOK, FoundStay, Flush, Go, base, hub, env
<1>3. ASSUME NEW p \in Publishers, Commit(p)
      PROVE  TypeInv'
  <2>1. \A id \in TargetIds : /\ targets'[id] \in TargetRows
                              /\ targets[id] # NoTarget => targets'[id] # NoTarget
    BY <1>3, AfterType DEF Commit
  <2>2. targets' \in [TargetIds -> TargetRows]
    BY <1>3, <2>1 DEF Commit
  <2>3. /\ NothingRead \in [TargetIds -> TargetRows] /\ "committed" \in Phases
        /\ \A id \in TargetIds : NothingRead[id] = NoTarget
    BY DEF NothingRead, TargetRows, Phases
  <2>4. FoundStay'
    BY <1>0, <1>3, <2>1, <2>3 DEF FoundStay, TypeOK, Commit
  <2>5. active' \subseteq published' /\ published' \subseteq Rows
    BY <1>0, <1>3 DEF Commit, TypeOK
  <2> QED
    BY <1>0, <1>3, <2>2, <2>3, <2>4, <2>5 DEF TypeInv, TypeOK, Commit, Go, hub, env
<1>4. ASSUME NEW p \in Publishers, AsksHub(p)
      PROVE  TypeInv'
  <2>1. UNCHANGED <<request, base, env, disturbed>>
    BY <1>4 DEF AsksHub, Name, HubFails, SyncScene, SyncEntities
  <2>2. Current \in Rows /\ Current.version \in 0..MaxSeconds
    BY <1>0, CurrentIsActive
  <2>3. FoundStay'
    BY <1>0, <2>1 DEF FoundStay, request, base
  <2>4. /\ name' \in [Publishers -> 0..MaxSeconds]
        /\ status' \in [Publishers -> {"none", "failed", "partial", "synced"}]
        /\ scenes' \subseteq 0..MaxSeconds /\ entities' \subseteq Rows
    BY <1>0, <1>4, <2>2 DEF TypeOK, AsksHub, Name, HubFails, SyncScene, SyncEntities
  <2>5. phase' \in [Publishers -> Phases]
    BY <1>0, <1>4 DEF TypeOK, AsksHub, Name, HubFails, SyncScene, SyncEntities, Go, Phases
  <2> QED
    BY <1>0, <2>1, <2>3, <2>4, <2>5 DEF TypeInv, TypeOK, request, base, env
<1>5. ASSUME NEW id \in Edited, EditsTarget(id)
      PROVE  TypeInv'
  <2>0. id \in TargetIds /\ targets \in [TargetIds -> TargetRows]
    <3>1. id \in TargetIds
      BY <1>5 DEF TargetIds
    <3> QED
      BY <1>0, <3>1 DEF TypeOK
  <2>1. targets' \in [TargetIds -> TargetRows] /\ targets'[id] # NoTarget
    <3>1. CASE CreateTarget(id)
      <4>1. PICK m \in MapIds, own \in BOOLEAN :
              targets' = [targets EXCEPT ![id] = [map |-> m, own |-> own, status |-> "active",
                                                  version |-> 0]]
        BY <3>1 DEF CreateTarget
      <4>2. /\ [map |-> m, own |-> own, status |-> "active", version |-> 0] \in TargetRows
            /\ [map |-> m, own |-> own, status |-> "active", version |-> 0] # NoTarget
        BY DEF TargetRows, NoTarget
      <4> QED
        BY <2>0, <4>1, <4>2
    <3>2. CASE UpdateTarget(id)
      <4>1. PICK s \in {"active", "inactive", "deleted"} :
              targets' = [targets EXCEPT ![id].status = s]
        BY <3>2 DEF UpdateTarget
      <4>2. targets[id] \in [map : MapIds, own : BOOLEAN,
                             status : {"active", "inactive", "deleted"}, version : 0..MaxSeconds]
        <5>1. targets[id] \in TargetRows /\ targets[id] # NoTarget
          BY <2>0, <3>2 DEF UpdateTarget
        <5> QED
          BY <5>1 DEF TargetRows
      <4>3. /\ [targets[id] EXCEPT !.status = s] \in TargetRows
            /\ [targets[id] EXCEPT !.status = s] # NoTarget
        BY <4>2 DEF TargetRows, NoTarget
      <4>4. targets' = [targets EXCEPT ![id] = [targets[id] EXCEPT !.status = s]]
        BY <4>1
      <4> HIDE DEF TargetRows
      <4> QED
        BY <2>0, <4>3, <4>4
    <3> QED
      BY <1>5, <3>1, <3>2 DEF EditsTarget
  <2>2. \A i \in TargetIds : targets[i] # NoTarget => targets'[i] # NoTarget
    <3>1. \A i \in TargetIds \ {id} : targets'[i] = targets[i]
      BY <1>5, <2>0 DEF EditsTarget, CreateTarget, UpdateTarget
    <3> QED
      BY <2>1, <3>1
  <2>3. FoundStay'
    BY <1>0, <1>5, <2>2 DEF EditsTarget, CreateTarget, UpdateTarget, FoundStay, request
  <2>4. edits' \in 0..MaxEdits /\ disturbed' \subseteq Publishers
    BY <1>0, <1>5 DEF EditsTarget, CreateTarget, UpdateTarget, Disturb, Busy, TypeOK
  <2>5. UNCHANGED <<phase, request, active, published, hub, second, loads>>
    BY <1>5 DEF EditsTarget, CreateTarget, UpdateTarget
  <2> QED
    BY <1>0, <2>1, <2>3, <2>4, <2>5 DEF TypeInv, TypeOK, request, hub
<1>6. CASE Tick
  BY <1>0, <1>6 DEF TypeInv, TypeOK, FoundStay, Tick, Seconds, request, base, hub
<1>7. CASE UNCHANGED vars
  BY <1>0, <1>7 DEF TypeInv, TypeOK, FoundStay, vars, request, base, hub, env
<1> QED
  BY <1>1, <1>2, <1>3, <1>4, <1>5, <1>6, <1>7, EndType, StepKinds

-----------------------------------------------------------------------------
\* Which version is current

LEMMA CurrentStart == Init => CurrentInv
BY PublishAssumption DEF Init, CurrentInv, FirstRow, Open

LEMMA CurrentStep ==
  ASSUME TypeInv, CurrentInv, [Next]_vars
  PROVE  /\ CurrentInv'
         /\ active' # {} /\ \A r \in active' : r.stamp \in Nat
         /\ \E r \in active' : r.stamp >= Current.stamp
<1>0. /\ TypeOK /\ loads \in Nat /\ active \subseteq Rows /\ \A r \in Rows : r.stamp \in Nat
      /\ \A p \in Publishers : row[p] \in Rows /\ seen[p] \subseteq Rows
      /\ Current \in active /\ \A q \in active : q.stamp <= Current.stamp
  BY RowFields, CurrentIsActive DEF TypeInv, TypeOK
<1>1. ASSUME NEW p \in Publishers, NEW d \in Drafts, Load(p, d)
      PROVE  CurrentInv' /\ active' = active
  <2>1. PICK r :
          /\ r.stamp = loads + 1 /\ row' = [row EXCEPT ![p] = r]
          /\ seen' = [seen EXCEPT ![p] = {q \in active : MapOf(q) = MapOf(r)}]
    BY <1>1 DEF Load
  <2>2. active' = active /\ loads' = loads + 1 /\ phase' = [phase EXCEPT ![p] = "loaded"]
    BY <1>1 DEF Load, base, Go
  <2>3. \A q \in Publishers \ {p} :
          row'[q] = row[q] /\ seen'[q] = seen[q] /\ phase'[q] = phase[q]
    BY <1>0, <2>1, <2>2 DEF TypeOK
  <2>4. row'[p] = r /\ \A q \in seen'[p] : q \in active
    BY <1>0, <2>1 DEF TypeOK
  <2> QED
    BY <1>0, <2>1, <2>2, <2>3, <2>4 DEF CurrentInv
<1>2. ASSUME NEW p \in Publishers, Flush(p)
      PROVE  CurrentInv' /\ active' = active
  BY <1>0, <1>2 DEF CurrentInv, Flush, Go, base, env, TypeOK, Open
<1>3. ASSUME NEW p \in Publishers, Commit(p)
      PROVE  CurrentInv' /\ \E r \in active' : r.stamp >= Current.stamp
  <2>1. /\ active' = (active \ seen[p]) \cup {row[p]} /\ loads' = loads /\ row' = row
        /\ phase[p] \in Open /\ phase' = [phase EXCEPT ![p] = "committed"]
        /\ seen' = [seen EXCEPT ![p] = {}]
    BY <1>3 DEF Commit, Go, env, Open
  <2>2. \A q \in Publishers : phase'[q] \in Open => phase[q] \in Open /\ seen'[q] = seen[q]
    BY <1>0, <2>1 DEF TypeOK, Open
  <2>3. \A q \in seen[p] : q.stamp < row[p].stamp
    BY <2>1 DEF CurrentInv
  <2>4. CASE Current \in seen[p] \/ row[p].stamp >= Current.stamp
    <3>1. /\ row[p].stamp >= Current.stamp /\ row[p] \in active'
          /\ \A q \in active' : q.stamp <= row[p].stamp
      BY <1>0, <2>1, <2>3, <2>4
    <3> QED
      BY <1>0, <2>1, <2>2, <3>1 DEF CurrentInv
  <2>5. CASE Current \notin seen[p] /\ ~(row[p].stamp >= Current.stamp)
    <3>1. Current \in active' /\ \A q \in active' : q.stamp <= Current.stamp
      BY <1>0, <2>1, <2>5
    <3>2. PICK r \in active' : r = Current
      BY <3>1
    <3>3. \A q \in active' : q.stamp <= r.stamp
      BY <3>1, <3>2
    <3> QED
      BY <1>0, <2>1, <2>2, <3>2, <3>3 DEF CurrentInv
  <2> QED
    BY <2>4, <2>5
<1>4. ASSUME NEW p \in Publishers, Ends(p)
      PROVE  CurrentInv' /\ active' = active
  <2>1. /\ active' = active /\ loads' = loads /\ phase' = [phase EXCEPT ![p] = "idle"]
        /\ row' = [row EXCEPT ![p] = FirstRow] /\ seen' = [seen EXCEPT ![p] = {}]
    BY <1>4 DEF Ends, End, Go, base, env
  <2>2. FirstRow.stamp = 0
    BY DEF FirstRow
  <2> QED
    BY <1>0, <2>1, <2>2 DEF CurrentInv, TypeOK, Open
<1>5. ASSUME NEW p \in Publishers, AsksHub(p)
      PROVE  CurrentInv' /\ active' = active
  <2>1. UNCHANGED <<row, seen, active, loads>>
    BY <1>5 DEF AsksHub, Name, HubFails, SyncScene, SyncEntities, request, base, env
  <2>2. \A q \in Publishers : phase'[q] \in Open => phase'[q] = phase[q]
    BY <1>0, <1>5 DEF AsksHub, Name, HubFails, SyncScene, SyncEntities, Go, Open, TypeOK
  <2> QED
    BY <2>1, <2>2 DEF CurrentInv
<1>6. ASSUME NEW id \in Edited, EditsTarget(id)
      PROVE  CurrentInv' /\ active' = active
  BY <1>6 DEF EditsTarget, CreateTarget, UpdateTarget, CurrentInv, request
<1>7. ASSUME Tick \/ UNCHANGED vars
      PROVE  CurrentInv' /\ active' = active
  BY <1>7 DEF Tick, vars, request, base, CurrentInv
<1>8. CurrentInv' /\ \E r \in active' : r.stamp >= Current.stamp
  <2>1. CASE CurrentInv' /\ active' = active
    BY <1>0, <2>1
  <2> QED
    BY <1>1, <1>2, <1>3, <1>4, <1>5, <1>6, <1>7, <2>1, StepKinds
<1>9. active' \subseteq Rows
  BY TypeStep DEF TypeInv, TypeOK
<1> QED
  BY <1>0, <1>8, <1>9

\* TypeOK: requests, versions, targets and what the Hub has keep their types.
THEOREM TypeCorrect == Spec => []TypeOK
<1>1. Init => TypeInv /\ CurrentInv
  BY TypeStart, CurrentStart
<1>2. TypeInv /\ CurrentInv /\ [Next]_vars => (TypeInv /\ CurrentInv)'
  BY TypeStep, CurrentStep
<1>3. TypeInv => TypeOK
  BY DEF TypeInv
<1> QED
  BY <1>1, <1>2, <1>3, PTL DEF Spec

\* The map that is current is there and gives way only to one published later, however many
\* publications overlap.
THEOREM CurrentCorrect == Spec => CurrentOnlyAdvances
<1>1. Init => TypeInv /\ CurrentInv
  BY TypeStart, CurrentStart
<1>2. TypeInv /\ CurrentInv /\ [Next]_vars => (TypeInv /\ CurrentInv)'
  BY TypeStep, CurrentStep
<1>3. TypeInv /\ CurrentInv /\ [Next]_vars
        => [active' # {} /\ Current'.stamp >= Current.stamp]_vars
  <2> SUFFICES ASSUME TypeInv, CurrentInv, [Next]_vars
               PROVE  active' # {} /\ Current'.stamp >= Current.stamp
    OBVIOUS
  <2>1. /\ active' # {} /\ \A r \in active' : r.stamp \in Nat
        /\ \E r \in active' : r.stamp >= Current.stamp
    BY CurrentStep
  <2>2. \E r \in active' : \A q \in active' : q.stamp <= r.stamp
    BY CurrentStep DEF CurrentInv
  <2>3. Current' \in active' /\ \A q \in active' : q.stamp <= Current'.stamp
    BY <2>2 DEF Current
  <2>4. Current.stamp \in Nat
    BY CurrentIsActive DEF TypeInv
  <2> QED
    BY <2>1, <2>3, <2>4
<1> QED
  BY <1>1, <1>2, <1>3, PTL DEF Spec, CurrentOnlyAdvances

-----------------------------------------------------------------------------
\* A publisher that is alone

\* What a publisher has read is what there is, and what it has written is still so.
Alone(p) ==
  /\ \A q \in Publishers : phase[q] # "idle" => q = p
  /\ phase[p] \in Open =>
       /\ seen[p] = {q \in active : MapOf(q) = MapOf(row[p])}
       /\ \A q \in active : q.stamp < row[p].stamp
  /\ phase[p] = "flushed" => read[p] = targets
  /\ phase[p] \notin Open =>
       row[p] \in active /\ \A q \in active \ {row[p]} : q.stamp < row[p].stamp
  /\ phase[p] \in {"named", "scene", "synced"} => name[p] = row[p].version
  /\ phase[p] = "scene" => row[p].version \in scenes
  /\ phase[p] = "synced" /\ status[p] = "synced" =>
       row[p].version \in scenes /\ row[p] \in entities
AloneInv == \A p \in Publishers : phase[p] # "idle" /\ p \notin disturbed => Alone(p)

LEMMA AloneStart == Init => AloneInv
BY DEF Init, AloneInv

\* Its row is the current one once it is committed.
LEMMA AloneIsCurrent ==
  ASSUME TypeInv, NEW p \in Publishers, Alone(p), phase[p] \notin Open
  PROVE  Current = row[p]
<1>1. row[p] \in active /\ \A q \in active \ {row[p]} : q.stamp < row[p].stamp
  BY DEF Alone
<1>2. \A q \in active : q.stamp \in Nat
  BY RowFields DEF TypeInv, TypeOK
<1>3. LastOf(active) = row[p]
  BY <1>1, <1>2, LastIs
<1> QED
  BY <1>3, CurrentLast

LEMMA AloneStep ==
  ASSUME TypeInv, CurrentInv, AloneInv, [Next]_vars
  PROVE  AloneInv'
<1>0. TypeOK /\ loads \in Nat /\ \A q \in active : q.stamp \in Nat /\ q.stamp <= loads
  BY RowFields DEF TypeInv, TypeOK, CurrentInv
<1>1. ASSUME NEW p \in Publishers, NEW d \in Drafts, Load(p, d)
      PROVE  AloneInv'
  <2>1. PICK r :
          /\ r.stamp = loads + 1 /\ row' = [row EXCEPT ![p] = r]
          /\ seen' = [seen EXCEPT ![p] = {q \in active : MapOf(q) = MapOf(r)}]
    BY <1>1 DEF Load
  <2>2. /\ active' = active /\ phase' = [phase EXCEPT ![p] = "loaded"]
        /\ disturbed' = disturbed \cup (IF Busy = {} THEN {} ELSE Busy \cup {p})
    BY <1>1 DEF Load, base, Go, Disturb
  <2>3. CASE Busy = {}
    <3>1. \A q \in Publishers : phase'[q] # "idle" => q = p
      BY <1>0, <2>2, <2>3 DEF Busy, TypeOK
    <3>2. /\ phase'[p] = "loaded" /\ row'[p] = r
          /\ seen'[p] = {q \in active : MapOf(q) = MapOf(r)}
      BY <1>0, <2>1, <2>2 DEF TypeOK
    <3>3. Alone(p)'
      BY <1>0, <2>1, <2>2, <3>1, <3>2 DEF Alone, Open, MapOf
    <3> QED
      BY <3>1, <3>3 DEF AloneInv
  <2>4. CASE Busy # {}
    <3>1. \A q \in Publishers : phase'[q] # "idle" => q \in disturbed'
      BY <1>0, <2>2, <2>4 DEF Busy, TypeOK
    <3> QED
      BY <3>1 DEF AloneInv
  <2> QED
    BY <2>3, <2>4
<1>2. ASSUME NEW p \in Publishers, Flush(p)
      PROVE  AloneInv'
  <2>1. /\ phase[p] = "loaded" /\ phase' = [phase EXCEPT ![p] = "flushed"]
        /\ read' = [read EXCEPT ![p] = targets]
        /\ UNCHANGED <<row, seen, active, targets, name, scenes, entities, status, disturbed>>
    BY <1>2 DEF Flush, Go, base, hub
  <2>2. ASSUME NEW q \in Publishers, phase'[q] # "idle", q \notin disturbed'
        PROVE  q = p /\ Alone(p)
    BY <1>0, <2>1, <2>2 DEF AloneInv, Alone, TypeOK
  <2>3. ASSUME Alone(p)
        PROVE  Alone(p)'
    <3>1. phase'[p] = "flushed" /\ read'[p] = targets'
      BY <1>0, <2>1 DEF TypeOK
    <3>2. \A q \in Publishers : phase'[q] # "idle" => q = p
      BY <1>0, <2>1, <2>3 DEF Alone, TypeOK
    <3> QED
      BY <2>1, <2>3, <3>1, <3>2 DEF Alone, Open
  <2> QED
    BY <2>2, <2>3 DEF AloneInv
<1>3. ASSUME NEW p \in Publishers, Commit(p)
      PROVE  AloneInv'
  <2>1. /\ phase[p] = "flushed" /\ phase' = [phase EXCEPT ![p] = "committed"]
        /\ active' = (active \ seen[p]) \cup {row[p]} /\ row' = row /\ disturbed' = disturbed
    BY <1>3 DEF Commit, Go
  <2>2. ASSUME NEW q \in Publishers, phase'[q] # "idle", q \notin disturbed'
        PROVE  q = p /\ Alone(p)
    BY <1>0, <2>1, <2>2 DEF AloneInv, Alone, TypeOK
  <2>3. ASSUME Alone(p)
        PROVE  Alone(p)'
    <3>1. phase'[p] = "committed"
      BY <1>0, <2>1 DEF TypeOK
    <3>2. \A q \in Publishers : phase'[q] # "idle" => q = p
      BY <1>0, <2>1, <2>3 DEF Alone, TypeOK
    <3>3. row'[p] \in active' /\ \A q \in active' \ {row'[p]} : q.stamp < row'[p].stamp
      BY <2>1, <2>3 DEF Alone, Open
    <3> QED
      BY <3>1, <3>2, <3>3 DEF Alone, Open
  <2> QED
    BY <2>2, <2>3 DEF AloneInv
<1>4. ASSUME NEW p \in Publishers, Ends(p)
      PROVE  AloneInv'
  <2>1. /\ phase' = [phase EXCEPT ![p] = "idle"] /\ disturbed' = disturbed \ {p}
        /\ UNCHANGED <<active, targets, scenes, entities>>
    BY <1>4 DEF Ends, End, Go, base
  <2>2. ASSUME NEW q \in Publishers, phase'[q] # "idle", q \notin disturbed'
        PROVE  q # p /\ Alone(q) /\ phase'[q] = phase[q]
    BY <1>0, <2>1, <2>2 DEF AloneInv, TypeOK
  <2>3. ASSUME NEW q \in Publishers \ {p}, Alone(q), phase'[q] = phase[q]
        PROVE  Alone(q)'
    <3>1. /\ row'[q] = row[q] /\ seen'[q] = seen[q] /\ read'[q] = read[q]
          /\ name'[q] = name[q] /\ status'[q] = status[q]
      BY <1>0, <1>4 DEF Ends, End, TypeOK
    <3>2. \A o \in Publishers : phase'[o] # "idle" => o = q
      BY <1>0, <2>1, <2>3 DEF Alone, TypeOK
    <3> QED
      BY <2>1, <2>3, <3>1, <3>2 DEF Alone
  <2> QED
    BY <2>2, <2>3 DEF AloneInv
<1>5. ASSUME NEW p \in Publishers, AsksHub(p)
      PROVE  AloneInv'
  <2>1. UNCHANGED <<request, active, targets, disturbed>> /\ phase[p] \notin Open
    BY <1>5 DEF AsksHub, Name, HubFails, SyncScene, SyncEntities, base, Open
  <2>2. /\ \A q \in Publishers \ {p} : phase'[q] = phase[q]
        /\ phase[p] # "idle" /\ phase'[p] \in {"named", "scene", "synced"}
    BY <1>0, <1>5 DEF AsksHub, Name, HubFails, SyncScene, SyncEntities, Go, TypeOK
  <2>3. ASSUME NEW q \in Publishers, phase'[q] # "idle", q \notin disturbed'
        PROVE  q = p /\ Alone(p)
    BY <1>0, <2>1, <2>2, <2>3 DEF AloneInv, Alone, TypeOK
  <2>4. ASSUME Alone(p)
        PROVE  Alone(p)'
    <3>1. Current = row[p]
      BY <2>1, <2>4, AloneIsCurrent
    <3>2. \A q \in Publishers : phase'[q] # "idle" => q = p
      BY <2>2, <2>4 DEF Alone
    <3>3. /\ phase'[p] \notin Open /\ row'[p] \in active'
          /\ \A q \in active' \ {row'[p]} : q.stamp < row'[p].stamp
      BY <2>1, <2>2, <2>4 DEF Alone, Open, request
    <3>4. name'[p] = row'[p].version
      BY <1>0, <1>5, <2>1, <2>4, <3>1
         DEF Alone, AsksHub, Name, HubFails, SyncScene, SyncEntities, request, TypeOK
    <3>5. phase'[p] = "scene" => row'[p].version \in scenes'
      BY <1>0, <1>5, <2>1, <3>1
         DEF AsksHub, Name, HubFails, SyncScene, SyncEntities, Go, request, TypeOK
    <3>6. phase'[p] = "synced" /\ status'[p] = "synced" =>
            row'[p].version \in scenes' /\ row'[p] \in entities'
      BY <1>0, <1>5, <2>1, <3>1
         DEF AsksHub, Name, HubFails, SyncScene, SyncEntities, Go, request, TypeOK
    <3> QED
      BY <3>2, <3>3, <3>4, <3>5, <3>6 DEF Alone, Open
  <2> QED
    BY <2>3, <2>4 DEF AloneInv
<1>6. ASSUME NEW id \in Edited, EditsTarget(id)
      PROVE  AloneInv'
  <2>1. phase' = phase /\ disturbed' = disturbed \cup Busy
    BY <1>6 DEF EditsTarget, CreateTarget, UpdateTarget, Disturb
  <2> QED
    BY <2>1 DEF AloneInv, Busy
<1>7. ASSUME Tick \/ UNCHANGED vars
      PROVE  AloneInv'
  <2>1. UNCHANGED <<phase, row, seen, read, active, targets, name, scenes, entities, status,
                    disturbed>>
    BY <1>7 DEF Tick, vars, request, base, hub
  <2> QED
    BY <2>1 DEF AloneInv, Alone
<1> QED
  BY <1>1, <1>2, <1>3, <1>4, <1>5, <1>6, <1>7, StepKinds

\* The target registry after the commit of a publisher that is alone.
LEMMA AloneAgrees ==
  ASSUME TypeInv, NEW p \in Publishers, read[p] = targets, Commit(p)
  PROVE  Agrees(row[p])'
<1>1. /\ targets' = [id \in TargetIds |-> After(p, id)] /\ row' = row /\ row[p] \in Rows
  BY DEF Commit, TypeInv, TypeOK
<1> SUFFICES ASSUME NEW id \in TargetIds
             PROVE  LET t == targets'[id]
                        its == t.own /\ t.map = MapOf(row[p])
                    IN /\ id \in Desired(row[p]) =>
                            /\ its /\ t.version = row[p].version
                            /\ t.status = TargetsOf[row[p].draft][id]
                       /\ its /\ t.status = "active" =>
                            id \in Desired(row[p]) /\ t.version = row[p].version
  BY <1>1 DEF Agrees
<1>2. CASE id \in Desired(row[p])
  <2>1. targets'[id] = Wanted(row[p], id)
    BY <1>1, <1>2 DEF After, Wanted
  <2> QED
    BY <1>2, <2>1 DEF Wanted
<1>3. CASE id \notin Desired(row[p])
  <2>1. targets[id] \in TargetRows /\ targets'[id] = After(p, id)
    BY <1>1 DEF TypeInv, TypeOK
  <2> QED
    BY <1>3, <2>1 DEF After, TargetRows, NoTarget
<1> QED
  BY <1>2, <1>3

\* A publication that nothing overlapped leaves one active version of its map, the current
\* one, and a target registry that agrees with it, for any maps, drafts and targets.
THEOREM OrderCorrect == Spec => AloneLeavesOrder
<1>1. Init => TypeInv /\ CurrentInv /\ AloneInv
  BY TypeStart, CurrentStart, AloneStart
<1>2. TypeInv /\ CurrentInv /\ AloneInv /\ [Next]_vars => (TypeInv /\ CurrentInv /\ AloneInv)'
  BY TypeStep, CurrentStep, AloneStep
<1>3. TypeInv /\ CurrentInv /\ AloneInv /\ [Next]_vars
        => [\A p \in Publishers :
              phase[p] = "flushed" /\ phase'[p] = "committed" /\ p \notin disturbed
                => /\ {r \in active' : MapOf(r) = MapOf(row[p])} = {row[p]}
                   /\ Current' = row[p]
                   /\ Agrees(row[p])']_vars
  <2> SUFFICES ASSUME TypeInv, CurrentInv, AloneInv, [Next]_vars, NEW p \in Publishers,
                      phase[p] = "flushed", phase'[p] = "committed", p \notin disturbed
               PROVE  /\ {r \in active' : MapOf(r) = MapOf(row[p])} = {row[p]}
                      /\ Current' = row[p] /\ Agrees(row[p])'
    OBVIOUS
  <2>1. Commit(p)
    <3>1. phase \in [Publishers -> Phases]
      BY DEF TypeInv, TypeOK
    <3> QED
      BY <3>1, StepKinds
         DEF Load, Flush, Commit, Ends, End, AsksHub, Name, HubFails, SyncScene, SyncEntities,
             EditsTarget, CreateTarget, UpdateTarget, Tick, vars, Go
  <2>2. Alone(p) /\ Alone(p)' /\ TypeInv'
    BY TypeStep, AloneStep, <2>1 DEF AloneInv, Commit
  <2>3. active' = (active \ seen[p]) \cup {row[p]} /\ row' = row
    BY <2>1 DEF Commit
  <2>4. {r \in active' : MapOf(r) = MapOf(row[p])} = {row[p]}
    BY <2>2, <2>3 DEF Alone, Open
  <2>5. Current' = row[p]
    <3>1. row[p] \in active' /\ \A q \in active' \ {row[p]} : q.stamp < row[p].stamp
      BY <2>2, <2>3 DEF Alone, Open
    <3>2. \A q \in active' : q.stamp \in Nat
      BY <2>2, RowFields DEF TypeInv, TypeOK
    <3>3. LastOf(active') = row[p]
      BY <3>1, <3>2, LastIs
    <3> QED
      BY <3>3 DEF Current, LastOf
  <2>6. Agrees(row[p])'
    BY <2>1, <2>2, AloneAgrees DEF Alone
  <2> QED
    BY <2>4, <2>5, <2>6
<1> QED
  BY <1>1, <1>2, <1>3, PTL DEF Spec, AloneLeavesOrder

\* What the robots and the client are told after such a publication is true.
THEOREM TruthCorrect == Spec => AloneTellsTruth
<1>1. Init => TypeInv /\ CurrentInv /\ AloneInv
  BY TypeStart, CurrentStart, AloneStart
<1>2. TypeInv /\ CurrentInv /\ AloneInv /\ [Next]_vars => (TypeInv /\ CurrentInv /\ AloneInv)'
  BY TypeStep, CurrentStep, AloneStep
<1>3. AloneInv /\ [Next]_vars
        => [\A p \in Publishers :
              phase[p] = "synced" /\ phase'[p] = "idle" /\ p \notin disturbed
                => /\ name[p] = row[p].version
                   /\ status[p] = "synced" =>
                        row[p].version \in scenes /\ row[p] \in entities]_vars
  BY DEF AloneInv, Alone
<1> QED
  BY <1>1, <1>2, <1>3, PTL DEF Spec, AloneTellsTruth

-----------------------------------------------------------------------------
\* Only what can be driven is published

\* Whatever is at hand to be published, and all that has been, was without issues.
DraftInv ==
  /\ \A p \in Publishers : row[p].draft \in Publishable
  /\ \A r \in published : r.draft \in Publishable

LEMMA DraftStart == Init => DraftInv
BY PublishAssumption DEF Init, DraftInv, FirstRow

LEMMA DraftStep ==
  ASSUME TypeOK, DraftInv, [Next]_vars
  PROVE  DraftInv'
<1>0. row \in [Publishers -> Rows] /\ FirstRow.draft \in Publishable
  BY PublishAssumption DEF TypeOK, FirstRow
<1>1. ASSUME NEW p \in Publishers, NEW d \in Drafts, Load(p, d)
      PROVE  DraftInv'
  <2>1. PICK r : r.draft = d /\ row' = [row EXCEPT ![p] = r]
    BY <1>1 DEF Load
  <2> QED
    BY <1>0, <1>1, <2>1 DEF DraftInv, Load, base
<1>2. ASSUME NEW p \in Publishers, Commit(p)
      PROVE  DraftInv'
  BY <1>2 DEF DraftInv, Commit
<1>3. ASSUME NEW p \in Publishers, Ends(p)
      PROVE  DraftInv'
  BY <1>0, <1>3 DEF DraftInv, Ends, End, base
<1>4. ASSUME UNCHANGED <<row, published>>
      PROVE  DraftInv'
  BY <1>4 DEF DraftInv
<1>5. \A p \in Publishers : Flush(p) \/ AsksHub(p) => UNCHANGED <<row, published>>
  BY DEF Flush, AsksHub, Name, HubFails, SyncScene, SyncEntities, request, base
<1>6. \A id \in Edited : EditsTarget(id) => UNCHANGED <<row, published>>
  BY DEF EditsTarget, CreateTarget, UpdateTarget, request
<1>7. Tick \/ UNCHANGED vars => UNCHANGED <<row, published>>
  BY DEF Tick, vars, request, base
<1> QED
  BY <1>1, <1>2, <1>3, <1>4, <1>5, <1>6, <1>7, StepKinds

\* Whatever maps are drawn and imported, and however the publications of them interleave,
\* robots can drive every path group of every version there has ever been: the validator
\* refuses what they could not, default groups included.
THEOREM PublishedCorrect == Spec => []PublishedIsDrivable
<1>1. Init => TypeInv /\ CurrentInv /\ DraftInv
  BY TypeStart, CurrentStart, DraftStart
<1>2. TypeInv /\ CurrentInv /\ DraftInv /\ [Next]_vars => (TypeInv /\ CurrentInv /\ DraftInv)'
  BY TypeStep, CurrentStep, DraftStep DEF TypeInv
<1>3. DraftInv => PublishedIsDrivable
  BY PublishableIsDrivable DEF DraftInv, PublishedIsDrivable
<1> QED
  BY <1>1, <1>2, <1>3, PTL DEF Spec
=============================================================================
