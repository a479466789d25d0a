---------------------------- MODULE MapValidation ----------------------------
(***************************************************************************)
(* What makes a site map fit to be published, and the targets it stands    *)
(* for (src/backend/app/store.py): operators without state.                *)
(*                                                                         *)
(* A map is [id, width, height, objects, edges, groups], the last three    *)
(* sequences of                                                            *)
(*   [id, type, left, right, top, bottom], an object and its bounds,       *)
(*   [id, from, to, group, rank, capacity], an edge of the path graph,     *)
(*   [id, edges, robots, active], a path group with its edges' ids.        *)
(* rank is the edge's sequence number in its group.  None stands for a     *)
(* group or a rank that is not given.  Left out: names, colours, the grid, *)
(* radii and sizes (bounds are given), speed limits.                       *)
(***************************************************************************)
EXTENDS Integers, Sequences, FiniteSets

CONSTANTS
  None,
  Fleet,         \* the set of codes of the robots there are
  DefaultMapId,  \* id of the built-in map,
  DefaultGroups, \* its path groups,
  FirstRobots,   \* robot-001, robot-002 and robot-003,
  GroupIds       \* GroupIds[i]: id of the i-th group made, GroupIds[0] of one for all

Members(s) == {s[i] : i \in DOMAIN s}
Ids(s) == {x.id : x \in Members(s)}
NoRepeats(s) == \A i, j \in DOMAIN s : s[i].id = s[j].id => i = j
PathNodes(m) == {o.id : o \in {x \in Members(m.objects) : x.type = "pathNode"}}

\* The elements of s at the indices in DOMAIN key, sorted by their keys: a sort is stable.
SortedBy(s, key) ==
  LET before(i, j) == key[i] < key[j] \/ (key[i] = key[j] /\ i < j)
  IN [n \in 1..Cardinality(DOMAIN key) |->
        s[CHOOSE i \in DOMAIN key : Cardinality({j \in DOMAIN key : before(j, i)}) = n - 1]]

\* The elements of s at the indices in a set.
Picked(s, kept) == SortedBy(s, [i \in kept |-> i])

\* What every map is that the API takes: PathEdge, PathGroup and SiteMap.
AreEdges(s) ==
  /\ s \in Seq(Members(s))
  /\ \A e \in Members(s) : "rank" \in DOMAIN e /\ (e.rank = None \/ e.rank \in Int)
AreGroups(s) ==
  /\ s \in Seq(Members(s))
  /\ \A g \in Members(s) : "edges" \in DOMAIN g /\ g.edges \in Seq(Members(g.edges))
IsMap(m) == {"edges", "groups"} \subseteq DOMAIN m /\ AreEdges(m.edges) /\ AreGroups(m.groups)

-----------------------------------------------------------------------------
\* map_with_default_path_groups

\* The built-in groups as far as the map has their edges.
BuiltIn(m) ==
  LET here(g) == {i \in DOMAIN g.edges : g.edges[i] \in Ids(m.edges)}
      groups == [i \in DOMAIN DefaultGroups |->
                   [DefaultGroups[i] EXCEPT !.edges = Picked(@, here(DefaultGroups[i]))]]
  IN IF m.id = DefaultMapId THEN Picked(groups, {i \in DOMAIN groups : groups[i].edges # <<>>})
     ELSE <<>>

\* Otherwise a group for each edge, the first three each for one robot; a lone edge is
\* in the default group, for any robot.
PerEdge(m) ==
  LET alone == Len(m.edges) = 1 IN
  [i \in DOMAIN m.edges |->
     [id |-> GroupIds[IF alone THEN 0 ELSE i], edges |-> <<m.edges[i].id>>, active |-> TRUE,
      robots |-> IF alone \/ i \notin DOMAIN FirstRobots THEN {} ELSE {FirstRobots[i]}]]

\* An edge learns its group, and its rank in it, where it does not say.
Grouped(m, groups) ==
  LET edge(e) ==
        LET own == Picked(groups, {i \in DOMAIN groups : e.id \in Members(groups[i].edges)})
            last == own[Len(own)]
        IN IF own = <<>> THEN e
           ELSE [e EXCEPT !.group = IF @ = None THEN last.id ELSE @,
                          !.rank = IF @ = None
                                   THEN CHOOSE i \in DOMAIN last.edges : last.edges[i] = e.id
                                   ELSE @]
  IN [m EXCEPT !.groups = groups, !.edges = [i \in DOMAIN @ |-> edge(@[i])]]

WithDefaultGroups(m) ==
  IF m.groups # <<>> \/ m.edges = <<>> THEN m
  ELSE Grouped(m, IF BuiltIn(m) # <<>> THEN BuiltIn(m) ELSE PerEdge(m))

-----------------------------------------------------------------------------
\* validate_map

InBounds(m) ==
  \A o \in Members(m.objects) :
    /\ o.left >= 0 /\ o.top >= 0 /\ o.right <= m.width /\ o.bottom <= m.height
    /\ o.type \in {"zone", "obstacle"} => o.left < o.right /\ o.top < o.bottom
    /\ o.type \in {"station", "pathNode"} => o.left <= o.right

EdgesJoinNodes(m) ==
  \A e \in Members(m.edges) :
    /\ e.from \in PathNodes(m) /\ e.to \in PathNodes(m) /\ e.from # e.to
    /\ e.capacity >= 1
    /\ e.group # None => e.group \in Ids(m.groups)

Overlap(a, b) ==
  ~(a.right <= b.left \/ a.left >= b.right \/ a.bottom <= b.top \/ a.top >= b.bottom)

\* _validate_collisions: two stations may overlap.
NoCollision(m) ==
  \A i, j \in DOMAIN m.objects :
    LET a == m.objects[i]
        b == m.objects[j]
    IN (/\ i < j
        /\ {a.type, b.type} \subseteq {"obstacle", "station", "resourcePoint"}
        /\ {a.type, b.type} # {"station"}) => ~Overlap(a, b)

\* The edges of a group in the order of their ranks, or of their places in the group.
Ordered(m, g) ==
  LET known == {i \in DOMAIN g.edges : g.edges[i] \in Ids(m.edges)}
      edge == [i \in known |-> CHOOSE e \in Members(m.edges) : e.id = g.edges[i]]
      index(i) == Cardinality({k \in DOMAIN g.edges : \A l \in 1..k : g.edges[l] # g.edges[i]})
  IN SortedBy(edge, [i \in known |-> IF edge[i].rank # None THEN edge[i].rank ELSE index(i)])

\* Mutant: it may also end there.
ContinuousEitherWay(route) ==
  \A i \in 1..(Len(route) - 1) :
    {route[i].from, route[i].to} \cap {route[i + 1].from, route[i + 1].to} # {}

\* An edge of a group starts where the one before it ends, whatever its direction.
Continuous(route) == \A i \in 1..(Len(route) - 1) : route[i].to = route[i + 1].from

\* _validate_path_groups
GroupsFit(m) ==
  m.groups # <<>> =>
    /\ \A g \in Members(m.groups) :
         /\ Fleet # {} => g.robots \subseteq Fleet
         /\ Members(g.edges) \subseteq Ids(m.edges)
         /\ \A e \in Members(m.edges) :
              e.id \in Members(g.edges) /\ e.group # None => e.group = g.id
         /\ Continuous(Ordered(m, g))
    /\ \A e \in Members(m.edges) :
         e.group # None => \E g \in Members(m.groups) : e.id \in Members(g.edges)

Linked(m, a, b) == \E e \in Members(m.edges) : {e.from, e.to} = {a, b}

\* Nodes reached from a set of nodes in at most n steps.
Reached(m, from) ==
  LET reach[n \in 0..Len(m.edges)] ==
        IF n = 0 THEN from
        ELSE reach[n - 1] \cup {b \in PathNodes(m) : \E a \in reach[n - 1] : Linked(m, a, b)}
  IN reach[Len(m.edges)]

\* _validate_path_connectivity: nothing but isolated nodes is looked for when there are groups.
NodesLinked(m) ==
  \A a \in PathNodes(m) : PathNodes(m) # {a} => \E b \in PathNodes(m) : a # b /\ Linked(m, a, b)
Connected(m) ==
  m.groups = <<>> => \A a \in PathNodes(m) : PathNodes(m) \subseteq Reached(m, {a})

Valid(m) ==
  /\ m.width > 0 /\ m.height > 0
  /\ NoRepeats(m.objects) /\ NoRepeats(m.edges) /\ NoRepeats(m.groups)
  /\ InBounds(m) /\ EdgesJoinNodes(m) /\ NoCollision(m)
  /\ GroupsFit(m) /\ NodesLinked(m) /\ Connected(m)

-----------------------------------------------------------------------------
\* map_source_targets_from_map: objects, edges and groups, with the status each target gets.

Targets(m) ==
  LET g == WithDefaultGroups(m)
      ids == Ids(g.objects) \cup Ids(g.edges) \cup Ids(g.groups)
      off == {x.id : x \in {y \in Members(g.groups) : ~y.active}}
  IN [id \in ids |-> IF id \in off THEN "inactive" ELSE "active"]
=============================================================================
