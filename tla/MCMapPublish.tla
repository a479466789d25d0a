---------------------------- MODULE MCMapPublish ----------------------------
(* Two sites that share a path node, with drafts good and bad: the built-in   *)
(* site-a, an extension of it whose groups are the built-in ones, site-b with *)
(* a station and groups of its own, one of them inactive.                     *)
EXTENDS MapPublish, TLC

CONSTANTS siteA, siteB, pub1, pub2,
          n1, n2, n3, e1, e2, groupA, groupB, station, robot1, robot2, lonePath, path1, path2

Object(id, type, x) == [id |-> id, type |-> type, left |-> x, right |-> x, top |-> 1, bottom |-> 1]
Node(id, x) == Object(id, "pathNode", x)
Edge(id, from, to, group, rank) ==
  [id |-> id, from |-> from, to |-> to, group |-> group, rank |-> rank, capacity |-> 1]
Group(id, edges, robots, on) == [id |-> id, edges |-> edges, robots |-> robots, active |-> on]
Site(id, objects, edges, groups) ==
  [id |-> id, width |-> 9, height |-> 9, objects |-> objects, edges |-> edges, groups |-> groups]

Nodes == <<Node(n1, 1), Node(n2, 2), Node(n3, 3)>>
Block(id, x, y) == [id |-> id, type |-> "station", left |-> x, right |-> x + 2, top |-> y, bottom |-> y + 2]

MCDefaultGroups == <<Group(groupA, <<e1, e2>>, {}, TRUE)>>
MCFirstRobots == <<robot1, robot2>>
MCGroupIds == [i \in 0..2 |-> <<lonePath, path1, path2>>[i + 1]]

MCContent == [
  small |-> Site(siteA, <<Nodes[1], Nodes[2]>>, <<Edge(e1, n1, n2, None, None)>>, <<>>),
  long |-> Site(siteA, Nodes,
                <<Edge(e2, n2, n3, None, None), Edge(e1, n1, n2, None, None)>>, <<>>),
  \* Its built-in group goes against the direction of e2.
  back |-> Site(siteA, Nodes,
                <<Edge(e1, n1, n2, None, None), Edge(e2, n3, n2, None, None)>>, <<>>),
  \* A group for each edge, the second for a robot there is not.
  segments |-> Site(siteB, Nodes,
                    <<Edge(e1, n1, n2, None, None), Edge(e2, n2, n3, None, None)>>, <<>>),
  \* The ranks make a way of edges that are listed in the other order.
  shared |-> Site(siteB, Nodes \o <<Block(station, 4, 4)>>,
                  <<Edge(e1, n1, n2, groupB, 2), Edge(e2, n3, n1, groupB, 1)>>,
                  <<Group(groupB, <<e1, e2>>, {robot1}, FALSE)>>),
  outside |-> Site(siteB, <<Nodes[1], Nodes[2], Block(station, 8, 4)>>,
                   <<Edge(e1, n1, n2, None, None)>>, <<>>),
  cut |-> Site(siteB, Nodes, <<Edge(e1, n1, n2, None, None)>>, <<>>)]

Symmetry == Permutations(Publishers)
=============================================================================
