----------------------------- MODULE MapPublish -----------------------------
(***************************************************************************)
(* Publication of site maps: publish_map_draft of src/backend/app/main.py, *)
(* the transaction of publish_draft in database_store.py, and the Hub      *)
(* synchronisation and the broadcast that follow it, between other         *)
(* publications and edits of the target registry.                          *)
(*                                                                         *)
(* The transaction reads the active rows of its map (Load), writes them    *)
(* when its query for the targets flushes it, which takes their row locks, *)
(* and reads the targets (Flush), then writes those and commits (Commit),  *)
(* as PostgreSQL does at READ COMMITTED.  An UPDATE writes the columns     *)
(* that differ from what was read.  A draft never changes once it is       *)
(* saved, so that saving one and checking it commute with everything.      *)
(* Abstracted: names and poses of targets, audits, the answers' bodies,    *)
(* and the Hub's contents, which HubSync models: here a synchronisation    *)
(* of the scene or of the entities succeeds or fails as a whole.           *)
(***************************************************************************)
EXTENDS MapValidation, FiniteSets

CONSTANTS
  Publishers,  \* threads of HTTP requests, each publishing a draft at a time
  Content,     \* Content[d]: the map of draft d
  First,       \* the draft that the data base is seeded with
  Edited,      \* ids of targets that are added and changed by hand
  MaxSeconds,  \* bound: seconds that pass
  MaxEdits,    \* bound: edits of targets
  MaxLoads     \* bound: publications that begin

Drafts == DOMAIN Content
MapIds == {Content[d].id : d \in Drafts}
TargetsOf == [d \in Drafts |-> Targets(Content[d])]
TargetIds == (UNION {DOMAIN TargetsOf[d] : d \in Drafts}) \cup Edited
Seconds == 1..MaxSeconds

\* Drafts without issues: validate_map of what draft_map returns.
Publishable == {d \in Drafts : Valid(WithDefaultGroups(Content[d]))}

\* The transaction has read its rows and can still write.
Open == {"loaded", "flushed"}
Phases == {"idle", "committed", "named", "scene", "synced"} \cup Open

\* A version of a map: the second of its publication, and its stamp, updated_at.
Rows == [draft : Drafts, version : 0..MaxSeconds, stamp : 0..MaxLoads]
NoTarget == [map |-> None, own |-> FALSE, status |-> "absent", version |-> 0]
\* own: metadata.source is "map".
TargetRows ==
  {NoTarget} \cup [map : MapIds, own : BOOLEAN, status : {"active", "inactive", "deleted"},
                   version : 0..MaxSeconds]

ASSUME PublishAssumption ==
  /\ AreGroups(DefaultGroups) /\ \A d \in Drafts : IsMap(Content[d])
  /\ First \in Publishable
  /\ MaxSeconds \in Nat \ {0} /\ MaxEdits \in Nat /\ MaxLoads \in Nat

VARIABLES
  phase,     \* phase[p]: how far p's request has come
  row,       \* row[p]: the row p publishes
  seen,      \* seen[p]: the active rows of its map that p has read
  read,      \* read[p]: the target rows p has read
  active,    \* active rows of site_maps
  published, \* history: all the rows there have been
  targets,   \* target_registry
  second,    \* the clock
  name,      \* name[p]: the scene's version, read before the Hub is asked
  scenes,    \* versions that have a scene in the Hub
  entities,  \* rows whose robots and targets are in the Hub
  status,    \* status[p]: of the Hub synchronisation
  loads,     \* number of publications begun: a finer clock, for updated_at
  disturbed, \* history: publishers at work that another or an edit has overlapped
  edits      \* number of edits, which are bounded

vars == <<phase, row, seen, read, active, published, targets, second, name, scenes,
          entities, status, loads, disturbed, edits>>
request == <<row, seen, read>>
base == <<active, published, targets>>
hub == <<name, scenes, entities, status>>
env == <<second, loads, edits>>

MapOf(r) == Content[r.draft].id
\* Mutant: the oldest active row is taken.
OldestActive == CHOOSE r \in active : \A q \in active : q.stamp >= r.stamp

\* current_map: the active row, of whatever map, that was written last.
Current == CHOOSE r \in active : \A q \in active : q.stamp <= r.stamp
Busy == {p \in Publishers : phase[p] # "idle"}
\* The rows p has read can be locked.
Free(p) == \A q \in Publishers : phase[q] = "flushed" => seen[p] \cap seen[q] = {}

\* What the registry holds of a map when it agrees with it.
Desired(r) == DOMAIN TargetsOf[r.draft]
Wanted(r, id) ==
  [map |-> MapOf(r), own |-> TRUE, status |-> TargetsOf[r.draft][id],
   version |-> r.version]

\* target_registry_sync_issues finds none.
Agrees(r) ==
  \A id \in TargetIds :
    LET t == targets[id]
        its == t.own /\ t.map = MapOf(r)
    IN /\ id \in Desired(r) => /\ its /\ t.version = r.version
                               /\ t.status = TargetsOf[r.draft][id]
       /\ its /\ t.status = "active" => id \in Desired(r) /\ t.version = r.version

FirstRow == [draft |-> First, version |-> 0, stamp |-> 0]

TypeOK ==
  /\ phase \in [Publishers -> Phases]
  /\ row \in [Publishers -> Rows]
  /\ seen \in [Publishers -> SUBSET Rows]
  /\ read \in [Publishers -> [TargetIds -> TargetRows]]
  /\ active \subseteq published /\ published \subseteq Rows
  /\ targets \in [TargetIds -> TargetRows]
  /\ second \in Seconds
  /\ name \in [Publishers -> 0..MaxSeconds]
  /\ scenes \subseteq 0..MaxSeconds /\ entities \subseteq Rows
  /\ status \in [Publishers -> {"none", "failed", "partial", "synced"}]
  /\ loads \in 0..MaxLoads /\ disturbed \subseteq Publishers
  /\ edits \in 0..MaxEdits

NothingRead == [id \in TargetIds |-> NoTarget]

Init ==
  /\ phase = [p \in Publishers |-> "idle"]
  /\ row = [p \in Publishers |-> FirstRow]
  /\ seen = [p \in Publishers |-> {}]
  /\ read = [p \in Publishers |-> NothingRead]
  /\ active = {FirstRow} /\ published = {FirstRow}
  /\ targets = [id \in TargetIds |->
                  IF id \in Desired(FirstRow) THEN Wanted(FirstRow, id) ELSE NoTarget]
  /\ second = 1
  /\ name = [p \in Publishers |-> 0] /\ scenes = {} /\ entities = {}
  /\ status = [p \in Publishers |-> "none"]
  /\ loads = 0 /\ disturbed = {} /\ edits = 0

-----------------------------------------------------------------------------
Go(p, ph) == phase' = [phase EXCEPT ![p] = ph]

\* A request ends, and its locals with it.
End(p) ==
  /\ Go(p, "idle")
  /\ row' = [row EXCEPT ![p] = FirstRow]
  /\ seen' = [seen EXCEPT ![p] = {}]
  /\ read' = [read EXCEPT ![p] = NothingRead]
  /\ name' = [name EXCEPT ![p] = 0]
  /\ status' = [status EXCEPT ![p] = "none"]
  /\ disturbed' = disturbed \ {p}

Disturb(ps) == disturbed' = disturbed \cup ps

\* A draft with issues is refused (422).  The version is the second; the active rows of
\* the map are to be archived.
Load(p, d) ==
  /\ phase[p] = "idle" /\ d \in Publishable /\ loads < MaxLoads
  /\ LET r == [draft |-> d, version |-> second, stamp |-> loads + 1] IN
     /\ row' = [row EXCEPT ![p] = r]
     /\ seen' = [seen EXCEPT ![p] = {q \in active : MapOf(q) = MapOf(r)}]
  /\ loads' = loads + 1
  /\ Go(p, "loaded")
  /\ Disturb(IF Busy = {} THEN {} ELSE Busy \cup {p})
  /\ UNCHANGED <<read, base, hub, second, edits>>

\* One version of a map in a second: the unique constraint of site_maps, against rows
\* that are committed and, once those are, against rows that are being inserted.
Clashes(r) == \E q \in published : MapOf(q) = MapOf(r) /\ q.version = r.version
Inserting(r) ==
  \E q \in Publishers : /\ phase[q] = "flushed"
                        /\ MapOf(row[q]) = MapOf(r) /\ row[q].version = r.version

\* The rows read are archived and the new one inserted, and the targets are read.
Flush(p) ==
  /\ phase[p] = "loaded"
  /\ Free(p) /\ ~Inserting(row[p]) /\ ~Clashes(row[p])
  /\ read' = [read EXCEPT ![p] = targets]
  /\ Go(p, "flushed")
  /\ UNCHANGED <<row, seen, base, hub, env, disturbed>>

\* Mutant: a target keeps its status, whoever has set it.
AfterStatusKept(p, id) ==
  LET old == read[p][id]
      w == [Wanted(row[p], id) EXCEPT !.status = IF old = NoTarget THEN @ ELSE old.status]
  IN IF id \in Desired(row[p])
     THEN [f \in DOMAIN w |-> IF w[f] # old[f] THEN w[f] ELSE targets[id][f]]
     ELSE IF old.own /\ old.map = MapOf(row[p]) THEN [targets[id] EXCEPT !.status = "inactive"]
     ELSE targets[id]

\* _sync_map_targets: the map's targets are created, restored or taken over from whom
\* has them; its earlier ones that it no longer has are switched off.
After(p, id) ==
  LET old == read[p][id]
      w == Wanted(row[p], id)
  IN IF id \in Desired(row[p])
     THEN [f \in DOMAIN w |-> IF w[f] # old[f] THEN w[f] ELSE targets[id][f]]
     ELSE IF old.own /\ old.map = MapOf(row[p]) /\ old.status # "inactive"
     THEN [targets[id] EXCEPT !.status = "inactive"]
     ELSE targets[id]

\* Somebody has inserted a target that p did not find.
TargetClash(p) ==
  \E id \in Desired(row[p]) : read[p][id] = NoTarget /\ targets[id] # NoTarget

Commit(p) ==
  /\ phase[p] = "flushed" /\ ~TargetClash(p)
  /\ active' = (active \ seen[p]) \cup {row[p]}
  /\ published' = published \cup {row[p]}
  /\ targets' = [id \in TargetIds |-> After(p, id)]
  /\ Go(p, "committed")
  /\ seen' = [seen EXCEPT ![p] = {}]
  /\ read' = [read EXCEPT ![p] = NothingRead]
  /\ UNCHANGED <<row, hub, env, disturbed>>

\* A constraint refuses a row (500): nothing is written.
RollBack(p) ==
  /\ \/ phase[p] = "loaded" /\ Clashes(row[p]) /\ Free(p)
     \/ phase[p] = "flushed" /\ TargetClash(p)
  /\ End(p)
  /\ UNCHANGED <<base, scenes, entities, env>>

\* Mutant: the name is the one that the Hub has a scene of.
NameKept(p) ==
  /\ phase[p] = "committed"
  /\ \E v \in IF scenes = {} THEN {Current.version} ELSE scenes : name' = [name EXCEPT ![p] = v]
  /\ Go(p, "named")
  /\ UNCHANGED <<request, base, scenes, entities, status, env, disturbed>>

\* current_scene_name: of the version that is current, whoever has published it.
Name(p) ==
  /\ phase[p] = "committed"
  /\ name' = [name EXCEPT ![p] = Current.version]
  /\ Go(p, "named")
  /\ UNCHANGED <<request, base, scenes, entities, status, env, disturbed>>

\* The Hub is switched off (skipped), does not answer, or the scene is not synchronised.
HubFails(p) ==
  /\ phase[p] = "named"
  /\ status' = [status EXCEPT ![p] = "failed"]
  /\ Go(p, "synced")
  /\ UNCHANGED <<request, base, name, scenes, entities, env, disturbed>>

\* sync_scene, of the map that is current.
SyncScene(p) ==
  /\ phase[p] = "named"
  /\ scenes' = scenes \cup {Current.version}
  /\ Go(p, "scene")
  /\ UNCHANGED <<request, base, name, entities, status, env, disturbed>>

\* sync_entities synchronises the scene again, then robots and targets.
SyncEntities(p) ==
  /\ phase[p] = "scene"
  /\ \/ /\ scenes' = scenes \cup {Current.version}
        /\ entities' = entities \cup {Current}
        /\ status' = [status EXCEPT ![p] = "synced"]
     \/ /\ UNCHANGED <<scenes, entities>>
        /\ status' = [status EXCEPT ![p] = "partial"]
  /\ Go(p, "synced")
  /\ UNCHANGED <<request, base, name, env, disturbed>>

\* broadcast_scene_update: the robots are told, however the Hub has fared.
Tell(p) ==
  /\ phase[p] = "synced"
  /\ End(p)
  /\ UNCHANGED <<base, scenes, entities, env>>

\* The process ends; what was not committed is rolled back.
Crash(p) ==
  /\ p \in Busy
  /\ End(p)
  /\ UNCHANGED <<base, scenes, entities, env>>

\* A target is added by hand, for some map, with any source; 409 if there is one.
CreateTarget(id) ==
  /\ edits < MaxEdits /\ targets[id] = NoTarget
  /\ \E m \in MapIds, own \in BOOLEAN :
       targets' = [targets EXCEPT ![id] = [map |-> m, own |-> own, status |-> "active",
                                           version |-> 0]]
  /\ edits' = edits + 1 /\ Disturb(Busy)
  /\ UNCHANGED <<phase, request, active, published, hub, second, loads>>

\* Or its status is changed; to delete one is to set its status to deleted.
UpdateTarget(id) ==
  /\ edits < MaxEdits /\ targets[id] # NoTarget
  /\ \E s \in {"active", "inactive", "deleted"} :
       targets' = [targets EXCEPT ![id].status = s]
  /\ edits' = edits + 1 /\ Disturb(Busy)
  /\ UNCHANGED <<phase, request, active, published, hub, second, loads>>

Tick ==
  /\ second < MaxSeconds
  /\ second' = second + 1
  /\ UNCHANGED <<phase, request, base, hub, loads, edits, disturbed>>

Next ==
  \/ \E p \in Publishers :
       \/ \E d \in Drafts : Load(p, d)
       \/ Flush(p) \/ Commit(p) \/ RollBack(p) \/ Name(p)
       \/ HubFails(p) \/ SyncScene(p) \/ SyncEntities(p) \/ Tell(p) \/ Crash(p)
  \/ \E id \in Edited : CreateTarget(id) \/ UpdateTarget(id)
  \/ Tick

-----------------------------------------------------------------------------
\* The validator against what a robot needs: edges join two path nodes of the map, no
\* node is without an edge, and the edges of each group, in some order, are a way that
\* can be driven from the first to the last.
Drivable(m) ==
  LET from(id) == (CHOOSE e \in Members(m.edges) : e.id = id).from
      to(id) == (CHOOSE e \in Members(m.edges) : e.id = id).to
  IN /\ \A e \in Members(m.edges) : {e.from, e.to} \subseteq PathNodes(m) /\ e.from # e.to
     /\ Cardinality(PathNodes(m)) > 1 =>
          PathNodes(m) \subseteq UNION {{e.from, e.to} : e \in Members(m.edges)}
     /\ \A g \in Members(m.groups) :
          \E way \in [DOMAIN g.edges -> Members(g.edges)] :
            /\ \A id \in Members(g.edges) : id \in Ids(m.edges) /\ \E i \in DOMAIN way : way[i] = id
            /\ \A i \in 1..(Len(g.edges) - 1) : to(way[i]) = from(way[i + 1])

DrivableDrafts == {d \in Drafts : Drivable(WithDefaultGroups(Content[d]))}

\* Only maps on which robots can drive every path group are ever published, also when a
\* draft is imported without a check and whatever default groups it gets (publish_map_draft).
PublishedIsDrivable == {r.draft : r \in published} \subseteq DrivableDrafts

\* A publication that overlapped no other and no edit leaves order, whatever earlier ones
\* that overlapped have left: its version is the only active one of its map and the
\* current one, and the target registry agrees with it (publish_draft, _sync_map_targets).
AloneLeavesOrder ==
  [][\A p \in Publishers :
       phase[p] = "flushed" /\ phase'[p] = "committed" /\ p \notin disturbed
         => /\ {r \in active' : MapOf(r) = MapOf(row[p])} = {row[p]}
            /\ Current' = row[p]
            /\ Agrees(row[p])']_vars

\* However publications overlap, there is an active map, and the current one gives way
\* only to one published later (publish_draft, current_map).
CurrentOnlyAdvances == [][active' # {} /\ Current'.stamp >= Current.stamp]_vars

\* What a publisher tells the robots and the answer are true when it was alone: the scene
\* is that of the version it has published, and if the answer says synced, the Hub has its
\* scene, robots and targets (sync_hub_after_map_publish, broadcast_scene_update).
AloneTellsTruth ==
  [][\A p \in Publishers :
       phase[p] = "synced" /\ phase'[p] = "idle" /\ p \notin disturbed
         => /\ name[p] = row[p].version
            /\ status[p] = "synced" => row[p].version \in scenes /\ row[p] \in entities]_vars

-----------------------------------------------------------------------------
Spec == Init /\ [][Next]_vars
=============================================================================
