--------------------------- MODULE SemanticMemory ---------------------------
(***************************************************************************)
(* The semantic memory (dcmdb.rs) and the forest of context triangles over *)
(* it (triangle.rs), as the heart drives them (heart.rs): every observed   *)
(* event joins nodes, maintenance merges and prunes nodes, and compaction  *)
(* folds the leaves of a turn into a few roots.  Maintenance and compaction*)
(* hold the projection gate from reading the saved state to saving it, so  *)
(* they work on a copy, `work', and nothing of it exists if they fail or   *)
(* the process dies.                                                       *)
(*                                                                         *)
(* Vectors, weights and times are abstracted to choices: which nodes are   *)
(* near, which pair is coherent, which weight has decayed.  The graph keeps*)
(* every edge whose weight the code might find to be zero, so it holds at  *)
(* least the identifiers that the code's graph holds.                      *)
(***************************************************************************)
EXTENDS Integers, Sequences, FiniteSets

CONSTANTS
  MaxNodes,     \* nodes ever spawned (bound)
  MaxEvents,    \* events observed, numbered by device sequence (bound)
  PmiNeighbors, \* config.pmi_neighbors
  TargetRoots,  \* roots that compaction aims at
  MaxCrashes    \* crashes of the process (bound)

ASSUME MemoryBounds == MaxNodes \in Nat /\ MaxEvents \in Nat

VARIABLES
  memory,  \* the saved Dcmdb
  forest,  \* the saved ContextForest: triangles, in the order they were made, and roots
  work,    \* the copy that the holder of the projection gate works on
  leaves,  \* ContextLeaf values of this turn that are not compacted yet
  held,    \* root handles that a reader took from an earlier state
  clock,   \* events observed
  crashes

memoryVars == <<memory, forest, work, leaves, held, clock, crashes>>

Node == 1..MaxNodes

OnNode(n) == <<"node", n>>
OnTriangle(t) == <<"triangle", t>>

Branch(handle, first, last) == [handle |-> handle, first |-> first, last |-> last]

\* Nobody holds the gate.
NoWork == [task |-> "none"]

----------------------------------------------------------------------------
(* Dcmdb.                                                                  *)

EmptyMemory ==
  [live |-> {}, absorbed |-> {}, events |-> [n \in Node |-> {}], children |-> [n \in Node |-> {}],
   visits |-> {}, together |-> {}, graph |-> {}, spawned |-> 0]

\* Dcmdb::node: a node is found among the live ones or the absorbed ones.
Found(m, n) == n \in m.live \cup m.absorbed

\* Pairs of two different members, in both orders.
Pairs(S) == {p \in S \X S : p[1] # p[2]}

\* Dcmdb::record_coactivation and refresh_edges.
Coactivated(m, S) ==
  [m EXCEPT !.visits = @ \cup S,
            !.together = @ \cup Pairs(S),
            !.graph = @ \cup m.together \cup Pairs(S)]

\* Dcmdb::spawn.
Spawned(m, e) ==
  LET n == m.spawned + 1
  IN [m EXCEPT !.live = @ \cup {n}, !.events[n] = {e}, !.visits = @ \cup {n}, !.spawned = n]

\* Dcmdb::update_node of every candidate.
Updated(m, S, e) ==
  [m EXCEPT !.events = [n \in Node |-> IF n \in S THEN @[n] \cup {e} ELSE @[n]]]

\* The events of the node that remains after a merge.
Inherited(m, left, right) == m.events[left] \cup m.events[right]

\* Mutation of Merged: the merge leaves the coactivations of the absorbed node behind.
MergedKeepingPairs(m, left, right) ==
  [m EXCEPT
     !.live = @ \ {right},
     !.absorbed = @ \cup {right},
     !.events[left] = Inherited(m, left, right),
     !.children[left] = @ \cup {right} \cup m.children[right],
     !.visits = (@ \ {right}) \cup {left},
     !.graph = {p \in @ : right \notin {p[1], p[2]}}]

\* Dcmdb::merge_nodes: edges, counts, events and children of right are folded into left.
Merged(m, left, right) ==
  LET others(R) == {n \in m.live \ {left, right} : <<right, n>> \in R}
      without(R) == {p \in R : right \notin {p[1], p[2]}}
      both(S) == (S \X {left}) \cup ({left} \X S)
  IN [m EXCEPT
        !.live = @ \ {right},
        !.absorbed = @ \cup {right},
        !.events[left] = Inherited(m, left, right),
        !.children[left] = @ \cup {right} \cup m.children[right],
        !.visits = (@ \ {right}) \cup {left},
        !.graph = without(@) \cup both(others(@)),
        !.together = without(@) \cup both(others(@))]

\* Dcmdb::prune_pass_protected for the faded nodes.
Pruned(m, faded) ==
  LET without(R) == {p \in R : p[1] \notin faded /\ p[2] \notin faded}
  IN [m EXCEPT !.live = @ \ faded, !.visits = @ \ faded,
               !.graph = without(@), !.together = without(@)]

\* Dcmdb::dream_with_policy: walks go along the edges of the graph, and the nodes of a walk are
\* coactivated.
Walkable(m, S) ==
  /\ S \subseteq m.live
  /\ \A n \in S : \E other \in S : <<n, other>> \in m.graph \/ <<other, n>> \in m.graph

\* Dcmdb::check_invariants reports nothing.
Checked(m) ==
  /\ m.visits \subseteq m.live
  /\ m.together \cup m.graph \subseteq m.live \X m.live

----------------------------------------------------------------------------
(* ContextForest.                                                          *)

\* ContextForest::collect_referenced_nodes: the coordinates under a triangle and under a handle; a
\* triangle is made after its branches.
Under(triangles) ==
  LET under[t \in 0..Len(triangles)] ==
        IF t = 0 THEN {}
        ELSE {triangles[t].apex} \cup
             UNION {IF h[1] = "node" THEN {h[2]} ELSE under[h[2]] :
                      h \in {triangles[t].left, triangles[t].right}}
  IN under

NodesUnder(triangles, handle) ==
  IF handle[1] = "node" THEN {handle[2]} ELSE Under(triangles)[handle[2]]

\* Mutation of Referenced: only what the roots name themselves.
ReferencedByRoots(f) ==
  {IF r.handle[1] = "node" THEN r.handle[2] ELSE f.triangles[r.handle[2]].apex : r \in f.roots}

\* ContextForest::referenced_nodes.
Referenced(f) == UNION {NodesUnder(f.triangles, r.handle) : r \in f.roots}

\* ContextForest::verify_handle.
Resolves(m, triangles, handle) ==
  IF handle[1] = "node" THEN Found(m, handle[2]) ELSE handle[2] \in DOMAIN triangles

\* ContextForest::verify and verify_triangle.
Verified(m, f) ==
  /\ \A t \in DOMAIN f.triangles :
       /\ Found(m, f.triangles[t].apex)
       /\ Resolves(m, f.triangles, f.triangles[t].left)
       /\ Resolves(m, f.triangles, f.triangles[t].right)
       /\ f.triangles[t].left # f.triangles[t].right
  /\ \A r \in f.roots : Resolves(m, f.triangles, r.handle)

\* coalesce_branches: one branch for a handle, over the time of both.
Coalesced(branches) ==
  {LET same == {b \in branches : b.handle = h}
   IN Branch(h, CHOOSE x \in {b.first : b \in same} : \A b \in same : x <= b.first,
                CHOOSE x \in {b.last : b \in same} : \A b \in same : x >= b.last) :
     h \in {b.handle : b \in branches}}

\* branch_order: by start, then end, then handle.
Before(a, b) ==
  \/ a.first < b.first
  \/ a.first = b.first /\ a.last < b.last
  \/ a.first = b.first /\ a.last = b.last /\ a.handle[1] = "node" /\ b.handle[1] = "triangle"
  \/ a.first = b.first /\ a.last = b.last /\ a.handle[1] = b.handle[1] /\ a.handle[2] < b.handle[2]

----------------------------------------------------------------------------
MemoryInit ==
  /\ memory = EmptyMemory
  /\ forest = [triangles |-> <<>>, roots |-> {}]
  /\ work = NoWork
  /\ leaves = {}
  /\ held = {}
  /\ clock = 0
  /\ crashes = 0

\* Dcmdb::update_with_policy through CognitiveState::observe.  The nodes near enough take the
\* event; the nearest one may split under tension; with none near enough a node is spawned.  The
\* caller keeps the node that it is told of as a leaf of the turn.
Observe(near, related, split) ==
  LET e == clock + 1
      spawns == near = {} \/ split
      m == Coactivated(Updated(memory, near, e), related)
  IN /\ work = NoWork
     /\ clock < MaxEvents
     /\ spawns => memory.spawned < MaxNodes
     /\ memory' = IF spawns THEN Spawned(m, e) ELSE m
     /\ \E winner \in IF spawns THEN {memory.spawned + 1} ELSE near :
          leaves' = leaves \cup {Branch(OnNode(winner), e, e)}
     /\ clock' = e
     /\ UNCHANGED <<forest, work, held, crashes>>

\* SpineHeart::maintain_cognition takes the gate and asks the forest which nodes to spare.
BeginMaintenance ==
  /\ work = NoWork
  /\ Verified(memory, forest)
  /\ work' = [task |-> "maintain", memory |-> memory, spared |-> Referenced(forest), pruned |-> FALSE]
  /\ UNCHANGED <<memory, forest, leaves, held, clock, crashes>>

\* Dcmdb::consolidate_with_policy, in a round before or after the dream or in the dream itself.
Consolidate(left, right) ==
  /\ work.task = "maintain"
  /\ {left, right} \subseteq work.memory.live
  /\ left # right
  /\ work' = [work EXCEPT !.memory = Merged(@, left, right)]
  /\ UNCHANGED <<memory, forest, leaves, held, clock, crashes>>

\* Dcmdb::maintain_using_policy: after the first rounds, prune what has faded and dream.
PruneAndDream(faded, walked) ==
  /\ work.task = "maintain" /\ ~work.pruned
  /\ faded \subseteq work.memory.live \ work.spared
  /\ Walkable(Pruned(work.memory, faded), walked)
  /\ work' = [work EXCEPT !.memory = Coactivated(Pruned(@, faded), walked), !.pruned = TRUE]
  /\ UNCHANGED <<memory, forest, leaves, held, clock, crashes>>

\* The end of maintain_cognition: saved only if both checks pass.
EndMaintenance ==
  /\ work.task = "maintain" /\ work.pruned
  /\ memory' = IF Checked(work.memory) /\ Verified(work.memory, forest) THEN work.memory ELSE memory
  /\ work' = NoWork
  /\ UNCHANGED <<forest, leaves, held, clock, crashes>>

\* SpineHeart::compact_context with the leaves of the turn.  One leaf whose node is gone fails the
\* whole compaction, and the turn does not try again.
BeginCompaction ==
  /\ work = NoWork
  /\ leaves # {}
  /\ work' = IF \A leaf \in leaves : Found(memory, leaf.handle[2])
             THEN [task |-> "compact", triangles |-> forest.triangles,
                   roots |-> Coalesced(forest.roots \cup leaves)]
             ELSE NoWork
  /\ leaves' = {}
  /\ UNCHANGED <<memory, forest, held, clock, crashes>>

\* ContextForest::compact joins the strongest pair under a coherent live apex.
Join(a, b, apex) ==
  LET triangle == [apex |-> apex, left |-> a.handle, right |-> b.handle,
                   first |-> IF a.first < b.first THEN a.first ELSE b.first,
                   last |-> IF a.last > b.last THEN a.last ELSE b.last]
  IN /\ work.task = "compact"
     /\ Cardinality(work.roots) > TargetRoots
     /\ {a, b} \subseteq work.roots /\ Before(a, b)
     /\ apex \in memory.live
     /\ triangle \notin {work.triangles[t] : t \in DOMAIN work.triangles}
     /\ work' = [work EXCEPT
                   !.triangles = Append(@, triangle),
                   !.roots = (@ \ {a, b}) \cup
                     {Branch(OnTriangle(Len(work.triangles) + 1), triangle.first, triangle.last)}]
     /\ UNCHANGED <<memory, forest, leaves, held, clock, crashes>>

\* The end of compact, at the target or with no coherent pair left, and the save.
EndCompaction ==
  /\ work.task = "compact"
  /\ LET f == [triangles |-> work.triangles, roots |-> work.roots]
     IN forest' = IF Verified(memory, f) THEN f ELSE forest
  /\ work' = NoWork
  /\ UNCHANGED <<memory, leaves, held, clock, crashes>>

\* rehydrate_triangle_context_for_goal reads the state once for the roots, and then each root again
\* from the state of that moment.
ReadRoots ==
  /\ held' = {r.handle : r \in forest.roots}
  /\ UNCHANGED <<memory, forest, work, leaves, clock, crashes>>

\* The process dies: what is saved is what remains.
Crash ==
  /\ crashes < MaxCrashes
  /\ work # NoWork \/ leaves # {}
  /\ crashes' = crashes + 1
  /\ work' = NoWork
  /\ leaves' = {}
  /\ held' = {}
  /\ UNCHANGED <<memory, forest, clock>>

MemoryNext ==
  \/ \E near \in SUBSET memory.live, related \in SUBSET memory.live, split \in BOOLEAN :
       Cardinality(related) <= PmiNeighbors /\ Observe(near, related, split)
  \/ BeginMaintenance
  \/ \E left, right \in Node : Consolidate(left, right)
  \/ \E faded \in SUBSET Node, walked \in SUBSET Node : PruneAndDream(faded, walked)
  \/ EndMaintenance
  \/ BeginCompaction
  \/ work.task = "compact" /\ \E a, b \in work.roots, apex \in Node : Join(a, b, apex)
  \/ EndCompaction
  \/ ReadRoots
  \/ Crash

MemorySpec == MemoryInit /\ [][MemoryNext]_memoryVars

----------------------------------------------------------------------------
(* Properties.                                                             *)

\* Nothing in the memory speaks of a node that is gone: visits, coactivations and graph edges are
\* of live nodes only, in the saved state and at every point of a maintenance.  This is what
\* check_invariants asks after the fact (dcmdb.rs:1086); a maintenance that broke it would be
\* refused, and refused again at every later attempt.  And evidence survives consolidation: a node
\* that absorbed others holds all their events (subtree_event_ids relies on it, dcmdb.rs:648), no
\* node is below itself, and a live node is below none.
MemorySound ==
  /\ Checked(memory) /\ (work.task = "maintain" => Checked(work.memory))
  /\ \A n \in memory.live : \A child \in memory.children[n] :
       /\ memory.events[child] \subseteq memory.events[n]
       /\ child \notin memory.live
       /\ n \notin memory.children[child]

\* What the context addresses stays: every coordinate under a root, and under a root that a reader
\* took from an earlier state, is found in the memory of now and of the maintenance in progress,
\* and the first and the last event of a root are still held by nodes under it.
ContextResolves ==
  LET m == IF work.task = "maintain" THEN work.memory ELSE memory
  IN /\ Verified(m, forest)
     /\ \A h \in held \cup {r.handle : r \in forest.roots} :
          \A n \in NodesUnder(forest.triangles, h) : Found(m, n)
     /\ \A r \in forest.roots :
          {r.first, r.last} \subseteq UNION {m.events[n] : n \in NodesUnder(forest.triangles, r.handle)}
=============================================================================
