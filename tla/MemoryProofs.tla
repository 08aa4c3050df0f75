---------------------------- MODULE MemoryProofs ----------------------------
(***************************************************************************)
(* Proofs about the semantic memory, the context forest, the grounding of  *)
(* answers and the typed facts, for every number of nodes, events, neigh-  *)
(* bours, target roots, turns, utterances and crashes: what a root of the  *)
(* context reaches is never lost, whatever maintenance merges and prunes   *)
(* and whatever compaction folds, the memory itself never speaks of a node *)
(* that is gone, what the model says never becomes evidence for what it    *)
(* says, and the facts are those of an extraction of the whole log.        *)
(*                                                                         *)
(* The inductive invariant of the memory is ContextInv, after its lemmas:  *)
(* it adds to the two properties what they rest on, that triangles are made*)
(* only of nodes and of earlier triangles (Grounded), that the maintenance *)
(* in progress carries every node and event the saved forest names         *)
(* (Carries), and that the compaction in progress only adds triangles and  *)
(* still reaches all that the saved roots reach (Extended).                *)
(***************************************************************************)
EXTENDS SemanticMemory, Facts, Grounding, NumberLemmas, FiniteSetTheorems, TLAPS

-----------------------------------------------------------------------------
(* What is under a handle.                                                 *)
(*                                                                         *)
(* Under is a recursive function.  That there is one at all, and that a    *)
(* triangle appended to the list changes nothing for the triangles before  *)
(* it, holds because every triangle is made of nodes and of triangles      *)
(* before it: the least triangle for which it failed would be a contra-    *)
(* diction.                                                                *)

\* What stands in Under at t, for any function of the triangles before it.
UnderAt(ts, g, t) ==
  IF t = 0 THEN {}
  ELSE {ts[t].apex} \cup
       UNION {IF h[1] = "node" THEN {h[2]} ELSE g[h[2]] : h \in {ts[t].left, ts[t].right}}

Piece(g, h) == IF h[1] = "node" THEN {h[2]} ELSE g[h[2]]

\* A handle of a node or of one of the first n triangles.
Addresses(h, n) ==
  (\E k \in Node : h = OnNode(k)) \/ (\E t \in 1..n : h = OnTriangle(t))

IsTriangle(x, n) == Addresses(x.left, n) /\ Addresses(x.right, n)

Grounded(ts) ==
  /\ \E S : ts \in Seq(S)
  /\ \A t \in DOMAIN ts : IsTriangle(ts[t], t - 1)

LEMMA UnderChosen ==
  ASSUME NEW ts
  PROVE  Under(ts) = CHOOSE g : g = [t \in 0..Len(ts) |-> UnderAt(ts, g, t)]
BY DEF Under, UnderAt

LEMMA UnderPieces ==
  ASSUME NEW ts, NEW g, NEW t, t # 0
  PROVE  UnderAt(ts, g, t) = {ts[t].apex} \cup Piece(g, ts[t].left) \cup Piece(g, ts[t].right)
BY DEF UnderAt, Piece

LEMMA PieceSame ==
  ASSUME NEW n \in Nat, NEW h, Addresses(h, n), NEW f, NEW g, \A t \in 1..n : f[t] = g[t]
  PROVE  Piece(f, h) = Piece(g, h)
<1>1. CASE \E k \in Node : h = OnNode(k)
  BY <1>1 DEF Piece, OnNode
<1>2. CASE \E t \in 1..n : h = OnTriangle(t)
  <2>1. PICK t \in 1..n : h = OnTriangle(t)
    BY <1>2
  <2>2. h[1] = "triangle" /\ h[2] = t
    BY <2>1 DEF OnTriangle
  <2> QED
    BY <2>2 DEF Piece
<1> QED
  BY <1>1, <1>2 DEF Addresses

SameTriangle(ts, us, t) == t # 0 => ts[t] = us[t] /\ IsTriangle(ts[t], t - 1)

SameBelow(f, g, t) == \A k \in 1..(t - 1) : f[k] = g[k]

LEMMA UnderSame ==
  ASSUME NEW ts, NEW us, NEW t \in Nat, SameTriangle(ts, us, t), NEW f, NEW g, SameBelow(f, g, t)
  PROVE  UnderAt(ts, f, t) = UnderAt(us, g, t)
<1>1. CASE t = 0
  BY <1>1 DEF UnderAt
<1>2. CASE t # 0
  <2>1. t - 1 \in Nat
    BY <1>2
  <2>2. PICK x : x = ts[t] /\ x = us[t] /\ Addresses(x.left, t - 1) /\ Addresses(x.right, t - 1)
    BY <1>2 DEF IsTriangle, SameTriangle
  <2>3. Piece(f, x.left) = Piece(g, x.left) /\ Piece(f, x.right) = Piece(g, x.right)
    BY <2>1, <2>2, PieceSame DEF SameBelow
  <2>4. UnderAt(ts, f, t) = {x.apex} \cup Piece(f, x.left) \cup Piece(f, x.right)
    <3>1. UnderAt(ts, f, t) = {ts[t].apex} \cup Piece(f, ts[t].left) \cup Piece(f, ts[t].right)
      BY <1>2, UnderPieces
    <3> QED
      BY <2>2, <3>1
  <2>5. UnderAt(us, g, t) = {x.apex} \cup Piece(g, x.left) \cup Piece(g, x.right)
    BY <1>2, <2>2, UnderPieces
  <2> QED
    BY <2>3, <2>4, <2>5
<1> QED
  BY <1>1, <1>2

Solves(ts, n, g) == g = [t \in 0..n |-> UnderAt(ts, g, t)]

LEMMA UnderExists ==
  ASSUME NEW ts, Grounded(ts)
  PROVE  \E g : Solves(ts, Len(ts), g)
<1>1. Len(ts) \in Nat /\ DOMAIN ts = 1..Len(ts)
  BY DEF Grounded
<1> DEFINE Bad == {n \in 0..Len(ts) : ~\E g : Solves(ts, n, g)}
<1>0. Len(ts) \in 0..Len(ts)
  BY <1>1
<1> SUFFICES ASSUME Bad # {} PROVE FALSE
  BY <1>0
<1>1a. Bad \in SUBSET Nat
  BY <1>1
<1>2. PICK n \in Bad : \A m \in Bad : n <= m
  <2> HIDE DEF Bad
  <2> QED BY <1>1a, LeastNatural
<1>3. n \in 0..Len(ts) /\ ~\E g : Solves(ts, n, g)
  BY <1>2
<1>4. n # 0
  <2>1. PICK g : g = [t \in 0..0 |-> {}]
    OBVIOUS
  <2>2. \A t \in 0..0 : UnderAt(ts, g, t) = {}
    BY DEF UnderAt
  <2>3. Solves(ts, 0, g)
    BY <2>1, <2>2 DEF Solves
  <2> QED
    BY <1>3, <2>3
<1>5. n - 1 \in 0..Len(ts) /\ n - 1 \notin Bad
  BY <1>1, <1>2, <1>3, <1>4
<1>6. PICK f : Solves(ts, n - 1, f)
  BY <1>5
<1>7. PICK g : g = [t \in 0..n |-> IF t = n THEN UnderAt(ts, f, n) ELSE f[t]]
  OBVIOUS
<1>8. \A t \in 0..n : g[t] = UnderAt(ts, f, t)
  <2> SUFFICES ASSUME NEW t \in 0..n PROVE g[t] = UnderAt(ts, f, t)
    OBVIOUS
  <2>1. CASE t = n
    BY <1>7, <2>1
  <2>2. CASE t # n
    <3>1. t \in 0..(n - 1)
      BY <1>3, <2>2
    <3>2. f[t] = UnderAt(ts, f, t)
      BY <1>6, <3>1 DEF Solves
    <3> QED
      BY <1>7, <2>2, <3>2
  <2> QED
    BY <2>1, <2>2
<1>9. \A t \in 0..n : UnderAt(ts, f, t) = UnderAt(ts, g, t)
  <2> SUFFICES ASSUME NEW t \in 0..n PROVE UnderAt(ts, f, t) = UnderAt(ts, g, t)
    OBVIOUS
  <2>1. SameBelow(f, g, t)
    <3>1. \A k \in 1..(t - 1) : k \in 0..n /\ k # n
      BY <1>3
    <3> QED
      BY <1>7, <3>1 DEF SameBelow
  <2>2. SameTriangle(ts, ts, t)
    BY <1>1, <1>3 DEF Grounded, SameTriangle
  <2>3. t \in Nat
    BY <1>3
  <2> QED
    BY <2>1, <2>2, <2>3, UnderSame
<1>10. Solves(ts, n, g)
  <2>1. \A t \in 0..n : g[t] = UnderAt(ts, g, t)
    BY <1>8, <1>9
  <2>2. g = [t \in 0..n |-> g[t]]
    BY <1>7
  <2> QED
    BY <2>1, <2>2 DEF Solves
<1> QED
  BY <1>3, <1>10

LEMMA UnderSolves ==
  ASSUME NEW ts, Grounded(ts)
  PROVE  \A t \in 0..Len(ts) : Under(ts)[t] = UnderAt(ts, Under(ts), t)
<1>1. \E g : g = [t \in 0..Len(ts) |-> UnderAt(ts, g, t)]
  BY UnderExists DEF Solves
<1>2. PICK u : u = Under(ts)
  OBVIOUS
<1>3. u = [t \in 0..Len(ts) |-> UnderAt(ts, u, t)]
  BY <1>1, <1>2, UnderChosen
<1> QED
  BY <1>2, <1>3

LEMMA GroundedAppend ==
  ASSUME NEW ts, Grounded(ts), NEW x, IsTriangle(x, Len(ts))
  PROVE  /\ Grounded(Append(ts, x)) /\ Len(Append(ts, x)) = Len(ts) + 1
         /\ Len(ts) \in Nat /\ DOMAIN ts = 1..Len(ts)
         /\ DOMAIN Append(ts, x) = 1..(Len(ts) + 1)
         /\ Append(ts, x)[Len(ts) + 1] = x
         /\ \A t \in 1..Len(ts) : Append(ts, x)[t] = ts[t]
<1>1. PICK S : ts \in Seq(S)
  BY DEF Grounded
<1>2. ts \in Seq(S \cup {x}) /\ Len(ts) \in Nat /\ DOMAIN ts = 1..Len(ts)
  BY <1>1
<1>3. PICK us : us = Append(ts, x)
  OBVIOUS
<1>4. /\ us \in Seq(S \cup {x}) /\ Len(us) = Len(ts) + 1 /\ DOMAIN us = 1..(Len(ts) + 1)
      /\ us[Len(ts) + 1] = x
      /\ \A t \in 1..Len(ts) : us[t] = ts[t]
  BY <1>2, <1>3
<1>5. \A t \in DOMAIN us : IsTriangle(us[t], t - 1)
  <2> SUFFICES ASSUME NEW t \in DOMAIN us PROVE IsTriangle(us[t], t - 1)
    OBVIOUS
  <2>1. CASE t = Len(ts) + 1
    <3>1. t - 1 = Len(ts)
      BY <1>2, <2>1
    <3> QED
      BY <1>4, <2>1, <3>1
  <2>2. CASE t # Len(ts) + 1
    <3>1. t \in 1..Len(ts)
      BY <1>2, <1>4, <2>2
    <3> QED
      BY <1>2, <1>4, <3>1 DEF Grounded
  <2> QED
    BY <2>1, <2>2
<1> QED
  BY <1>2, <1>3, <1>4, <1>5 DEF Grounded

LEMMA UnderKept ==
  ASSUME NEW ts, Grounded(ts), NEW x, IsTriangle(x, Len(ts))
  PROVE  \A t \in 0..Len(ts) : Under(Append(ts, x))[t] = Under(ts)[t]
<1>1. PICK us : us = Append(ts, x)
  OBVIOUS
<1>2. /\ Grounded(us) /\ Len(us) = Len(ts) + 1 /\ Len(ts) \in Nat /\ DOMAIN ts = 1..Len(ts)
      /\ \A t \in 1..Len(ts) : us[t] = ts[t]
  BY <1>1, GroundedAppend
<1>3. PICK f, g : f = Under(ts) /\ g = Under(us)
  OBVIOUS
<1>4. /\ \A t \in 0..Len(ts) : f[t] = UnderAt(ts, f, t)
      /\ \A t \in 0..Len(ts) : g[t] = UnderAt(us, g, t)
  <2>1. \A t \in 0..Len(ts) : t \in 0..Len(us)
    BY <1>2
  <2> QED
    BY <1>2, <1>3, <2>1, UnderSolves
<1> DEFINE Bad == {t \in 0..Len(ts) : f[t] # g[t]}
<1>4a. Bad = {} => \A t \in 0..Len(ts) : g[t] = f[t]
  OBVIOUS
<1> SUFFICES ASSUME Bad # {} PROVE FALSE
  BY <1>1, <1>3, <1>4a
<1>4b. Bad \in SUBSET Nat
  BY <1>2
<1>5. PICK n \in Bad : \A m \in Bad : n <= m
  <2> HIDE DEF Bad
  <2> QED BY <1>4b, LeastNatural
<1>6. n \in Nat /\ n \in 0..Len(ts) /\ f[n] # g[n]
  BY <1>2, <1>5
<1>7. SameBelow(f, g, n)
  <2> SUFFICES ASSUME NEW k \in 1..(n - 1), f[k] # g[k] PROVE FALSE
    BY DEF SameBelow
  <2>1. k \in Bad /\ k < n
    BY <1>2, <1>6
  <2> QED
    BY <1>2, <1>5, <1>6, <2>1
<1>8. SameTriangle(ts, us, n)
  BY <1>2, <1>6 DEF Grounded, SameTriangle
<1>9. UnderAt(ts, f, n) = UnderAt(us, g, n)
  <2>1. n \in Nat
    BY <1>6
  <2> HIDE DEF Bad
  <2> QED
    BY <1>7, <1>8, <2>1, UnderSame
<1> QED
  BY <1>4, <1>6, <1>9

\* The two facts about NodesUnder that everything else uses.
LEMMA NodesUnderNode ==
  ASSUME NEW ts, NEW n PROVE NodesUnder(ts, OnNode(n)) = {n}
BY DEF NodesUnder, OnNode

LEMMA NodesUnderAppend ==
  ASSUME NEW ts, Grounded(ts), NEW x, IsTriangle(x, Len(ts))
  PROVE  /\ \A h : Addresses(h, Len(ts)) => NodesUnder(Append(ts, x), h) = NodesUnder(ts, h)
         /\ NodesUnder(Append(ts, x), OnTriangle(Len(ts) + 1)) =
              {x.apex} \cup NodesUnder(ts, x.left) \cup NodesUnder(ts, x.right)
<1>1. PICK us : us = Append(ts, x)
  OBVIOUS
<1>2. /\ Grounded(us) /\ Len(us) = Len(ts) + 1 /\ Len(ts) \in Nat /\ us[Len(ts) + 1] = x
  BY <1>1, GroundedAppend
<1>3. PICK f, g : f = Under(ts) /\ g = Under(us)
  OBVIOUS
<1>4. \A t \in 1..Len(ts) : f[t] = g[t]
  <2>1. \A t \in 1..Len(ts) : t \in 0..Len(ts)
    BY <1>2
  <2> QED
    BY <1>1, <1>3, <2>1, UnderKept
<1>5. \A ws, h : NodesUnder(ws, h) = Piece(Under(ws), h)
  BY DEF NodesUnder, Piece
<1>6. \A h : Addresses(h, Len(ts)) => Piece(f, h) = Piece(g, h)
  BY <1>2, <1>4, PieceSame
<1>7. PICK n : n = Len(ts) + 1
  OBVIOUS
<1>8. n # 0 /\ n \in 0..Len(us) /\ us[n] = x
  BY <1>2, <1>7
<1>9. g[n] = UnderAt(us, g, n)
  BY <1>2, <1>3, <1>8, UnderSolves
<1>10. UnderAt(us, g, n) = {x.apex} \cup Piece(g, x.left) \cup Piece(g, x.right)
  BY <1>8, UnderPieces
<1>11. Piece(g, x.left) = Piece(f, x.left) /\ Piece(g, x.right) = Piece(f, x.right)
  BY <1>6 DEF IsTriangle
<1>12. Piece(g, OnTriangle(n)) = g[n]
  BY DEF Piece, OnTriangle
<1> QED
  BY <1>1, <1>3, <1>5, <1>6, <1>7, <1>9, <1>10, <1>11, <1>12

-----------------------------------------------------------------------------
(* The memory.                                                             *)

Memories ==
  [live : SUBSET Node, absorbed : SUBSET Node, events : [Node -> SUBSET (0..MaxEvents)],
   children : [Node -> SUBSET Node], visits : SUBSET Node, together : SUBSET (Node \X Node),
   graph : SUBSET (Node \X Node), spawned : 0..MaxNodes]

\* Every node that is found was spawned, no live node was absorbed or is below another, and what
\* was never spawned is below nothing and above nothing.
Placed(m) ==
  /\ \A n \in m.live \cup m.absorbed : n <= m.spawned
  /\ \A k \in Node : \A c \in m.children[k] : c \notin m.live /\ c <= m.spawned /\ k <= m.spawned

\* A live node holds the events of all that it absorbed.
Inherits(m) == \A n \in m.live : \A c \in m.children[n] : m.events[c] \subseteq m.events[n]

MemoryOK(m) == m \in Memories /\ Checked(m) /\ Placed(m) /\ Inherits(m)

\* From m to k no node of S is lost, and no node loses an event.
Carries(m, k, S) ==
  /\ \A n \in S : Found(m, n) => Found(k, n)
  /\ m.spawned <= k.spawned
  /\ \A n \in Node : n <= m.spawned => m.events[n] \subseteq k.events[n]

LEMMA EmptyMemoryOK == MemoryOK(EmptyMemory)
<1>1. 0 \in 0..MaxNodes
  BY MemoryBounds
<1>2. EmptyMemory \in Memories
  BY <1>1 DEF EmptyMemory, Memories
<1> QED
  BY <1>2 DEF MemoryOK, EmptyMemory, Checked, Placed, Inherits

LEMMA PairsWithin ==
  ASSUME NEW S, NEW T, S \subseteq T
  PROVE  Pairs(S) \subseteq T \X T
BY DEF Pairs

LEMMA CoactivatedFields ==
  ASSUME NEW m, m \in Memories, NEW S, S \subseteq m.live
  PROVE  LET k == Coactivated(m, S)
         IN /\ k \in Memories
            /\ k.live = m.live /\ k.absorbed = m.absorbed
            /\ k.events = m.events /\ k.children = m.children /\ k.spawned = m.spawned
            /\ k.visits = m.visits \cup S
            /\ k.together = m.together \cup Pairs(S)
            /\ k.graph = m.graph \cup m.together \cup Pairs(S)
<1>1. m.live \subseteq Node
  BY DEF Memories
<1>2. Pairs(S) \subseteq Node \X Node
  BY <1>1, PairsWithin
<1> QED
  BY <1>1, <1>2 DEF Coactivated, Memories

LEMMA CoactivatedOK ==
  ASSUME NEW m, MemoryOK(m), NEW S, S \subseteq m.live
  PROVE  MemoryOK(Coactivated(m, S))
<1>1. PICK k : k = Coactivated(m, S)
  OBVIOUS
<1>2. /\ k \in Memories
      /\ k.live = m.live /\ k.absorbed = m.absorbed
      /\ k.events = m.events /\ k.children = m.children /\ k.spawned = m.spawned
      /\ k.visits = m.visits \cup S
      /\ k.together = m.together \cup Pairs(S)
      /\ k.graph = m.graph \cup m.together \cup Pairs(S)
  BY <1>1, CoactivatedFields DEF MemoryOK
<1>3. Pairs(S) \subseteq m.live \X m.live
  BY PairsWithin
<1>4. Checked(k)
  BY <1>2, <1>3 DEF Checked, MemoryOK
<1>5. Placed(k)
  BY <1>2 DEF Placed, MemoryOK
<1>6. Inherits(k)
  BY <1>2 DEF Inherits, MemoryOK
<1> QED
  BY <1>1, <1>2, <1>4, <1>5, <1>6 DEF MemoryOK

LEMMA UpdatedFields ==
  ASSUME NEW m, m \in Memories, NEW S, NEW e \in 0..MaxEvents
  PROVE  LET k == Updated(m, S, e)
         IN /\ k \in Memories
            /\ k.live = m.live /\ k.absorbed = m.absorbed
            /\ k.children = m.children /\ k.spawned = m.spawned
            /\ k.visits = m.visits /\ k.together = m.together /\ k.graph = m.graph
            /\ \A n \in Node : k.events[n] = IF n \in S THEN m.events[n] \cup {e} ELSE m.events[n]
BY DEF Updated, Memories

LEMMA UpdatedOK ==
  ASSUME NEW m, MemoryOK(m), NEW S, S \subseteq m.live, NEW e \in 0..MaxEvents
  PROVE  MemoryOK(Updated(m, S, e))
<1>1. PICK k : k = Updated(m, S, e)
  OBVIOUS
<1>2. /\ k \in Memories
      /\ k.live = m.live /\ k.absorbed = m.absorbed
      /\ k.children = m.children /\ k.spawned = m.spawned
      /\ k.visits = m.visits /\ k.together = m.together /\ k.graph = m.graph
      /\ \A n \in Node : k.events[n] = IF n \in S THEN m.events[n] \cup {e} ELSE m.events[n]
  <2>1. m \in Memories
    BY DEF MemoryOK
  <2> QED
    BY <1>1, <2>1, UpdatedFields
<1>3. Checked(k)
  BY <1>2 DEF Checked, MemoryOK
<1>4. Placed(k)
  BY <1>2 DEF Placed, MemoryOK
<1>5. Inherits(k)
  <2> SUFFICES ASSUME NEW n \in m.live, NEW c \in m.children[n]
               PROVE  k.events[c] \subseteq k.events[n]
    BY <1>2 DEF Inherits
  <2>1. n \in Node /\ c \in Node /\ c \notin m.live
    BY DEF MemoryOK, Memories, Placed
  <2>2. m.events[c] \subseteq m.events[n]
    BY DEF MemoryOK, Inherits
  <2>3. k.events[c] = m.events[c]
    BY <1>2, <2>1
  <2>4. m.events[n] \subseteq k.events[n]
    BY <1>2, <2>1
  <2> QED
    BY <2>2, <2>3, <2>4
<1> QED
  BY <1>1, <1>2, <1>3, <1>4, <1>5 DEF MemoryOK

LEMMA SpawnedFields ==
  ASSUME NEW m, m \in Memories, m.spawned < MaxNodes, NEW e \in 0..MaxEvents
  PROVE  LET k == Spawned(m, e)
         IN /\ k \in Memories
            /\ k.live = m.live \cup {m.spawned + 1} /\ k.absorbed = m.absorbed
            /\ k.children = m.children /\ k.spawned = m.spawned + 1
            /\ k.visits = m.visits \cup {m.spawned + 1}
            /\ k.together = m.together /\ k.graph = m.graph
            /\ k.events[m.spawned + 1] = {e}
            /\ \A n \in Node : n # m.spawned + 1 => k.events[n] = m.events[n]
            /\ m.spawned + 1 \in Node
<1>1. m.spawned + 1 \in Node /\ m.spawned + 1 \in 0..MaxNodes
  BY MemoryBounds DEF Memories, Node
<1>2. PICK n : n = m.spawned + 1
  OBVIOUS
<1>3. Spawned(m, e) = [m EXCEPT !.live = @ \cup {n}, !.events[n] = {e}, !.visits = @ \cup {n},
                                !.spawned = n]
  BY <1>2 DEF Spawned
<1>4. n \in Node /\ n \in 0..MaxNodes
  BY <1>1, <1>2
<1> HIDE DEF Node
<1>5. Spawned(m, e) \in Memories
  <2>1. PICK f : f = [m.events EXCEPT ![n] = {e}]
    OBVIOUS
  <2>2. f \in [Node -> SUBSET (0..MaxEvents)]
    BY <1>4, <2>1 DEF Memories
  <2>3. PICK L, V : L = m.live \cup {n} /\ V = m.visits \cup {n}
    OBVIOUS
  <2>4. L \in SUBSET Node /\ V \in SUBSET Node
    BY <1>4, <2>3 DEF Memories
  <2>5. Spawned(m, e) = [m EXCEPT !.live = L, !.events = f, !.visits = V, !.spawned = n]
    BY <1>3, <2>1, <2>3
  <2> QED
    BY <1>4, <2>2, <2>4, <2>5 DEF Memories
<1> QED
  BY <1>2, <1>3, <1>4, <1>5 DEF Memories

LEMMA SpawnedOK ==
  ASSUME NEW m, MemoryOK(m), m.spawned < MaxNodes, NEW e \in 0..MaxEvents
  PROVE  MemoryOK(Spawned(m, e))
<1>1. PICK k : k = Spawned(m, e)
  OBVIOUS
<1>2. PICK s : s = m.spawned + 1
  OBVIOUS
<1>3. /\ k \in Memories
      /\ k.live = m.live \cup {s} /\ k.absorbed = m.absorbed
      /\ k.children = m.children /\ k.spawned = s
      /\ k.visits = m.visits \cup {s}
      /\ k.together = m.together /\ k.graph = m.graph
      /\ k.events[s] = {e}
      /\ \A n \in Node : n # s => k.events[n] = m.events[n]
      /\ s \in Node
  BY <1>1, <1>2, SpawnedFields DEF MemoryOK
<1>4. m.spawned \in Nat /\ \A n \in Node : n \in Nat
  BY DEF MemoryOK, Memories, Node
<1>5. Checked(k)
  BY <1>3 DEF Checked, MemoryOK
<1>6. Placed(k)
  <2>1. \A n \in Node : n <= m.spawned => n <= s /\ n # s
    BY <1>2, <1>4
  <2>2. s <= s
    BY <1>2, <1>4
  <2>3. m.live \subseteq Node /\ m.absorbed \subseteq Node /\ \A n \in Node : m.children[n] \subseteq Node
    BY DEF MemoryOK, Memories
  <2> QED
    BY <1>3, <2>1, <2>2, <2>3 DEF Placed, MemoryOK
<1>7. Inherits(k)
  <2> SUFFICES ASSUME NEW n \in k.live, NEW c \in m.children[n]
               PROVE  k.events[c] \subseteq k.events[n]
    BY <1>3 DEF Inherits
  <2>1. n \in Node /\ c \in Node
    BY <1>3 DEF MemoryOK, Memories
  <2>2. n <= m.spawned /\ c <= m.spawned
    BY <2>1 DEF MemoryOK, Placed
  <2>3. n # s /\ c # s
    BY <1>2, <1>4, <2>1, <2>2
  <2>4. n \in m.live
    BY <1>3, <2>3
  <2>5. m.events[c] \subseteq m.events[n]
    BY <2>4 DEF MemoryOK, Inherits
  <2> QED
    BY <1>3, <2>1, <2>3, <2>5
<1> QED
  BY <1>1, <1>3, <1>5, <1>6, <1>7 DEF MemoryOK

-----------------------------------------------------------------------------
\* The pairs of R after right is folded into left.
Folded(R, L, left, right) ==
  LET others == {n \in L \ {left, right} : <<right, n>> \in R}
  IN {p \in R : right \notin {p[1], p[2]}} \cup (others \X {left}) \cup ({left} \X others)

LEMMA FoldedWithin ==
  ASSUME NEW L, NEW R, R \subseteq L \X L, NEW left \in L, NEW right \in L, left # right
  PROVE  Folded(R, L, left, right) \subseteq (L \ {right}) \X (L \ {right})
BY DEF Folded

LEMMA MergedFields ==
  ASSUME NEW m, m \in Memories, Checked(m), NEW left \in m.live, NEW right \in m.live, left # right
  PROVE  LET k == Merged(m, left, right)
         IN /\ k \in Memories
            /\ k.live = m.live \ {right} /\ k.absorbed = m.absorbed \cup {right}
            /\ k.spawned = m.spawned
            /\ k.visits = (m.visits \ {right}) \cup {left}
            /\ k.graph = Folded(m.graph, m.live, left, right)
            /\ k.together = Folded(m.together, m.live, left, right)
            /\ k.events[left] = m.events[left] \cup m.events[right]
            /\ \A n \in Node : n # left => k.events[n] = m.events[n]
            /\ k.children[left] = m.children[left] \cup {right} \cup m.children[right]
            /\ \A n \in Node : n # left => k.children[n] = m.children[n]
<1>1. left \in Node /\ right \in Node /\ m.live \subseteq Node
  BY DEF Memories
<1>2. PICK L, A, V, G, T :
        /\ L = m.live \ {right} /\ A = m.absorbed \cup {right} /\ V = (m.visits \ {right}) \cup {left}
        /\ G = Folded(m.graph, m.live, left, right) /\ T = Folded(m.together, m.live, left, right)
  OBVIOUS
<1>3. PICK E : E = [m.events EXCEPT ![left] = m.events[left] \cup m.events[right]]
  OBVIOUS
<1>4. PICK C : C = [m.children EXCEPT ![left] = @ \cup {right} \cup m.children[right]]
  OBVIOUS
<1>5. Merged(m, left, right) =
        [m EXCEPT !.live = L, !.absorbed = A, !.events = E, !.children = C, !.visits = V,
                  !.graph = G, !.together = T]
  BY <1>2, <1>3, <1>4 DEF Merged, Inherited, Folded
<1>6. L \in SUBSET Node /\ A \in SUBSET Node /\ V \in SUBSET Node
  BY <1>1, <1>2 DEF Memories
<1>7. G \in SUBSET (Node \X Node) /\ T \in SUBSET (Node \X Node)
  <2>1. m.graph \subseteq m.live \X m.live /\ m.together \subseteq m.live \X m.live
    BY DEF Checked
  <2>2. G \subseteq L \X L /\ T \subseteq L \X L
    BY <1>2, <2>1, FoldedWithin
  <2>3. L \X L \subseteq Node \X Node
    BY <1>6
  <2> QED
    BY <2>2, <2>3
<1>8. /\ E \in [Node -> SUBSET (0..MaxEvents)]
      /\ E[left] = m.events[left] \cup m.events[right]
      /\ \A n \in Node : n # left => E[n] = m.events[n]
  BY <1>1, <1>3 DEF Memories
<1>9. /\ C \in [Node -> SUBSET Node]
      /\ C[left] = m.children[left] \cup {right} \cup m.children[right]
      /\ \A n \in Node : n # left => C[n] = m.children[n]
  BY <1>1, <1>4 DEF Memories
<1>10. PICK k : k = Merged(m, left, right)
  OBVIOUS
<1>11. /\ k \in Memories
       /\ k.live = L /\ k.absorbed = A /\ k.events = E /\ k.children = C /\ k.visits = V
       /\ k.graph = G /\ k.together = T /\ k.spawned = m.spawned
  BY <1>5, <1>6, <1>7, <1>8, <1>9, <1>10 DEF Memories
<1> QED
  BY <1>2, <1>8, <1>9, <1>10, <1>11

LEMMA MergedOK ==
  ASSUME NEW m, MemoryOK(m), NEW left \in m.live, NEW right \in m.live, left # right
  PROVE  MemoryOK(Merged(m, left, right)) /\ \A S : Carries(m, Merged(m, left, right), S)
         /\ Merged(m, left, right).spawned = m.spawned
<1>1. PICK k : k = Merged(m, left, right)
  OBVIOUS
<1>2. /\ k \in Memories
      /\ k.live = m.live \ {right} /\ k.absorbed = m.absorbed \cup {right}
      /\ k.spawned = m.spawned
      /\ k.visits = (m.visits \ {right}) \cup {left}
      /\ k.graph = Folded(m.graph, m.live, left, right)
      /\ k.together = Folded(m.together, m.live, left, right)
      /\ k.events[left] = m.events[left] \cup m.events[right]
      /\ \A n \in Node : n # left => k.events[n] = m.events[n]
      /\ k.children[left] = m.children[left] \cup {right} \cup m.children[right]
      /\ \A n \in Node : n # left => k.children[n] = m.children[n]
  BY <1>1, MergedFields DEF MemoryOK
<1>3. /\ left \in Node /\ right \in Node /\ m.live \subseteq Node /\ m.spawned \in Nat
      /\ \A n \in Node : m.children[n] \subseteq Node
  BY DEF MemoryOK, Memories
<1>4. Checked(k)
  <2>1. m.graph \subseteq m.live \X m.live /\ m.together \subseteq m.live \X m.live
        /\ m.visits \subseteq m.live
    BY DEF MemoryOK, Checked
  <2>2. k.graph \subseteq k.live \X k.live /\ k.together \subseteq k.live \X k.live
    BY <1>2, <2>1, FoldedWithin
  <2>3. k.visits \subseteq k.live
    BY <1>2, <2>1
  <2> QED
    BY <2>2, <2>3 DEF Checked
<1>5. /\ \A n \in m.live \cup m.absorbed : n <= m.spawned
      /\ \A n \in Node : \A c \in m.children[n] : c \notin m.live /\ c <= m.spawned /\ n <= m.spawned
  BY DEF MemoryOK, Placed
<1>6. Placed(k)
  <2>1. \A n \in k.live \cup k.absorbed : n <= k.spawned
    BY <1>2, <1>5
  <2>2. ASSUME NEW n \in Node, NEW c \in k.children[n]
        PROVE  c \notin k.live /\ c <= k.spawned /\ n <= k.spawned
    <3>1. CASE n = left
      BY <1>2, <1>3, <1>5, <2>2, <3>1
    <3>2. CASE n # left
      BY <1>2, <1>5, <2>2, <3>2
    <3> QED
      BY <3>1, <3>2
  <2> QED
    BY <2>1, <2>2 DEF Placed
<1>7. Inherits(k)
  <2> SUFFICES ASSUME NEW n \in k.live, NEW c \in k.children[n]
               PROVE  k.events[c] \subseteq k.events[n]
    BY DEF Inherits
  <2>1. n \in m.live /\ n \in Node /\ n # right
    BY <1>2, <1>3
  <2>2. \A p \in m.live : \A q \in m.children[p] : m.events[q] \subseteq m.events[p]
    BY DEF MemoryOK, Inherits
  <2>3. CASE n = left
    <3>1. c \in m.children[left] \/ c = right \/ c \in m.children[right]
      BY <1>2, <2>3
    <3>2. c \in Node /\ c # left
      BY <1>3, <1>5, <3>1
    <3>3. m.events[c] \subseteq m.events[left] \cup m.events[right]
      BY <2>2, <3>1
    <3> QED
      BY <1>2, <2>3, <3>2, <3>3
  <2>4. CASE n # left
    <3>1. c \in m.children[n]
      BY <1>2, <2>1, <2>4
    <3>2. c \in Node /\ c # left
      BY <1>3, <1>5, <2>1, <3>1
    <3> QED
      BY <1>2, <2>1, <2>2, <2>4, <3>1, <3>2
  <2> QED
    BY <2>3, <2>4
<1>8. \A S : Carries(m, k, S)
  <2>1. \A n : Found(m, n) => Found(k, n)
    BY <1>2 DEF Found
  <2>2. \A n \in Node : m.events[n] \subseteq k.events[n]
    BY <1>2
  <2> QED
    BY <1>2, <1>3, <2>1, <2>2 DEF Carries
<1> QED
  BY <1>1, <1>2, <1>4, <1>6, <1>7, <1>8 DEF MemoryOK

LEMMA PrunedFields ==
  ASSUME NEW m, m \in Memories, NEW F
  PROVE  LET k == Pruned(m, F)
         IN /\ k \in Memories
            /\ k.live = m.live \ F /\ k.absorbed = m.absorbed
            /\ k.events = m.events /\ k.children = m.children /\ k.spawned = m.spawned
            /\ k.visits = m.visits \ F
            /\ k.graph = {p \in m.graph : p[1] \notin F /\ p[2] \notin F}
            /\ k.together = {p \in m.together : p[1] \notin F /\ p[2] \notin F}
<1>1. PICK L, V, G, T :
        /\ L = m.live \ F /\ V = m.visits \ F
        /\ G = {p \in m.graph : p[1] \notin F /\ p[2] \notin F}
        /\ T = {p \in m.together : p[1] \notin F /\ p[2] \notin F}
  OBVIOUS
<1>2. Pruned(m, F) = [m EXCEPT !.live = L, !.visits = V, !.graph = G, !.together = T]
  BY <1>1 DEF Pruned
<1>3. L \in SUBSET Node /\ V \in SUBSET Node
  BY <1>1 DEF Memories
<1>4. G \in SUBSET (Node \X Node) /\ T \in SUBSET (Node \X Node)
  <2>1. G \subseteq m.graph /\ T \subseteq m.together
    BY <1>1
  <2> QED
    BY <2>1 DEF Memories
<1>5. PICK k : k = Pruned(m, F)
  OBVIOUS
<1>6. /\ k \in Memories
      /\ k.live = L /\ k.absorbed = m.absorbed
      /\ k.events = m.events /\ k.children = m.children /\ k.spawned = m.spawned
      /\ k.visits = V /\ k.graph = G /\ k.together = T
  BY <1>2, <1>3, <1>4, <1>5 DEF Memories
<1> QED
  BY <1>1, <1>5, <1>6

LEMMA PrunedOK ==
  ASSUME NEW m, MemoryOK(m), NEW F, NEW S, S \cap F = {}
  PROVE  MemoryOK(Pruned(m, F)) /\ Carries(m, Pruned(m, F), S) /\ Pruned(m, F).spawned = m.spawned
<1>1. PICK k : k = Pruned(m, F)
  OBVIOUS
<1>2. /\ k \in Memories
      /\ k.live = m.live \ F /\ k.absorbed = m.absorbed
      /\ k.events = m.events /\ k.children = m.children /\ k.spawned = m.spawned
      /\ k.visits = m.visits \ F
      /\ k.graph = {p \in m.graph : p[1] \notin F /\ p[2] \notin F}
      /\ k.together = {p \in m.together : p[1] \notin F /\ p[2] \notin F}
  BY <1>1, PrunedFields DEF MemoryOK
<1>3. Checked(k)
  <2>1. m.graph \subseteq m.live \X m.live /\ m.together \subseteq m.live \X m.live
        /\ m.visits \subseteq m.live
    BY DEF MemoryOK, Checked
  <2>2. k.graph \subseteq k.live \X k.live
    BY <1>2, <2>1
  <2>3. k.together \subseteq k.live \X k.live
    BY <1>2, <2>1
  <2>4. k.visits \subseteq k.live
    BY <1>2, <2>1
  <2> QED
    BY <2>2, <2>3, <2>4 DEF Checked
<1>4. Placed(k)
  BY <1>2 DEF MemoryOK, Placed
<1>5. Inherits(k)
  BY <1>2 DEF MemoryOK, Inherits
<1>6. Carries(m, k, S)
  <2>1. \A n \in S : Found(m, n) => Found(k, n)
    BY <1>2 DEF Found
  <2>2. m.spawned <= k.spawned
    BY <1>2 DEF MemoryOK, Memories
  <2> QED
    BY <1>2, <2>1, <2>2 DEF Carries
<1> QED
  BY <1>1, <1>2, <1>3, <1>4, <1>5, <1>6 DEF MemoryOK

-----------------------------------------------------------------------------
LEMMA CarriesOn ==
  ASSUME NEW k, k \in Memories, NEW l, l \in Memories, NEW m, m \in Memories, NEW S,
         Carries(k, l, S), Carries(l, m, S)
  PROVE  Carries(k, m, S)
<1>1. k.spawned \in Nat /\ l.spawned \in Nat /\ m.spawned \in Nat /\ \A n \in Node : n \in Nat
  BY DEF Memories, Node
<1>2. k.spawned <= m.spawned
  BY <1>1 DEF Carries
<1>3. \A n \in Node : n <= k.spawned => n <= l.spawned
  BY <1>1 DEF Carries
<1>4. \A n \in Node : n <= k.spawned => k.events[n] \subseteq m.events[n]
  BY <1>3 DEF Carries
<1> QED
  BY <1>2, <1>4 DEF Carries

LEMMA CoactivatedCarries ==
  ASSUME NEW m, MemoryOK(m), NEW S, S \subseteq m.live, NEW T
  PROVE  Carries(m, Coactivated(m, S), T) /\ Coactivated(m, S).spawned = m.spawned
<1>1. PICK k : k = Coactivated(m, S)
  OBVIOUS
<1>2. k.live = m.live /\ k.absorbed = m.absorbed /\ k.events = m.events /\ k.spawned = m.spawned
  BY <1>1, CoactivatedFields DEF MemoryOK
<1>3. m.spawned \in Nat
  BY DEF MemoryOK, Memories
<1> QED
  BY <1>1, <1>2, <1>3 DEF Carries, Found

\* What Observe makes of the memory.
Observed(m, near, related, spawns, e) ==
  IF spawns THEN Spawned(Coactivated(Updated(m, near, e), related), e)
  ELSE Coactivated(Updated(m, near, e), related)

LEMMA ObservedOK ==
  ASSUME NEW m, MemoryOK(m), NEW near, near \subseteq m.live, NEW related, related \subseteq m.live,
         NEW spawns \in BOOLEAN, spawns => m.spawned < MaxNodes, NEW e \in 0..MaxEvents
  PROVE  LET k == Observed(m, near, related, spawns, e)
         IN /\ MemoryOK(k)
            /\ \A S : Carries(m, k, S)
            /\ spawns => k.spawned = m.spawned + 1 /\ e \in k.events[m.spawned + 1]
            /\ ~spawns => \A n \in near : e \in k.events[n]
<1>1. PICK u : u = Updated(m, near, e)
  OBVIOUS
<1>2. MemoryOK(u) /\ u \in Memories
  BY <1>1, UpdatedOK DEF MemoryOK
<1>3. /\ u.live = m.live /\ u.absorbed = m.absorbed /\ u.spawned = m.spawned
      /\ \A n \in Node : u.events[n] = IF n \in near THEN m.events[n] \cup {e} ELSE m.events[n]
  <2>1. m \in Memories
    BY DEF MemoryOK
  <2> QED
    BY <1>1, <2>1, UpdatedFields
<1>4. PICK c : c = Coactivated(u, related)
  OBVIOUS
<1>5. MemoryOK(c) /\ c \in Memories
  BY <1>2, <1>3, <1>4, CoactivatedOK DEF MemoryOK
<1>6. c.live = u.live /\ c.absorbed = u.absorbed /\ c.spawned = u.spawned /\ c.events = u.events
  BY <1>2, <1>3, <1>4, CoactivatedFields
<1>7. m.spawned \in Nat /\ near \subseteq Node
  BY DEF MemoryOK, Memories
<1>8. /\ \A S : Carries(m, c, S)
      /\ \A n \in near : e \in c.events[n]
  <2>1. \A n \in Node : m.events[n] \subseteq c.events[n]
    BY <1>3, <1>6
  <2>2. \A n : Found(m, n) => Found(c, n)
    BY <1>3, <1>6 DEF Found
  <2>3. \A n \in near : e \in c.events[n]
    BY <1>3, <1>6, <1>7
  <2>4. m.spawned <= c.spawned
    BY <1>3, <1>6, <1>7
  <2> QED
    BY <2>1, <2>2, <2>3, <2>4 DEF Carries
<1>9. CASE ~spawns
  BY <1>1, <1>4, <1>5, <1>8, <1>9 DEF Observed
<1>10. CASE spawns
  <2>1. PICK k : k = Spawned(c, e)
    OBVIOUS
  <2>2. c.spawned = m.spawned /\ c.spawned < MaxNodes
    BY <1>3, <1>6, <1>10
  <2>3. MemoryOK(k)
    BY <1>5, <2>1, <2>2, SpawnedOK
  <2>4. /\ k.live = c.live \cup {c.spawned + 1} /\ k.absorbed = c.absorbed
        /\ k.spawned = c.spawned + 1
        /\ k.events[c.spawned + 1] = {e}
        /\ \A n \in Node : n # c.spawned + 1 => k.events[n] = c.events[n]
    BY <1>5, <2>1, <2>2, SpawnedFields
  <2>5. \A S : Carries(m, k, S)
    <3>1. \A n \in Node : n <= m.spawned => n # c.spawned + 1
      BY <1>7, <2>2 DEF Node
    <3>2. \A n \in Node : n <= m.spawned => m.events[n] \subseteq k.events[n]
      BY <1>8, <2>4, <3>1 DEF Carries
    <3>3. \A n : Found(m, n) => Found(k, n)
      BY <1>3, <1>6, <2>4 DEF Found
    <3>4. m.spawned <= k.spawned
      BY <1>7, <2>2, <2>4
    <3> QED
      BY <3>2, <3>3, <3>4 DEF Carries
  <2>6. k.spawned = m.spawned + 1 /\ e \in k.events[m.spawned + 1]
    BY <2>2, <2>4
  <2>7. k = Observed(m, near, related, spawns, e)
    BY <1>1, <1>4, <1>10, <2>1 DEF Observed
  <2> QED
    BY <1>10, <2>3, <2>5, <2>6, <2>7
<1> QED
  BY <1>9, <1>10

-----------------------------------------------------------------------------
(* The forest.                                                             *)

\* What the roots rs reach in the triangles ts.
Reached(ts, rs) == UNION {NodesUnder(ts, r.handle) : r \in rs}

EventsUnder(m, ts, h) == UNION {m.events[n] : n \in NodesUnder(ts, h)}

\* A root addresses what is there, and its first and last event are held under it.
RootOK(r, ts, m) ==
  /\ r = Branch(r.handle, r.first, r.last)
  /\ r.first \in 0..MaxEvents /\ r.last \in 0..MaxEvents
  /\ Addresses(r.handle, Len(ts))
  /\ \A n \in NodesUnder(ts, r.handle) : Found(m, n)
  /\ r.first \in EventsUnder(m, ts, r.handle) /\ r.last \in EventsUnder(m, ts, r.handle)

\* The nodes that a triangle names itself are in S.
Within(x, S) == x.apex \in S /\ \A k : (x.left = OnNode(k) \/ x.right = OnNode(k)) => k \in S

ForestOK(ts, rs, m) ==
  /\ Grounded(ts)
  /\ \A r \in rs : RootOK(r, ts, m)
  /\ \A t \in DOMAIN ts : Within(ts[t], Reached(ts, rs))

Apart(ts) == \A t \in DOMAIN ts : ts[t].left # ts[t].right

\* Triangles are only added, and what is under the old ones stays.
Extended(ts, us) ==
  /\ Len(ts) <= Len(us)
  /\ \A h : Addresses(h, Len(ts)) => NodesUnder(us, h) = NodesUnder(ts, h)

LEMMA AddressesMore ==
  ASSUME NEW i \in Nat, NEW j \in Nat, i <= j, NEW h, Addresses(h, i)
  PROVE  Addresses(h, j)
<1>1. \A t \in 1..i : t \in 1..j
  OBVIOUS
<1> QED
  BY <1>1 DEF Addresses

LEMMA ReachedFound ==
  ASSUME NEW ts, NEW rs, NEW m, ForestOK(ts, rs, m)
  PROVE  \A n \in Reached(ts, rs) : Found(m, n)
BY DEF Reached, ForestOK, RootOK

LEMMA AddressResolves ==
  ASSUME NEW ts, Grounded(ts), NEW i \in 0..Len(ts), NEW h, Addresses(h, i), NEW m,
         \A k : h = OnNode(k) => Found(m, k)
  PROVE  Resolves(m, ts, h)
<1>1. Len(ts) \in Nat /\ DOMAIN ts = 1..Len(ts)
  BY DEF Grounded
<1>2. CASE \E k \in Node : h = OnNode(k)
  <2>1. PICK k \in Node : h = OnNode(k)
    BY <1>2
  <2>2. h[1] = "node" /\ h[2] = k /\ Found(m, k)
    BY <2>1 DEF OnNode
  <2> QED
    BY <2>2 DEF Resolves
<1>3. CASE \E t \in 1..i : h = OnTriangle(t)
  <2>1. PICK t \in 1..i : h = OnTriangle(t)
    BY <1>3
  <2>2. h[1] = "triangle" /\ h[2] = t
    BY <2>1 DEF OnTriangle
  <2>3. t \in DOMAIN ts
    BY <1>1
  <2> QED
    BY <2>2, <2>3 DEF Resolves
<1> QED
  BY <1>2, <1>3 DEF Addresses

LEMMA ForestVerified ==
  ASSUME NEW f, NEW m, ForestOK(f.triangles, f.roots, m), Apart(f.triangles)
  PROVE  Verified(m, f)
<1>1. PICK ts, rs : ts = f.triangles /\ rs = f.roots
  OBVIOUS
<1>2. ForestOK(ts, rs, m) /\ Apart(ts) /\ Grounded(ts)
  BY <1>1 DEF ForestOK
<1>3. Len(ts) \in Nat /\ DOMAIN ts = 1..Len(ts)
  BY <1>2 DEF Grounded
<1>4. ASSUME NEW t \in DOMAIN ts
      PROVE  /\ Found(m, ts[t].apex)
             /\ Resolves(m, ts, ts[t].left)
             /\ Resolves(m, ts, ts[t].right)
             /\ ts[t].left # ts[t].right
  <2>1. PICK x : x = ts[t]
    OBVIOUS
  <2>2. Within(x, Reached(ts, rs)) /\ IsTriangle(x, t - 1) /\ x.left # x.right
    BY <1>2, <2>1 DEF ForestOK, Grounded, Apart
  <2>3. Found(m, x.apex) /\ \A k : (x.left = OnNode(k) \/ x.right = OnNode(k)) => Found(m, k)
    BY <1>2, <2>2, ReachedFound DEF Within
  <2>4. t - 1 \in 0..Len(ts)
    BY <1>3
  <2>5. Addresses(x.left, t - 1) /\ Addresses(x.right, t - 1)
    BY <2>2 DEF IsTriangle
  <2>6. Resolves(m, ts, x.left)
    BY <1>2, <2>3, <2>4, <2>5, AddressResolves
  <2>7. Resolves(m, ts, x.right)
    BY <1>2, <2>3, <2>4, <2>5, AddressResolves
  <2> QED
    BY <2>1, <2>2, <2>3, <2>6, <2>7
<1>5. ASSUME NEW r \in rs
      PROVE  Resolves(m, ts, r.handle)
  <2>1. Addresses(r.handle, Len(ts)) /\ \A n \in NodesUnder(ts, r.handle) : Found(m, n)
    BY <1>2 DEF ForestOK, RootOK
  <2>2. \A k : r.handle = OnNode(k) => Found(m, k)
    BY <2>1, NodesUnderNode
  <2>3. Len(ts) \in 0..Len(ts)
    BY <1>3
  <2> QED
    BY <1>2, <2>1, <2>2, <2>3, AddressResolves
<1> QED
  BY <1>1, <1>4, <1>5 DEF Verified

LEMMA RootCarried ==
  ASSUME NEW r, NEW ts, NEW m, RootOK(r, ts, m), MemoryOK(m), NEW k, NEW S,
         NodesUnder(ts, r.handle) \subseteq S, Carries(m, k, S)
  PROVE  RootOK(r, ts, k)
<1>1. \A n \in NodesUnder(ts, r.handle) :
        Found(k, n) /\ m.events[n] \subseteq k.events[n]
  <2>1. \A n : Found(m, n) => n \in Node /\ n <= m.spawned
    BY DEF MemoryOK, Memories, Placed, Found
  <2> QED
    BY <2>1 DEF RootOK, Carries
<1>2. EventsUnder(m, ts, r.handle) \subseteq EventsUnder(k, ts, r.handle)
  BY <1>1 DEF EventsUnder
<1> QED
  BY <1>1, <1>2 DEF RootOK

LEMMA ForestCarried ==
  ASSUME NEW ts, NEW rs, NEW m, ForestOK(ts, rs, m), MemoryOK(m), NEW k,
         Carries(m, k, Reached(ts, rs))
  PROVE  ForestOK(ts, rs, k)
<1>1. \A r \in rs : NodesUnder(ts, r.handle) \subseteq Reached(ts, rs)
  BY DEF Reached
<1>2. \A r \in rs : RootOK(r, ts, k)
  BY <1>1, RootCarried DEF ForestOK
<1> QED
  BY <1>2 DEF ForestOK

Timed(B) == \A b \in B : b.first \in 0..MaxEvents /\ b.last \in 0..MaxEvents

\* What coalesce_branches makes of the branches of one handle: the first start and the last end.
LEMMA CoalescedBranch ==
  ASSUME NEW B, Timed(B), NEW r \in Coalesced(B)
  PROVE  \E b \in B, c \in B : b.handle = c.handle /\ r = Branch(b.handle, b.first, c.last)
<1>1. PICK h \in {b.handle : b \in B} :
        r = LET same == {b \in B : b.handle = h}
            IN Branch(h, CHOOSE x \in {b.first : b \in same} : \A b \in same : x <= b.first,
                         CHOOSE x \in {b.last : b \in same} : \A b \in same : x >= b.last)
  BY DEF Coalesced
<1>2. PICK same : same = {b \in B : b.handle = h}
  OBVIOUS
<1>3. PICK F, L : F = {b.first : b \in same} /\ L = {b.last : b \in same}
  OBVIOUS
<1>4. F \in SUBSET Nat /\ F # {} /\ L \in SUBSET (0..MaxEvents) /\ L # {}
  <2>1. \A b \in same : b.first \in Nat /\ b.last \in 0..MaxEvents
    BY <1>2 DEF Timed
  <2>2. same # {}
    BY <1>1, <1>2
  <2> QED
    BY <1>3, <2>1, <2>2
<1>5. PICK p \in F : \A x \in F : p <= x
  BY <1>4, LeastNatural
<1>6. PICK q \in L : \A x \in L : x <= q
  BY <1>4, GreatestBelow, MemoryBounds
<1>7. \E x \in F : \A b \in same : x <= b.first
  BY <1>3, <1>5
<1>8. \E x \in L : \A b \in same : x >= b.last
  <2>1. \A b \in same : b.last \in L /\ b.last \in Int /\ q \in Int
    BY <1>3, <1>4
  <2>2. \A b \in same : q >= b.last
    BY <1>6, <2>1
  <2> QED
    BY <1>6, <2>2
<1>9. PICK u, v : /\ u = CHOOSE x \in F : \A b \in same : x <= b.first
                  /\ v = CHOOSE x \in L : \A b \in same : x >= b.last
  OBVIOUS
<1>10. u \in F /\ v \in L
  BY <1>7, <1>8, <1>9
<1>11. r = Branch(h, u, v)
  BY <1>1, <1>2, <1>3, <1>9
<1>12. PICK b \in same : b.first = u
  BY <1>3, <1>10
<1>13. PICK c \in same : c.last = v
  BY <1>3, <1>10
<1> QED
  BY <1>2, <1>11, <1>12, <1>13

LEMMA CoalescedHandles ==
  ASSUME NEW B
  PROVE  \A b \in B : \E r \in Coalesced(B) : r.handle = b.handle
<1> SUFFICES ASSUME NEW b \in B PROVE \E r \in Coalesced(B) : r.handle = b.handle
  OBVIOUS
<1>1. PICK h : h = b.handle
  OBVIOUS
<1>2. PICK r : r = LET same == {c \in B : c.handle = h}
                   IN Branch(h, CHOOSE x \in {c.first : c \in same} : \A c \in same : x <= c.first,
                                CHOOSE x \in {c.last : c \in same} : \A c \in same : x >= c.last)
  OBVIOUS
<1>3. h \in {c.handle : c \in B}
  BY <1>1
<1>4. r \in Coalesced(B)
  BY <1>2, <1>3, Zenon DEF Coalesced
<1>5. r.handle = h
  BY <1>2 DEF Branch
<1> QED
  BY <1>1, <1>4, <1>5

LEMMA CoalescedOK ==
  ASSUME NEW B, NEW ts, NEW m, \A b \in B : RootOK(b, ts, m)
  PROVE  \A r \in Coalesced(B) : RootOK(r, ts, m)
<1> SUFFICES ASSUME NEW r \in Coalesced(B) PROVE RootOK(r, ts, m)
  OBVIOUS
<1>1. PICK b \in B, c \in B : b.handle = c.handle /\ r = Branch(b.handle, b.first, c.last)
  <2>1. Timed(B)
    BY DEF Timed, RootOK
  <2> QED
    BY <2>1, CoalescedBranch
<1>2. r.handle = b.handle /\ r.handle = c.handle /\ r.first = b.first /\ r.last = c.last
  BY <1>1 DEF Branch
<1>3. RootOK(b, ts, m) /\ RootOK(c, ts, m)
  OBVIOUS
<1> QED
  BY <1>1, <1>2, <1>3 DEF RootOK

LEMMA CoalescedForest ==
  ASSUME NEW ts, NEW rs, NEW m, ForestOK(ts, rs, m), NEW ls, \A l \in ls : RootOK(l, ts, m)
  PROVE  /\ ForestOK(ts, Coalesced(rs \cup ls), m)
         /\ Reached(ts, rs) \subseteq Reached(ts, Coalesced(rs \cup ls))
<1>1. PICK B : B = rs \cup ls
  OBVIOUS
<1>2. \A b \in B : RootOK(b, ts, m)
  BY <1>1 DEF ForestOK
<1>3. \A r \in Coalesced(B) : RootOK(r, ts, m)
  BY <1>2, CoalescedOK
<1>4. Reached(ts, rs) \subseteq Reached(ts, Coalesced(B))
  <2>1. \A r \in rs : \E b \in Coalesced(B) : b.handle = r.handle
    BY <1>1, CoalescedHandles
  <2> QED
    BY <2>1 DEF Reached
<1>5. \A t \in DOMAIN ts : Within(ts[t], Reached(ts, Coalesced(B)))
  BY <1>4 DEF ForestOK, Within
<1> QED
  BY <1>1, <1>3, <1>4, <1>5 DEF ForestOK

-----------------------------------------------------------------------------
\* The triangle x joins the branches a and b, and stands for them among the roots.
Joins(x, a, b) ==
  /\ x.left = a.handle /\ x.right = b.handle
  /\ x.first \in {a.first, b.first} /\ x.last \in {a.last, b.last}

JoinedRoots(rs, a, b, x, n) == (rs \ {a, b}) \cup {Branch(OnTriangle(n), x.first, x.last)}

LEMMA JoinedForest ==
  ASSUME NEW ts, NEW rs, NEW m, ForestOK(ts, rs, m), NEW a \in rs, NEW b \in rs, NEW x,
         Found(m, x.apex), Joins(x, a, b), NEW us, us = Append(ts, x),
         NEW qs, qs = JoinedRoots(rs, a, b, x, Len(ts) + 1)
  PROVE  ForestOK(us, qs, m) /\ Extended(ts, us) /\ Reached(ts, rs) \subseteq Reached(us, qs)
<1>1. Grounded(ts) /\ RootOK(a, ts, m) /\ RootOK(b, ts, m)
  BY DEF ForestOK
<1>0. /\ x.left = a.handle /\ x.right = b.handle
      /\ x.first \in {a.first, b.first} /\ x.last \in {a.last, b.last}
  BY DEF Joins
<1>2. IsTriangle(x, Len(ts))
  BY <1>0, <1>1 DEF IsTriangle, RootOK
<1>3. /\ Grounded(us) /\ Len(us) = Len(ts) + 1 /\ Len(ts) \in Nat /\ DOMAIN ts = 1..Len(ts)
      /\ DOMAIN us = 1..(Len(ts) + 1) /\ us[Len(ts) + 1] = x
      /\ \A t \in 1..Len(ts) : us[t] = ts[t]
  BY <1>1, <1>2, GroundedAppend
<1>4. PICK n : n = Len(ts) + 1
  OBVIOUS
<1>5. PICK top : top = Branch(OnTriangle(n), x.first, x.last)
  OBVIOUS
<1>6. top.handle = OnTriangle(n) /\ top.first = x.first /\ top.last = x.last
      /\ top = Branch(top.handle, top.first, top.last)
  BY <1>5 DEF Branch
<1>7. /\ \A h : Addresses(h, Len(ts)) => NodesUnder(us, h) = NodesUnder(ts, h)
      /\ NodesUnder(us, top.handle) =
           {x.apex} \cup NodesUnder(ts, a.handle) \cup NodesUnder(ts, b.handle)
  BY <1>0, <1>1, <1>2, <1>4, <1>6, NodesUnderAppend
<1>8. Extended(ts, us)
  <2>1. Len(ts) <= Len(us)
    BY <1>3
  <2> QED
    BY <1>7, <2>1 DEF Extended
<1>9. RootOK(top, us, m)
  <2>1. top.first \in 0..MaxEvents /\ top.last \in 0..MaxEvents
    BY <1>0, <1>1, <1>6 DEF RootOK
  <2>2. Addresses(top.handle, Len(us))
    <3>1. n \in 1..Len(us)
      BY <1>3, <1>4
    <3> QED
      BY <1>6, <3>1 DEF Addresses
  <2>3. \A k \in NodesUnder(us, top.handle) : Found(m, k)
    BY <1>1, <1>7 DEF RootOK
  <2>4. /\ EventsUnder(m, ts, a.handle) \subseteq EventsUnder(m, us, top.handle)
        /\ EventsUnder(m, ts, b.handle) \subseteq EventsUnder(m, us, top.handle)
    BY <1>7 DEF EventsUnder
  <2>5. /\ top.first \in EventsUnder(m, us, top.handle)
        /\ top.last \in EventsUnder(m, us, top.handle)
    BY <1>0, <1>1, <1>6, <2>4 DEF RootOK
  <2> QED
    BY <1>6, <2>1, <2>2, <2>3, <2>5 DEF RootOK
<1>10. ASSUME NEW r \in rs PROVE RootOK(r, us, m)
  <2>1. RootOK(r, ts, m)
    BY DEF ForestOK
  <2>2. Addresses(r.handle, Len(us))
    <3>1. Addresses(r.handle, Len(ts)) /\ Len(us) \in Nat /\ Len(ts) <= Len(us)
      BY <1>3, <2>1 DEF RootOK
    <3> QED
      BY <1>3, <3>1, AddressesMore
  <2>3. NodesUnder(us, r.handle) = NodesUnder(ts, r.handle)
    BY <1>7, <2>1 DEF RootOK
  <2>4. EventsUnder(m, us, r.handle) = EventsUnder(m, ts, r.handle)
    BY <2>3 DEF EventsUnder
  <2> QED
    BY <2>1, <2>2, <2>3, <2>4 DEF RootOK
<1>11. qs = (rs \ {a, b}) \cup {top}
  BY <1>4, <1>5 DEF JoinedRoots
<1>12. \A r \in qs : RootOK(r, us, m)
  BY <1>9, <1>10, <1>11
<1>13. Reached(ts, rs) \subseteq Reached(us, qs)
  <2>1. top \in qs
    BY <1>11
  <2> SUFFICES ASSUME NEW r \in rs, NEW k \in NodesUnder(ts, r.handle)
               PROVE  k \in Reached(us, qs)
    BY DEF Reached
  <2>2. CASE r \in {a, b}
    <3>1. k \in NodesUnder(us, top.handle)
      BY <1>7, <2>2
    <3> QED
      BY <2>1, <3>1 DEF Reached
  <2>3. CASE r \notin {a, b}
    <3>1. Addresses(r.handle, Len(ts))
      BY DEF ForestOK, RootOK
    <3>2. k \in NodesUnder(us, r.handle)
      BY <1>7, <3>1
    <3> QED
      BY <1>11, <2>3, <3>2 DEF Reached
  <2> QED
    BY <2>2, <2>3
<1>14. ASSUME NEW t \in DOMAIN us PROVE Within(us[t], Reached(us, qs))
  <2>1. CASE t = n
    <3>1. us[t] = x
      BY <1>3, <1>4, <2>1
    <3>2. NodesUnder(us, top.handle) \subseteq Reached(us, qs)
      BY <1>11 DEF Reached
    <3>3. \A k : (x.left = OnNode(k) \/ x.right = OnNode(k)) => k \in NodesUnder(us, top.handle)
      BY <1>0, <1>7, NodesUnderNode
    <3>4. x.apex \in NodesUnder(us, top.handle)
      BY <1>7
    <3> QED
      BY <3>1, <3>2, <3>3, <3>4 DEF Within
  <2>2. CASE t # n
    <3>1. t \in 1..Len(ts)
      BY <1>3, <1>4, <2>2
    <3>2. us[t] = ts[t] /\ Within(ts[t], Reached(ts, rs))
      BY <1>3, <3>1 DEF ForestOK
    <3> QED
      BY <1>13, <3>2 DEF Within
  <2> QED
    BY <2>1, <2>2
<1> QED
  BY <1>3, <1>8, <1>12, <1>13, <1>14 DEF ForestOK

LEMMA ExtendedOn ==
  ASSUME NEW ts, NEW us, NEW vs, Grounded(ts), Grounded(us), Grounded(vs),
         Extended(ts, us), Extended(us, vs)
  PROVE  Extended(ts, vs)
<1>1. Len(ts) \in Nat /\ Len(us) \in Nat /\ Len(vs) \in Nat
  BY DEF Grounded
<1>2. Len(ts) <= Len(us) /\ Len(us) <= Len(vs) /\ Len(ts) <= Len(vs)
  BY <1>1 DEF Extended
<1>3. \A h : Addresses(h, Len(ts)) => Addresses(h, Len(us))
  BY <1>1, <1>2, AddressesMore
<1> QED
  BY <1>2, <1>3 DEF Extended

----------------------------------------------------------------------------
(* The state.                                                              *)

\* A leaf of the turn names a node that was spawned and holds its event.
LeafOK(l, m) ==
  \E n \in Node, e \in 0..MaxEvents :
    n <= m.spawned /\ e \in m.events[n] /\ l = Branch(OnNode(n), e, e)

\* A maintenance works on a memory that has lost nothing the forest names.
Maintaining(w, m, f) ==
  /\ w = [task |-> "maintain", memory |-> w.memory, spared |-> Referenced(f), pruned |-> w.pruned]
  /\ MemoryOK(w.memory)
  /\ Carries(m, w.memory, Referenced(f))

\* A compaction works on a forest that has lost nothing the saved one names.
Compacting(w, m, f) ==
  /\ w = [task |-> "compact", triangles |-> w.triangles, roots |-> w.roots]
  /\ ForestOK(w.triangles, w.roots, m)
  /\ Extended(f.triangles, w.triangles)
  /\ Referenced(f) \subseteq Reached(w.triangles, w.roots)

WorkOK(w, m, f) == w = NoWork \/ Maintaining(w, m, f) \/ Compacting(w, m, f)

HeldOK(h, f) ==
  Addresses(h, Len(f.triangles)) /\ NodesUnder(f.triangles, h) \subseteq Referenced(f)

SavedOK(m, f) == MemoryOK(m) /\ ForestOK(f.triangles, f.roots, m) /\ Apart(f.triangles)

ContextInv ==
  /\ clock \in 0..MaxEvents
  /\ SavedOK(memory, forest)
  /\ \A l \in leaves : LeafOK(l, memory)
  /\ \A h \in held : HeldOK(h, forest)
  /\ WorkOK(work, memory, forest)

LEMMA ReferencedReached ==
  ASSUME NEW f PROVE Referenced(f) = Reached(f.triangles, f.roots)
BY DEF Referenced, Reached

\* The saved state after a step that carries what the forest names.
LEMMA SavedCarried ==
  ASSUME NEW m, NEW f, SavedOK(m, f), NEW k, MemoryOK(k), Carries(m, k, Referenced(f))
  PROVE  SavedOK(k, f)
BY ForestCarried, ReferencedReached DEF SavedOK

LEMMA LeavesCarried ==
  ASSUME NEW m, NEW k, m \in Memories, k \in Memories, NEW S, Carries(m, k, S),
         NEW l, LeafOK(l, m)
  PROVE  LeafOK(l, k)
<1>1. PICK n \in Node, e \in 0..MaxEvents :
        n <= m.spawned /\ e \in m.events[n] /\ l = Branch(OnNode(n), e, e)
  BY DEF LeafOK
<1>2. n <= k.spawned
  BY <1>1 DEF Carries, Memories, Node
<1>3. e \in k.events[n]
  BY <1>1 DEF Carries
<1> QED
  BY <1>1, <1>2, <1>3 DEF LeafOK

\* A leaf whose node is found is a branch over that node.
LEMMA LeafIsRoot ==
  ASSUME NEW m, NEW ts, NEW l, LeafOK(l, m), Found(m, l.handle[2])
  PROVE  RootOK(l, ts, m)
<1>1. PICK n \in Node, e \in 0..MaxEvents :
        n <= m.spawned /\ e \in m.events[n] /\ l = Branch(OnNode(n), e, e)
  BY DEF LeafOK
<1>2. l.handle = OnNode(n) /\ l.first = e /\ l.last = e /\ l = Branch(l.handle, l.first, l.last)
  BY <1>1 DEF Branch
<1>3. l.handle[2] = n
  BY <1>2 DEF OnNode
<1>4. NodesUnder(ts, l.handle) = {n}
  BY <1>2, NodesUnderNode
<1>5. EventsUnder(m, ts, l.handle) = m.events[n]
  BY <1>4 DEF EventsUnder
<1>6. Addresses(l.handle, Len(ts))
  BY <1>2 DEF Addresses
<1> QED
  BY <1>1, <1>2, <1>3, <1>4, <1>5, <1>6 DEF RootOK

-----------------------------------------------------------------------------
(* Init and the steps.  Observe only adds; the steps of maintenance change *)
(* its own copy, sparing what the forest names; the steps of compaction    *)
(* change its own triangles, keeping what the saved roots reach.           *)

LEMMA ContextInit == MemoryInit => ContextInv
<1> SUFFICES ASSUME MemoryInit PROVE ContextInv
  OBVIOUS
<1>1. /\ memory = EmptyMemory /\ forest.triangles = <<>> /\ forest.roots = {}
      /\ work = NoWork /\ leaves = {} /\ held = {} /\ clock = 0
  BY DEF MemoryInit
<1>2. Grounded(<<>>) /\ DOMAIN <<>> = {}
  <2>1. <<>> \in Seq({})
    OBVIOUS
  <2>2. DOMAIN <<>> = {}
    OBVIOUS
  <2> QED
    BY <2>1, <2>2 DEF Grounded
<1>3. ForestOK(forest.triangles, forest.roots, memory) /\ Apart(forest.triangles)
  BY <1>1, <1>2 DEF ForestOK, Apart
<1>4. clock \in 0..MaxEvents
  BY <1>1, MemoryBounds
<1> QED
  BY <1>1, <1>3, <1>4, EmptyMemoryOK DEF ContextInv, SavedOK, WorkOK

LEMMA NoWorkTask == NoWork.task = "none"
BY DEF NoWork

LEMMA ContextObserve ==
  ASSUME ContextInv, NEW near \in SUBSET memory.live, NEW related \in SUBSET memory.live,
         NEW split \in BOOLEAN, Observe(near, related, split)
  PROVE  ContextInv'
<1>1. PICK e, spawns : e = clock + 1 /\ spawns = (near = {} \/ split)
  OBVIOUS
<1>2. spawns \in BOOLEAN /\ (spawns <=> near = {} \/ split)
  BY <1>1
<1>3. /\ work = NoWork /\ clock < MaxEvents /\ clock' = e
      /\ spawns => memory.spawned < MaxNodes
      /\ forest' = forest /\ work' = work /\ held' = held
  BY <1>1 DEF Observe
<1>4. e \in 0..MaxEvents
  BY <1>1, <1>3, MemoryBounds DEF ContextInv
<1>5. memory' = Observed(memory, near, related, spawns, e)
  BY <1>1, <1>2 DEF Observe, Observed
<1>6. PICK winner : /\ winner \in IF spawns THEN {memory.spawned + 1} ELSE near
                    /\ leaves' = leaves \cup {Branch(OnNode(winner), e, e)}
  BY <1>1, <1>2 DEF Observe
<1>7. MemoryOK(memory) /\ memory \in Memories
  BY DEF ContextInv, SavedOK, MemoryOK
<1>8. /\ MemoryOK(memory')
      /\ \A S : Carries(memory, memory', S)
      /\ spawns => memory'.spawned = memory.spawned + 1 /\ e \in memory'.events[memory.spawned + 1]
      /\ ~spawns => \A n \in near : e \in memory'.events[n]
  <2>1. near \subseteq memory.live /\ related \subseteq memory.live
    OBVIOUS
  <2> QED
    BY <1>2, <1>3, <1>4, <1>5, <1>7, <2>1, ObservedOK
<1>9. SavedOK(memory', forest')
  BY <1>3, <1>8, SavedCarried DEF ContextInv
<1>10. LeafOK(Branch(OnNode(winner), e, e), memory')
  <2>1. memory.spawned \in Nat /\ memory' \in Memories
    BY <1>7, <1>8 DEF Memories, MemoryOK
  <2>2. CASE spawns
    <3>1. winner = memory.spawned + 1
      BY <1>6, <2>2
    <3>2. winner \in Node /\ winner <= memory'.spawned
      BY <1>3, <1>8, <2>1, <2>2, <3>1, MemoryBounds DEF Node
    <3> QED
      BY <1>4, <1>8, <2>2, <3>1, <3>2 DEF LeafOK
  <2>3. CASE ~spawns
    <3>1. winner \in near /\ winner \in Node
      BY <1>6, <1>7, <2>3 DEF Memories
    <3>2. winner <= memory.spawned
      BY <1>7, <3>1 DEF MemoryOK, Placed
    <3>3. winner <= memory'.spawned
      BY <1>8, <2>1, <3>1, <3>2 DEF Carries, Memories, Node
    <3> QED
      BY <1>4, <1>8, <2>3, <3>1, <3>3 DEF LeafOK
  <2> QED
    BY <2>2, <2>3
<1>11. \A l \in leaves' : LeafOK(l, memory')
  <2>1. memory' \in Memories
    BY <1>8 DEF MemoryOK
  <2>2. \A l \in leaves : LeafOK(l, memory')
    BY <1>7, <1>8, <2>1, LeavesCarried DEF ContextInv
  <2> QED
    BY <1>6, <1>10, <2>2
<1> QED
  BY <1>3, <1>4, <1>9, <1>11 DEF ContextInv, WorkOK

LEMMA ContextBeginMaintenance ==
  ASSUME ContextInv, BeginMaintenance
  PROVE  ContextInv'
<1>1. /\ memory' = memory /\ forest' = forest /\ leaves' = leaves /\ held' = held /\ clock' = clock
      /\ work' = [task |-> "maintain", memory |-> memory, spared |-> Referenced(forest),
                  pruned |-> FALSE]
  BY DEF BeginMaintenance
<1>2. work'.memory = memory /\ work'.pruned = FALSE
  BY <1>1
<1>3. MemoryOK(memory) /\ memory.spawned \in Nat
  BY DEF ContextInv, SavedOK, MemoryOK, Memories
<1>4. Carries(memory, memory, Referenced(forest))
  BY <1>3 DEF Carries
<1>5. Maintaining(work', memory, forest)
  BY <1>1, <1>2, <1>3, <1>4 DEF Maintaining
<1> QED
  BY <1>1, <1>5 DEF ContextInv, WorkOK

LEMMA MaintainingTask ==
  ASSUME ContextInv, work.task = "maintain"
  PROVE  Maintaining(work, memory, forest)
<1>1. work # NoWork
  BY NoWorkTask
<1>2. ~Compacting(work, memory, forest)
  BY DEF Compacting
<1> QED
  BY <1>1, <1>2 DEF ContextInv, WorkOK

LEMMA CompactingTask ==
  ASSUME ContextInv, work.task = "compact"
  PROVE  Compacting(work, memory, forest)
<1>1. work # NoWork
  BY NoWorkTask
<1>2. ~Maintaining(work, memory, forest)
  BY DEF Maintaining
<1> QED
  BY <1>1, <1>2 DEF ContextInv, WorkOK

\* A step of the maintenance that carries what is spared.
LEMMA ContextMaintains ==
  ASSUME ContextInv, work.task = "maintain", UNCHANGED <<memory, forest, leaves, held, clock>>,
         NEW k, MemoryOK(k), Carries(work.memory, k, Referenced(forest)), NEW b,
         work' = [task |-> "maintain", memory |-> k, spared |-> work.spared, pruned |-> b]
  PROVE  ContextInv'
<1>1. Maintaining(work, memory, forest)
  BY MaintainingTask
<1>3. work.spared = Referenced(forest)
  BY <1>1 DEF Maintaining
<1>4. work' = [task |-> "maintain", memory |-> k, spared |-> Referenced(forest), pruned |-> b]
  BY <1>3
<1>5. work'.memory = k /\ work'.pruned = b
  BY <1>4
<1>6. Carries(memory, k, Referenced(forest))
  <2>1. memory \in Memories /\ work.memory \in Memories /\ k \in Memories
    BY <1>1 DEF ContextInv, SavedOK, MemoryOK, Maintaining
  <2> QED
    BY <1>1, <2>1, CarriesOn DEF Maintaining
<1>7. Maintaining(work', memory, forest)
  BY <1>4, <1>5, <1>6 DEF Maintaining
<1> QED
  BY <1>7 DEF ContextInv, WorkOK

LEMMA ContextConsolidate ==
  ASSUME ContextInv, NEW left \in Node, NEW right \in Node, Consolidate(left, right)
  PROVE  ContextInv'
<1>1. /\ work.task = "maintain" /\ left \in work.memory.live /\ right \in work.memory.live
      /\ left # right /\ UNCHANGED <<memory, forest, leaves, held, clock>>
  BY DEF Consolidate
<1>2. Maintaining(work, memory, forest)
  BY <1>1, MaintainingTask
<1>3. PICK k : k = Merged(work.memory, left, right)
  OBVIOUS
<1>4. MemoryOK(k) /\ Carries(work.memory, k, Referenced(forest))
  BY <1>1, <1>2, <1>3, MergedOK DEF Maintaining
<1>5. PICK b : b = work.pruned
  OBVIOUS
<1>6. work' = [work EXCEPT !.memory = k]
  BY <1>3 DEF Consolidate
<1>7. work' = [task |-> "maintain", memory |-> k, spared |-> work.spared, pruned |-> b]
  <2>1. PICK n, s : n = work.memory /\ s = work.spared
    OBVIOUS
  <2>2. work = [task |-> "maintain", memory |-> n, spared |-> s, pruned |-> b]
    BY <1>2, <1>5, <2>1 DEF Maintaining
  <2>3. work' = [task |-> "maintain", memory |-> k, spared |-> s, pruned |-> b]
    BY <1>6, <2>2
  <2> QED
    BY <2>1, <2>3
<1> QED
  BY <1>1, <1>4, <1>7, ContextMaintains

LEMMA ContextPrune ==
  ASSUME ContextInv, NEW faded, NEW walked, PruneAndDream(faded, walked)
  PROVE  ContextInv'
<1>1. /\ work.task = "maintain" /\ faded \subseteq work.memory.live \ work.spared
      /\ walked \subseteq Pruned(work.memory, faded).live
      /\ UNCHANGED <<memory, forest, leaves, held, clock>>
  BY DEF PruneAndDream, Walkable
<1>2. Maintaining(work, memory, forest)
  BY <1>1, MaintainingTask
<1>3. Referenced(forest) \cap faded = {}
  BY <1>1, <1>2 DEF Maintaining
<1>4. PICK n, k : n = Pruned(work.memory, faded) /\ k = Coactivated(n, walked)
  OBVIOUS
<1>5. MemoryOK(n) /\ Carries(work.memory, n, Referenced(forest))
  BY <1>2, <1>3, <1>4, PrunedOK DEF Maintaining
<1>6. MemoryOK(k) /\ Carries(n, k, Referenced(forest))
  BY <1>1, <1>4, <1>5, CoactivatedOK, CoactivatedCarries
<1>7. Carries(work.memory, k, Referenced(forest))
  <2>1. work.memory \in Memories /\ n \in Memories /\ k \in Memories
    BY <1>2, <1>5, <1>6 DEF Maintaining, MemoryOK
  <2> QED
    BY <1>5, <1>6, <2>1, CarriesOn
<1>8. work' = [work EXCEPT !.memory = k, !.pruned = TRUE]
  BY <1>4 DEF PruneAndDream
<1>9. work' = [task |-> "maintain", memory |-> k, spared |-> work.spared, pruned |-> TRUE]
  <2>1. PICK l, s, p : l = work.memory /\ s = work.spared /\ p = work.pruned
    OBVIOUS
  <2>2. work = [task |-> "maintain", memory |-> l, spared |-> s, pruned |-> p]
    BY <1>2, <2>1 DEF Maintaining
  <2>3. work' = [task |-> "maintain", memory |-> k, spared |-> s, pruned |-> TRUE]
    BY <1>8, <2>2
  <2> QED
    BY <2>1, <2>3
<1> QED
  BY <1>1, <1>6, <1>7, <1>9, ContextMaintains

LEMMA ContextEndMaintenance ==
  ASSUME ContextInv, EndMaintenance
  PROVE  ContextInv'
<1>1. /\ work.task = "maintain" /\ work' = NoWork
      /\ UNCHANGED <<forest, leaves, held, clock>>
      /\ memory' = work.memory \/ memory' = memory
  BY DEF EndMaintenance
<1>2. Maintaining(work, memory, forest)
  BY <1>1, MaintainingTask
<1>3. CASE memory' = memory
  BY <1>1, <1>3 DEF ContextInv, WorkOK
<1>4. CASE memory' = work.memory
  <2>1. MemoryOK(memory') /\ Carries(memory, memory', Referenced(forest))
    BY <1>2, <1>4 DEF Maintaining
  <2>2. SavedOK(memory', forest)
    BY <2>1, SavedCarried DEF ContextInv
  <2>3. memory \in Memories /\ memory' \in Memories
    BY <2>1 DEF ContextInv, SavedOK, MemoryOK
  <2>4. \A l \in leaves : LeafOK(l, memory')
    BY <2>1, <2>3, LeavesCarried DEF ContextInv
  <2> QED
    BY <1>1, <2>2, <2>4 DEF ContextInv, WorkOK
<1> QED
  BY <1>1, <1>3, <1>4

LEMMA ContextBeginCompaction ==
  ASSUME ContextInv, BeginCompaction
  PROVE  ContextInv'
<1>1. leaves' = {} /\ UNCHANGED <<memory, forest, held, clock>>
  BY DEF BeginCompaction
<1>2. WorkOK(work', memory, forest)
  <2>1. CASE ~\A l \in leaves : Found(memory, l.handle[2])
    BY <2>1 DEF BeginCompaction, WorkOK
  <2>2. CASE \A l \in leaves : Found(memory, l.handle[2])
    <3>1. PICK ts, rs : ts = forest.triangles /\ rs = Coalesced(forest.roots \cup leaves)
      OBVIOUS
    <3>2. work' = [task |-> "compact", triangles |-> ts, roots |-> rs]
      BY <2>2, <3>1 DEF BeginCompaction
    <3>3. work'.triangles = ts /\ work'.roots = rs
      BY <3>2
    <3>4. ForestOK(ts, forest.roots, memory)
      BY <3>1 DEF ContextInv, SavedOK
    <3>5. \A l \in leaves : RootOK(l, ts, memory)
      BY <2>2, LeafIsRoot DEF ContextInv
    <3>6. ForestOK(ts, rs, memory) /\ Reached(ts, forest.roots) \subseteq Reached(ts, rs)
      BY <3>1, <3>4, <3>5, CoalescedForest
    <3>7. Extended(ts, ts)
      <4>1. Len(ts) \in Nat
        BY <3>4 DEF ForestOK, Grounded
      <4> QED
        BY <4>1 DEF Extended
    <3>8. Referenced(forest) = Reached(ts, forest.roots)
      BY <3>1, ReferencedReached
    <3>9. Compacting(work', memory, forest)
      BY <3>1, <3>2, <3>3, <3>6, <3>7, <3>8 DEF Compacting
    <3> QED
      BY <3>9 DEF WorkOK
  <2> QED
    BY <2>1, <2>2
<1> QED
  BY <1>1, <1>2 DEF ContextInv

LEMMA ContextJoin ==
  ASSUME ContextInv, NEW a, NEW b, NEW apex, Join(a, b, apex)
  PROVE  ContextInv'
<1>1. PICK x : x = [apex |-> apex, left |-> a.handle, right |-> b.handle,
                    first |-> IF a.first < b.first THEN a.first ELSE b.first,
                    last |-> IF a.last > b.last THEN a.last ELSE b.last]
  OBVIOUS
<1>2. /\ x.apex = apex /\ x.left = a.handle /\ x.right = b.handle
      /\ x.first \in {a.first, b.first} /\ x.last \in {a.last, b.last}
  BY <1>1
<1>3. /\ work.task = "compact" /\ a \in work.roots /\ b \in work.roots /\ apex \in memory.live
      /\ UNCHANGED <<memory, forest, leaves, held, clock>>
  BY DEF Join
<1>4. Compacting(work, memory, forest)
  BY <1>3, CompactingTask
<1>5. PICK ts, rs : ts = work.triangles /\ rs = work.roots
  OBVIOUS
<1>6. work = [task |-> "compact", triangles |-> ts, roots |-> rs]
  BY <1>4, <1>5 DEF Compacting
<1>7. PICK us, qs : /\ us = Append(ts, x)
                    /\ qs = JoinedRoots(rs, a, b, x, Len(ts) + 1)
  OBVIOUS
<1>8. work' = [work EXCEPT !.triangles = us, !.roots = qs]
  BY <1>1, <1>5, <1>7 DEF Join, JoinedRoots
<1>9. work' = [task |-> "compact", triangles |-> us, roots |-> qs]
  BY <1>6, <1>8
<1>10. work'.triangles = us /\ work'.roots = qs
  BY <1>9
<1>11. ForestOK(us, qs, memory) /\ Extended(ts, us) /\ Reached(ts, rs) \subseteq Reached(us, qs)
  <2>1. ForestOK(ts, rs, memory) /\ a \in rs /\ b \in rs /\ Found(memory, x.apex)
    BY <1>2, <1>3, <1>4, <1>5 DEF Compacting, Found
  <2>2. Joins(x, a, b)
    BY <1>2 DEF Joins
  <2>3. \A u, q : u = Append(ts, x) /\ q = JoinedRoots(rs, a, b, x, Len(ts) + 1) =>
                ForestOK(u, q, memory) /\ Extended(ts, u) /\ Reached(ts, rs) \subseteq Reached(u, q)
    BY <2>1, <2>2, JoinedForest
  <2> QED
    BY <1>7, <2>3
<1>12. Extended(forest.triangles, us)
  <2>1. Grounded(forest.triangles) /\ Grounded(ts) /\ Grounded(us)
    BY <1>4, <1>5, <1>11 DEF ForestOK, ContextInv, SavedOK, Compacting
  <2>2. Extended(forest.triangles, ts)
    BY <1>4, <1>5 DEF Compacting
  <2> QED
    BY <1>11, <2>1, <2>2, ExtendedOn
<1>13. Referenced(forest) \subseteq Reached(us, qs)
  BY <1>4, <1>5, <1>11 DEF Compacting
<1>14. Compacting(work', memory, forest)
  BY <1>9, <1>10, <1>11, <1>12, <1>13 DEF Compacting
<1> QED
  BY <1>3, <1>14 DEF ContextInv, WorkOK

LEMMA ContextEndCompaction ==
  ASSUME ContextInv, EndCompaction
  PROVE  ContextInv'
<1>1. PICK f : f = [triangles |-> work.triangles, roots |-> work.roots]
  OBVIOUS
<1>2. /\ work.task = "compact" /\ work' = NoWork /\ UNCHANGED <<memory, leaves, held, clock>>
      /\ forest' = IF Verified(memory, f) THEN f ELSE forest
  BY <1>1 DEF EndCompaction
<1>3. Compacting(work, memory, forest)
  BY <1>2, CompactingTask
<1>4. CASE ~Verified(memory, f)
  BY <1>2, <1>4 DEF ContextInv, WorkOK
<1>5. CASE Verified(memory, f)
  <2>1. f.triangles = work.triangles /\ f.roots = work.roots /\ forest' = f
    BY <1>1, <1>2, <1>5
  <2>2. Apart(f.triangles)
    BY <1>5 DEF Verified, Apart
  <2>3. SavedOK(memory, f)
    BY <1>3, <2>1, <2>2 DEF ContextInv, SavedOK, Compacting
  <2>4. Referenced(forest) \subseteq Referenced(f)
    BY <1>3, <2>1, ReferencedReached DEF Compacting
  <2>5. ASSUME NEW h \in held PROVE HeldOK(h, f)
    <3>1. Addresses(h, Len(forest.triangles))
          /\ NodesUnder(forest.triangles, h) \subseteq Referenced(forest)
      BY DEF ContextInv, HeldOK
    <3>2. NodesUnder(f.triangles, h) = NodesUnder(forest.triangles, h)
      BY <1>3, <2>1, <3>1 DEF Compacting, Extended
    <3>3. Len(forest.triangles) \in Nat /\ Len(f.triangles) \in Nat
          /\ Len(forest.triangles) <= Len(f.triangles)
      BY <1>3, <2>1, <2>3 DEF Compacting, Extended, ContextInv, SavedOK, ForestOK, Grounded
    <3>4. Addresses(h, Len(f.triangles))
      BY <3>1, <3>3, AddressesMore
    <3> QED
      BY <2>4, <3>1, <3>2, <3>4 DEF HeldOK
  <2> QED
    BY <1>2, <2>1, <2>3, <2>5 DEF ContextInv, WorkOK
<1> QED
  BY <1>4, <1>5

LEMMA ContextReadRoots ==
  ASSUME ContextInv, ReadRoots
  PROVE  ContextInv'
<1>1. /\ held' = {r.handle : r \in forest.roots}
      /\ UNCHANGED <<memory, forest, work, leaves, clock>>
  BY DEF ReadRoots
<1>2. ASSUME NEW h \in held' PROVE HeldOK(h, forest)
  <2>1. PICK r \in forest.roots : h = r.handle
    BY <1>1
  <2>2. RootOK(r, forest.triangles, memory)
    BY DEF ContextInv, SavedOK, ForestOK
  <2>3. NodesUnder(forest.triangles, h) \subseteq Referenced(forest)
    BY <2>1 DEF Referenced
  <2> QED
    BY <2>1, <2>2, <2>3 DEF HeldOK, RootOK
<1> QED
  BY <1>1, <1>2 DEF ContextInv

LEMMA ContextCrash ==
  ASSUME ContextInv, Crash
  PROVE  ContextInv'
<1>1. work' = NoWork /\ leaves' = {} /\ held' = {} /\ UNCHANGED <<memory, forest, clock>>
  BY DEF Crash
<1> QED
  BY <1>1 DEF ContextInv, WorkOK

LEMMA ContextStep == ContextInv /\ [MemoryNext]_memoryVars => ContextInv'
<1> SUFFICES ASSUME ContextInv, [MemoryNext]_memoryVars PROVE ContextInv'
  OBVIOUS
<1>1. CASE UNCHANGED memoryVars
  BY <1>1 DEF memoryVars, ContextInv
<1>2. ASSUME NEW near \in SUBSET memory.live, NEW related \in SUBSET memory.live,
             NEW split \in BOOLEAN, Observe(near, related, split)
      PROVE  ContextInv'
  BY <1>2, ContextObserve
<1>3. ASSUME NEW left \in Node, NEW right \in Node, Consolidate(left, right)
      PROVE  ContextInv'
  BY <1>3, ContextConsolidate
<1>4. ASSUME NEW faded \in SUBSET Node, NEW walked \in SUBSET Node, PruneAndDream(faded, walked)
      PROVE  ContextInv'
  BY <1>4, ContextPrune
<1>5. ASSUME NEW a \in work.roots, NEW b \in work.roots, NEW apex \in Node, Join(a, b, apex)
      PROVE  ContextInv'
  BY <1>5, ContextJoin
<1> QED
  BY <1>1, <1>2, <1>3, <1>4, <1>5, ContextBeginMaintenance, ContextEndMaintenance,
     ContextBeginCompaction, ContextEndCompaction, ContextReadRoots, ContextCrash DEF MemoryNext

LEMMA ContextInvMemorySound == ContextInv => MemorySound
<1> SUFFICES ASSUME ContextInv PROVE MemorySound
  OBVIOUS
<1>1. MemoryOK(memory)
  BY DEF ContextInv, SavedOK
<1>2. work.task = "maintain" => Checked(work.memory)
  BY MaintainingTask DEF Maintaining, MemoryOK
<1>3. ASSUME NEW n \in memory.live, NEW c \in memory.children[n]
      PROVE  /\ memory.events[c] \subseteq memory.events[n]
             /\ c \notin memory.live
             /\ n \notin memory.children[c]
  <2>1. n \in Node /\ c \in Node
    BY <1>1 DEF MemoryOK, Memories
  <2> QED
    BY <1>1, <2>1 DEF MemoryOK, Inherits, Placed
<1> QED
  BY <1>1, <1>2, <1>3 DEF MemorySound, MemoryOK

LEMMA ContextInvResolves == ContextInv => ContextResolves
<1> SUFFICES ASSUME ContextInv PROVE ContextResolves
  OBVIOUS
<1>1. PICK m : m = IF work.task = "maintain" THEN work.memory ELSE memory
  OBVIOUS
<1>2. SavedOK(m, forest)
  <2>1. CASE work.task = "maintain"
    <3>1. MemoryOK(work.memory) /\ Carries(memory, work.memory, Referenced(forest))
      BY <2>1, MaintainingTask DEF Maintaining
    <3> QED
      BY <1>1, <2>1, <3>1, SavedCarried DEF ContextInv
  <2>2. CASE work.task # "maintain"
    BY <1>1, <2>2 DEF ContextInv
  <2> QED
    BY <2>1, <2>2
<1>3. Verified(m, forest)
  BY <1>2, ForestVerified DEF SavedOK
<1>4. \A n \in Referenced(forest) : Found(m, n)
  BY <1>2, ReachedFound, ReferencedReached DEF SavedOK
<1>5. ASSUME NEW h \in held \cup {r.handle : r \in forest.roots},
             NEW n \in NodesUnder(forest.triangles, h)
      PROVE  Found(m, n)
  <2>1. NodesUnder(forest.triangles, h) \subseteq Referenced(forest)
    BY DEF ContextInv, HeldOK, Referenced
  <2> QED
    BY <1>4, <2>1
<1>6. ASSUME NEW r \in forest.roots
      PROVE  {r.first, r.last} \subseteq UNION {m.events[n] : n \in NodesUnder(forest.triangles, r.handle)}
  BY <1>2 DEF SavedOK, ForestOK, RootOK, EventsUnder
<1> QED
  BY <1>1, <1>3, <1>5, <1>6 DEF ContextResolves

\* The memory never speaks of a node that is gone, in the saved state and at every point of a
\* maintenance, and a live node holds the events of all it absorbed (Dcmdb::merge_nodes,
\* prune_pass_protected, check_invariants): MemorySound holds for every bound.
THEOREM MemoryStaysSound == MemorySpec => []MemorySound
BY ContextInit, ContextStep, ContextInvMemorySound, PTL DEF MemorySpec

\* Every coordinate under a root, and under a root that a reader still holds, is found in the memory
\* of now, and the first and last event of a root are held under it (ContextForest::verify,
\* referenced_nodes, compact and maintain_cognition): ContextResolves holds for every bound.
THEOREM ContextStaysResolved == MemorySpec => []ContextResolves
BY ContextInit, ContextStep, ContextInvResolves, PTL DEF MemorySpec

-----------------------------------------------------------------------------
(* Answer grounding.                                                       *)
(*                                                                         *)
(* The inductive invariant is GroundInv.  To AnswersGrounded it adds what  *)
(* evidence may be made of: a record that is admissible and says the claim *)
(* itself was heard, a recall names only records of the log, a message of  *)
(* the user or of a source was heard, an answer that is decided about is   *)
(* owned, and a journal is either pending, so that the recovery caveats it,*)
(* or holds an answer that is owned.                                       *)

\* A text, as a record or a message.
Rec == [role : {"user", "tool", "assistant", "host"}, tool : {"none", "source", "recall", "model"},
        sound : BOOLEAN, inner : SUBSET Nat, marked : BOOLEAN, says : BOOLEAN, caveated : BOOLEAN]

\* An answer that states the claim without a caveat was preceded by someone else saying it.
Owned(a, h) == a.says /\ ~a.caveated => h

\* A record of the log, which has n records.
Kept(r, n, h) ==
  /\ r \in Rec /\ r.inner \subseteq 1..n
  /\ Admissible(r) /\ ~(r.role = "tool" /\ r.tool = "recall") /\ r.says => h
  /\ r.role = "assistant" /\ ~r.marked => Owned(r, h)

\* A message of the turn.
Meant(m, n, h) ==
  /\ m \in Rec /\ m.inner \subseteq 1..n
  /\ m.role = "tool" => m.tool # "none"
  /\ m.role = "user" \/ (m.role = "tool" /\ m.tool = "source") => (m.says => h)

LogOK(l, h) == l \in Seq(Rec) /\ \A i \in DOMAIN l : Kept(l[i], Len(l), h)
TurnOK(ms, n, h) == ms \in Seq(Rec) /\ \A k \in DOMAIN ms : Meant(ms[k], n, h)

IsAnswer(a) == a \in [says : BOOLEAN, caveated : BOOLEAN]

JournalOK(j, h) ==
  IsAnswer(j.answer) /\ j.pending \in BOOLEAN /\ (j.pending \/ Owned(j.answer, h))

\* What the log, the turn and the recall hold.
SaidOK ==
  /\ heard \in BOOLEAN
  /\ LogOK(log, heard) /\ TurnOK(messages, Len(log), heard) /\ recalled \subseteq 1..Len(log)

\* An answer that is decided about, or a caveated draft under repair.
DecidedOK ==
  /\ IsAnswer(answer)
  /\ phase \in {"repairing", "decided", "finalized"} => Owned(answer, heard)

JournalsOK == IsFiniteSet(journals) /\ \A j \in journals : JournalOK(j, heard)

GroundInv == SaidOK /\ DecidedOK /\ JournalsOK

-----------------------------------------------------------------------------
(* What the records of the log support.                                    *)

\* What stands in Supports at a depth, for any function of the depths before it.
SupportRow(g, depth) ==
  [i \in DOMAIN log |->
     /\ depth > 0
     /\ Admissible(log[i])
     /\ IF log[i].role = "tool" /\ log[i].tool = "recall"
        THEN \E j \in log[i].inner : g[depth - 1][j]
        ELSE log[i].says]

SupportSolves(n, g) == g = [depth \in 0..n |-> SupportRow(g, depth)]

LEMMA SupportChosen == Supports = (CHOOSE g : SupportSolves(MaxDepth, g))[MaxDepth]
BY DEF Supports, SupportSolves, SupportRow

\* A depth of recall depends on the one before it alone.
LEMMA SupportRowSame ==
  ASSUME NEW f, NEW g, NEW d \in Nat, d > 0 => f[d - 1] = g[d - 1]
  PROVE  SupportRow(f, d) = SupportRow(g, d)
<1>1. CASE d = 0
  <2>1. ~(d > 0)
    BY <1>1
  <2> QED
    BY <2>1, Zenon DEF SupportRow
<1>2. CASE d > 0
  <2>1. f[d - 1] = g[d - 1]
    BY <1>2
  <2> QED
    BY <2>1, Zenon DEF SupportRow
<1> QED
  BY <1>1, <1>2

LEMMA SupportExists ==
  ASSUME NEW b \in Nat
  PROVE  \E g : SupportSolves(b, g)
<1> DEFINE Bad == {n \in Nat : ~\E g : SupportSolves(n, g)}
<1> SUFFICES ASSUME Bad # {} PROVE FALSE
  OBVIOUS
<1>1. PICK n \in Bad : \A m \in Bad : n <= m
  <2>1. Bad \in SUBSET Nat
    OBVIOUS
  <2> HIDE DEF Bad
  <2> QED
    BY <2>1, LeastNatural
<1>2. n \in Nat /\ ~\E g : SupportSolves(n, g)
  BY <1>1
<1>3. PICK f : n > 0 => SupportSolves(n - 1, f)
  <2>1. CASE n = 0
    BY <2>1
  <2>2. CASE n > 0
    <3>1. n - 1 \in Nat /\ n - 1 \notin Bad
      BY <1>1, <1>2, <2>2
    <3> QED
      BY <3>1
  <2> QED
    BY <1>2, <2>1, <2>2
<1>4. PICK g : g = [d \in 0..n |-> IF d = n THEN SupportRow(f, n) ELSE f[d]]
  OBVIOUS
<1>5. \A d \in 0..n : g[d] = SupportRow(f, d)
  <2> SUFFICES ASSUME NEW d \in 0..n PROVE g[d] = SupportRow(f, d)
    OBVIOUS
  <2>1. CASE d = n
    BY <1>4, <2>1
  <2>2. CASE d # n
    <3>1. d \in 0..(n - 1) /\ n > 0
      BY <1>2, <2>2
    <3>2. f = [e \in 0..(n - 1) |-> SupportRow(f, e)]
      BY <1>3, <3>1 DEF SupportSolves
    <3>3. f[d] = SupportRow(f, d)
      <4>1. PICK F : F = [e \in 0..(n - 1) |-> SupportRow(f, e)]
        OBVIOUS
      <4>2. F[d] = SupportRow(f, d)
        BY <3>1, <4>1
      <4> QED
        BY <3>2, <4>1, <4>2
    <3> QED
      BY <1>4, <2>2, <3>3
  <2> QED
    BY <2>1, <2>2
<1>6. \A d \in 0..n : SupportRow(f, d) = SupportRow(g, d)
  <2> SUFFICES ASSUME NEW d \in 0..n PROVE SupportRow(f, d) = SupportRow(g, d)
    OBVIOUS
  <2>1. d \in Nat
    OBVIOUS
  <2>2. d > 0 => f[d - 1] = g[d - 1]
    <3> SUFFICES ASSUME d > 0 PROVE f[d - 1] = g[d - 1]
      OBVIOUS
    <3>1. d - 1 \in 0..n /\ d - 1 # n
      BY <1>2, <2>1
    <3> QED
      BY <1>4, <3>1
  <2> QED
    BY <2>1, <2>2, SupportRowSame
<1>7. SupportSolves(n, g)
  <2>1. DOMAIN g = 0..n
    BY <1>4
  <2>2. \A d \in 0..n : g[d] = SupportRow(g, d)
    BY <1>5, <1>6
  <2>3. g = [d \in 0..n |-> g[d]]
    BY <1>4
  <2> QED
    BY <2>2, <2>3 DEF SupportSolves
<1> QED
  BY <1>2, <1>7

\* What a record supports was heard: a record that says the claim itself was not the model's, and
\* one that supports it through others has one among them that does.
LEMMA SupportsHeard ==
  ASSUME LogOK(log, heard), NEW i \in 1..Len(log), Supports[i]
  PROVE  heard
<1> SUFFICES ASSUME ~heard PROVE FALSE
  OBVIOUS
<1>0. MaxDepth \in Nat
  BY DepthBound
<1>1. PICK g : SupportSolves(MaxDepth, g) /\ Supports = g[MaxDepth]
  <2>1. \E g : SupportSolves(MaxDepth, g)
    BY <1>0, SupportExists
  <2>2. SupportSolves(MaxDepth, CHOOSE g : SupportSolves(MaxDepth, g))
    BY <2>1, Zenon
  <2> QED
    BY <2>2, SupportChosen
<1>2. DOMAIN log = 1..Len(log)
  BY DEF LogOK
<1>3. \A d \in 0..MaxDepth : g[d] = SupportRow(g, d)
  <2>1. PICK F : F = [d \in 0..MaxDepth |-> SupportRow(g, d)]
    OBVIOUS
  <2>2. g = F
    BY <1>1, <2>1 DEF SupportSolves
  <2>3. \A d \in 0..MaxDepth : F[d] = SupportRow(g, d)
    BY <2>1
  <2> QED
    BY <2>2, <2>3
<1>4. PICK Bad : Bad = {d \in 0..MaxDepth : \E k \in DOMAIN log : g[d][k]}
  OBVIOUS
<1>5. MaxDepth \in Bad
  <2>1. MaxDepth \in 0..MaxDepth
    BY <1>0
  <2> QED
    BY <1>1, <1>2, <1>4, <2>1
<1>6. PICK d \in Bad : \A e \in Bad : d <= e
  <2>1. Bad \in SUBSET Nat /\ Bad # {}
    BY <1>4, <1>5
  <2> QED
    BY <2>1, LeastNatural
<1>7. d \in 0..MaxDepth
  BY <1>4, <1>6
<1>8. PICK k \in DOMAIN log : SupportRow(g, d)[k]
  BY <1>3, <1>4, <1>6, <1>7
<1>9. /\ d > 0
      /\ Admissible(log[k])
      /\ IF log[k].role = "tool" /\ log[k].tool = "recall"
         THEN \E j \in log[k].inner : g[d - 1][j]
         ELSE log[k].says
  BY <1>8, Zenon DEF SupportRow
<1>10. Kept(log[k], Len(log), heard)
  BY <1>8 DEF LogOK
<1>11. CASE log[k].role = "tool" /\ log[k].tool = "recall"
  <2>1. PICK j \in log[k].inner : g[d - 1][j]
    BY <1>9, <1>11, Zenon
  <2>2. j \in DOMAIN log
    BY <1>2, <1>10, <2>1 DEF Kept
  <2>3. d - 1 \in 0..MaxDepth
    BY <1>0, <1>7, <1>9
  <2>4. d - 1 \in Bad
    BY <1>4, <2>1, <2>2, <2>3
  <2> QED
    BY <1>6, <1>7, <2>4
<1>12. CASE ~(log[k].role = "tool" /\ log[k].tool = "recall")
  <2>1. log[k].says
    BY <1>9, <1>12, Zenon
  <2> QED
    BY <1>9, <1>10, <1>12, <2>1, Zenon DEF Kept
<1> QED
  BY <1>11, <1>12

\* The verifier finds only what the user or the world said.
LEMMA EvidenceHeard ==
  ASSUME LogOK(log, heard), TurnOK(messages, Len(log), heard), recalled \subseteq 1..Len(log),
         Evidence
  PROVE  heard
<1>1. CASE \E i \in recalled : Supports[i]
  <2>1. PICK i \in recalled : Supports[i]
    BY <1>1
  <2>2. i \in 1..Len(log)
    OBVIOUS
  <2> QED
    BY <2>1, <2>2, SupportsHeard
<1>2. CASE \E k \in DOMAIN messages :
             \/ messages[k].role = "user" /\ messages[k].says
             \/ messages[k].role = "tool" /\ messages[k].sound /\ messages[k].tool = "source"
                /\ messages[k].says
             \/ messages[k].role = "tool" /\ messages[k].sound /\ messages[k].tool = "recall"
                /\ \E i \in messages[k].inner : Supports[i]
  <2>1. PICK k \in DOMAIN messages :
             \/ messages[k].role = "user" /\ messages[k].says
             \/ messages[k].role = "tool" /\ messages[k].sound /\ messages[k].tool = "source"
                /\ messages[k].says
             \/ messages[k].role = "tool" /\ messages[k].sound /\ messages[k].tool = "recall"
                /\ \E i \in messages[k].inner : Supports[i]
    BY <1>2
  <2>2. Meant(messages[k], Len(log), heard)
    BY <2>1 DEF TurnOK
  <2>3. CASE messages[k].role = "user" /\ messages[k].says
    BY <2>2, <2>3, Zenon DEF Meant
  <2>4. CASE messages[k].role = "tool" /\ messages[k].tool = "source" /\ messages[k].says
    BY <2>2, <2>4, Zenon DEF Meant
  <2>5. CASE \E i \in messages[k].inner : Supports[i]
    <3>1. PICK i \in messages[k].inner : Supports[i]
      BY <2>5
    <3>2. i \in 1..Len(log)
      BY <2>2, <3>1 DEF Meant
    <3> QED
      BY <3>1, <3>2, SupportsHeard
  <2> QED
    BY <2>1, <2>3, <2>4, <2>5, Zenon
<1> QED
  BY <1>1, <1>2, Zenon DEF Evidence

-----------------------------------------------------------------------------
(* A log and a turn that grow.                                             *)

LEMMA KeptLater ==
  ASSUME NEW r, NEW n \in Nat, NEW m \in Nat, n <= m, NEW h, NEW k, h => k, Kept(r, n, h)
  PROVE  Kept(r, m, k)
<1>1. 1..n \subseteq 1..m
  OBVIOUS
<1>2. r \in Rec /\ r.inner \subseteq 1..m
  BY <1>1 DEF Kept
<1> QED
  BY <1>2, Zenon DEF Kept, Owned

LEMMA MeantLater ==
  ASSUME NEW r, NEW n \in Nat, NEW m \in Nat, n <= m, NEW h, NEW k, h => k, Meant(r, n, h)
  PROVE  Meant(r, m, k)
<1>1. 1..n \subseteq 1..m
  OBVIOUS
<1>2. r \in Rec /\ r.inner \subseteq 1..m
  BY <1>1 DEF Meant
<1> QED
  BY <1>2, Zenon DEF Meant

LEMMA LogGrows ==
  ASSUME NEW l, NEW h, LogOK(l, h), NEW k, h => k, NEW x \in Seq(Rec),
         \A i \in DOMAIN x : Kept(x[i], Len(l), k)
  PROVE  LogOK(l \o x, k) /\ Len(l \o x) >= Len(l) /\ Len(l \o x) \in Nat
<1>1. l \in Seq(Rec) /\ Len(l) \in Nat /\ Len(x) \in Nat
  BY DEF LogOK
<1>2. l \o x \in Seq(Rec) /\ Len(l \o x) = Len(l) + Len(x)
  BY <1>1
<1>3. \A i \in DOMAIN (l \o x) : Kept((l \o x)[i], Len(l \o x), k)
  <2> SUFFICES ASSUME NEW i \in DOMAIN (l \o x) PROVE Kept((l \o x)[i], Len(l \o x), k)
    OBVIOUS
  <2>0. i \in 1..(Len(l) + Len(x))
    BY <1>2
  <2>1. CASE i <= Len(l)
    <3>1. i \in DOMAIN l /\ (l \o x)[i] = l[i]
      BY <1>1, <2>0, <2>1
    <3>2. Kept(l[i], Len(l), h)
      BY <3>1 DEF LogOK
    <3>3. Len(l \o x) \in Nat /\ Len(l) <= Len(l \o x)
      BY <1>1, <1>2
    <3>4. Kept(l[i], Len(l \o x), k)
      BY <1>1, <3>2, <3>3, KeptLater
    <3> QED
      BY <3>1, <3>4
  <2>2. CASE i > Len(l)
    <3>1. PICK j \in DOMAIN x : (l \o x)[i] = x[j]
      <4>1. i - Len(l) \in DOMAIN x /\ (l \o x)[i] = x[i - Len(l)]
        BY <1>1, <2>0, <2>2
      <4> QED
        BY <4>1
    <3>3. Len(l \o x) \in Nat /\ Len(l) <= Len(l \o x)
      BY <1>1, <1>2
    <3>4. Kept(x[j], Len(l \o x), k)
      BY <1>1, <3>1, <3>3, KeptLater
    <3> QED
      BY <3>1, <3>4
  <2> QED
    BY <1>1, <2>0, <2>1, <2>2
<1> QED
  BY <1>1, <1>2, <1>3 DEF LogOK

LEMMA LogAppend ==
  ASSUME NEW l, NEW h, LogOK(l, h), NEW k, h => k, NEW r, Kept(r, Len(l), k)
  PROVE  LogOK(Append(l, r), k) /\ Len(Append(l, r)) >= Len(l) /\ Len(Append(l, r)) \in Nat
<1>1. PICK x : x = <<r>>
  OBVIOUS
<1>2. r \in Rec
  BY DEF Kept
<1>3. x \in Seq(Rec) /\ \A i \in DOMAIN x : x[i] = r
  BY <1>1, <1>2
<1>4. \A i \in DOMAIN x : Kept(x[i], Len(l), k)
  BY <1>3
<1>5. LogOK(l \o x, k) /\ Len(l \o x) >= Len(l) /\ Len(l \o x) \in Nat
  BY <1>3, <1>4, LogGrows
<1>6. l \o x = Append(l, r)
  <2>1. l \in Seq(Rec)
    BY DEF LogOK
  <2> QED
    BY <1>1, <1>2, <2>1
<1> QED
  BY <1>5, <1>6

LEMMA TurnLater ==
  ASSUME NEW ms, NEW n \in Nat, NEW m \in Nat, n <= m, NEW h, NEW k, h => k, TurnOK(ms, n, h)
  PROVE  TurnOK(ms, m, k)
<1>1. \A i \in DOMAIN ms : Meant(ms[i], m, k)
  <2> SUFFICES ASSUME NEW i \in DOMAIN ms PROVE Meant(ms[i], m, k)
    OBVIOUS
  <2>1. Meant(ms[i], n, h)
    BY DEF TurnOK
  <2> QED
    BY <2>1, MeantLater
<1> QED
  BY <1>1 DEF TurnOK

LEMMA TurnAppend ==
  ASSUME NEW ms, NEW n \in Nat, NEW h, TurnOK(ms, n, h), NEW r, Meant(r, n, h)
  PROVE  TurnOK(Append(ms, r), n, h)
<1>1. ms \in Seq(Rec) /\ r \in Rec /\ Len(ms) \in Nat
  BY DEF TurnOK, Meant
<1>2. \A i \in DOMAIN Append(ms, r) : Meant(Append(ms, r)[i], n, h)
  <2> SUFFICES ASSUME NEW i \in DOMAIN Append(ms, r) PROVE Meant(Append(ms, r)[i], n, h)
    OBVIOUS
  <2>1. i \in 1..(Len(ms) + 1)
    BY <1>1
  <2>2. CASE i = Len(ms) + 1
    <3>1. Append(ms, r)[i] = r
      BY <1>1, <2>2
    <3> QED
      BY <3>1
  <2>3. CASE i # Len(ms) + 1
    <3>1. i \in DOMAIN ms /\ Append(ms, r)[i] = ms[i]
      BY <1>1, <2>1, <2>3
    <3>2. Meant(ms[i], n, h)
      BY <3>1 DEF TurnOK
    <3> QED
      BY <3>1, <3>2
  <2> QED
    BY <2>2, <2>3
<1> QED
  BY <1>1, <1>2 DEF TurnOK

-----------------------------------------------------------------------------
(* A turn that is closed.                                                  *)

\* A result of a tool as a record: marked when the tool hands back model output.
ResultOf(m) == [m EXCEPT !.marked = m.tool = "model"]

LEMMA ResultKept ==
  ASSUME NEW m, NEW n, NEW h, Meant(m, n, h), m.role = "tool"
  PROVE  Kept(ResultOf(m), n, h)
<1>1. m \in Rec /\ m.inner \subseteq 1..n
  BY DEF Meant
<1>2. PICK r : r = ResultOf(m)
  OBVIOUS
<1>3. /\ r \in Rec /\ r.role = "tool" /\ r.tool = m.tool /\ r.inner = m.inner /\ r.says = m.says
      /\ r.marked = (m.tool = "model")
  BY <1>1, <1>2 DEF ResultOf, Rec
<1>4. m.tool \in {"source", "recall", "model"}
  BY <1>1 DEF Meant, Rec
<1>5. Admissible(r) /\ ~(r.role = "tool" /\ r.tool = "recall") /\ r.says => h
  <2> SUFFICES ASSUME Admissible(r), ~(r.role = "tool" /\ r.tool = "recall"), r.says
               PROVE  h
    OBVIOUS
  <2>1. m.tool = "source"
    BY <1>3, <1>4 DEF Admissible
  <2>2. m.says
    BY <1>3
  <2> QED
    BY <2>1, <2>2, Zenon DEF Meant
<1>6. r.role # "assistant"
  BY <1>3
<1>7. Kept(r, n, h)
  BY <1>1, <1>3, <1>5, <1>6 DEF Kept
<1> QED
  BY <1>2, <1>7

LEMMA RecordedKept ==
  ASSUME NEW a, IsAnswer(a), NEW n, NEW h, Owned(a, h)
  PROVE  Kept(Recorded(a), n, h)
<1>1. PICK r : r = Recorded(a)
  OBVIOUS
<1>2. /\ r \in Rec /\ r.role = "assistant" /\ r.inner = {} /\ r.says = a.says
      /\ r.caveated = a.caveated
  BY <1>1 DEF Recorded, Text, Rec, IsAnswer
<1>3. ~Admissible(r)
  BY <1>2 DEF Admissible
<1>4. Owned(r, h)
  BY <1>2 DEF Owned
<1>5. Kept(r, n, h)
  BY <1>2, <1>3, <1>4 DEF Kept
<1> QED
  BY <1>1, <1>5

\* The messages of the turn that are results, and the n-th of them.
ToolAt == {k \in DOMAIN messages : messages[k].role = "tool"}

NthTool(n) == CHOOSE k \in ToolAt : Cardinality({j \in ToolAt : j < k}) = n - 1

LEMMA ResultsListed == Results = [n \in 1..Cardinality(ToolAt) |-> ResultOf(messages[NthTool(n)])]
BY DEF Results, ToolAt, NthTool, ResultOf

\* Every result in the log is one of the turn's.
LEMMA ResultsKept ==
  ASSUME NEW n, NEW h, TurnOK(messages, n, h)
  PROVE  Results \in Seq(Rec) /\ \A i \in DOMAIN Results : Kept(Results[i], n, h)
<1>1. messages \in Seq(Rec) /\ Len(messages) \in Nat /\ DOMAIN messages = 1..Len(messages)
  BY DEF TurnOK
<1>2. PICK at : at = ToolAt
  OBVIOUS
<1>3. /\ at \in SUBSET (0..Len(messages))
      /\ \A k \in at : k \in DOMAIN messages /\ messages[k].role = "tool"
  BY <1>1, <1>2 DEF ToolAt
<1>4. PICK c \in Nat : c = Cardinality(at)
  <2>1. \A b \in Int : IsFiniteSet(0..b)
    BY FS_Interval
  <2>2. IsFiniteSet(0..Len(messages))
    BY <1>1, <2>1
  <2> QED
    BY <1>3, <2>2, FS_Subset, FS_CardinalityType
<1>5. PICK nth : nth = [q \in 1..c |-> NthTool(q)]
  OBVIOUS
<1>6. \A q \in 1..c : nth[q] \in at
  <2> SUFFICES ASSUME NEW q \in 1..c PROVE nth[q] \in at
    OBVIOUS
  <2>1. \E k \in at : Cardinality({j \in at : j < k}) = q - 1
    BY <1>1, <1>3, <1>4, NthExists
  <2>2. NthTool(q) \in ToolAt
    <3>1. \E k \in ToolAt : Cardinality({j \in ToolAt : j < k}) = q - 1
      BY <1>2, <2>1
    <3> QED
      BY <3>1, Zenon DEF NthTool
  <2> QED
    BY <1>2, <1>5, <2>2
<1>7. Results = [q \in 1..c |-> ResultOf(messages[nth[q]])]
  <2>1. Results = [q \in 1..c |-> ResultOf(messages[NthTool(q)])]
    BY <1>2, <1>4, ResultsListed
  <2> QED
    BY <1>5, <2>1
<1>8. \A q \in 1..c : Kept(ResultOf(messages[nth[q]]), n, h)
  <2> SUFFICES ASSUME NEW q \in 1..c PROVE Kept(ResultOf(messages[nth[q]]), n, h)
    OBVIOUS
  <2>1. PICK k \in DOMAIN messages : k = nth[q] /\ messages[k].role = "tool"
    BY <1>3, <1>6
  <2>2. Meant(messages[k], n, h)
    BY DEF TurnOK
  <2> QED
    BY <2>1, <2>2, ResultKept
<1>9. \A q \in 1..c : ResultOf(messages[nth[q]]) \in Rec
  BY <1>8 DEF Kept
<1>10. PICK R : R = [q \in 1..c |-> ResultOf(messages[nth[q]])]
  OBVIOUS
<1>11. R \in Seq(Rec) /\ DOMAIN R = 1..c /\ \A q \in 1..c : R[q] = ResultOf(messages[nth[q]])
  <2>1. R \in [1..c -> Rec]
    BY <1>9, <1>10
  <2> QED
    BY <1>4, <1>10, <2>1
<1>12. \A q \in DOMAIN R : Kept(R[q], n, h)
  BY <1>8, <1>11
<1> QED
  BY <1>7, <1>10, <1>11, <1>12

Answers(as, h) ==
  /\ \E n \in Nat : DOMAIN as = 1..n
  /\ \A k \in DOMAIN as : IsAnswer(as[k]) /\ Owned(as[k], h)

\* Closing a turn with answers that are owned leaves a log that is.
LEMMA ClosedLog ==
  ASSUME NEW as, NEW h, Answers(as, h), LogOK(log, h), TurnOK(messages, Len(log), h), NEW z,
         z = log \o Results \o [k \in DOMAIN as |-> Recorded(as[k])]
  PROVE  LogOK(z, h)
<1>0. log \in Seq(Rec) /\ Len(log) \in Nat
  BY DEF LogOK
<1>1. Results \in Seq(Rec) /\ \A i \in DOMAIN Results : Kept(Results[i], Len(log), h)
  BY <1>0, ResultsKept
<1>2. PICK y : y = log \o Results
  OBVIOUS
<1>3. LogOK(y, h)
  BY <1>1, <1>2, LogGrows
<1>4. PICK x : x = [k \in DOMAIN as |-> Recorded(as[k])]
  OBVIOUS
<1>5. DOMAIN x = DOMAIN as /\ \A k \in DOMAIN x : x[k] = Recorded(as[k])
  BY <1>4
<1>6. \A k \in DOMAIN x : Kept(x[k], Len(y), h)
  <2> SUFFICES ASSUME NEW k \in DOMAIN x PROVE Kept(x[k], Len(y), h)
    OBVIOUS
  <2>1. IsAnswer(as[k]) /\ Owned(as[k], h)
    BY <1>5 DEF Answers
  <2> QED
    BY <1>5, <2>1, RecordedKept
<1>7. x \in Seq(Rec)
  <2>1. PICK n \in Nat : DOMAIN as = 1..n
    BY DEF Answers
  <2>2. \A k \in 1..n : x[k] \in Rec
    BY <1>5, <1>6, <2>1 DEF Kept
  <2>3. x \in [1..n -> Rec]
    BY <1>4, <2>1, <2>2
  <2> QED
    BY <2>1, <2>3
<1>8. LogOK(y \o x, h)
  <2>1. h => h
    OBVIOUS
  <2> QED
    BY <1>3, <1>6, <1>7, <2>1, LogGrows, Zenon
<1> QED
  BY <1>2, <1>4, <1>8

\* The journals of a turn, in whatever order they are recovered.
LEMMA JournalsListed ==
  ASSUME NEW S, IsFiniteSet(S)
  PROVE  /\ \E n \in Nat : DOMAIN SetToSeq(S) = 1..n
         /\ \A k \in DOMAIN SetToSeq(S) : SetToSeq(S)[k] \in S
<1>1. PICK n \in Nat : n = Cardinality(S)
  BY FS_CardinalityType
<1>2. \E f \in [1..n -> S] : IsInjective(f)
  <2>1. ExistsBijection(1..n, S)
    BY <1>1, FS_CardinalityType
  <2> QED
    BY <2>1, Zenon DEF ExistsBijection, Bijection, Injection
<1>3. SetToSeq(S) \in [1..n -> S]
  <2>1. SetToSeq(S) = CHOOSE f \in [1..n -> S] : IsInjective(f)
    BY <1>1, Zenon DEF SetToSeq
  <2> QED
    BY <1>2, <2>1, Zenon
<1>4. DOMAIN SetToSeq(S) = 1..n
  BY <1>3
<1>5. \A k \in 1..n : SetToSeq(S)[k] \in S
  BY <1>3
<1> QED
  BY <1>4, <1>5

\* What the recovery makes of a journal is caveated unless its grounding was finalized.
LEMMA RecoveredOwned ==
  ASSUME NEW j, NEW h, JournalOK(j, h)
  PROVE  IsAnswer(Recovered(j)) /\ Owned(Recovered(j), h)
<1>1. CASE j.pending
  <2>1. PICK a : a = j.answer /\ a \in [says : BOOLEAN, caveated : BOOLEAN]
    BY DEF JournalOK, IsAnswer
  <2>2. Recovered(j) = [a EXCEPT !.caveated = TRUE]
    BY <1>1, <2>1 DEF Recovered, Caveated
  <2> QED
    BY <2>1, <2>2 DEF IsAnswer, Owned
<1>2. CASE ~j.pending
  <2>1. Recovered(j) = j.answer
    BY <1>2, Zenon DEF Recovered
  <2> QED
    BY <1>2, <2>1 DEF JournalOK
<1> QED
  BY <1>1, <1>2

-----------------------------------------------------------------------------
(* One lemma per action.                                                   *)

LEMMA GroundInvInit == GroundInit => GroundInv
<1> SUFFICES ASSUME GroundInit PROVE GroundInv
  OBVIOUS
<1>1. SaidOK
  <2>1. log = <<>> /\ messages = <<>> /\ recalled = {} /\ heard = FALSE
    BY DEF GroundInit
  <2>2. \A x : x = <<>> => x \in Seq(Rec) /\ DOMAIN x = {}
    OBVIOUS
  <2> QED
    BY <2>1, <2>2 DEF SaidOK, LogOK, TurnOK
<1>2. DecidedOK
  BY DEF GroundInit, DecidedOK, NoAnswer, IsAnswer, Owned
<1>3. JournalsOK
  BY FS_EmptySet DEF GroundInit, JournalsOK
<1> QED
  BY <1>1, <1>2, <1>3 DEF GroundInv

\* What was owned stays so when more is heard.
LEMMA OwnedLater ==
  ASSUME NEW a, NEW h, NEW k, h => k, Owned(a, h)
  PROVE  Owned(a, k)
BY Zenon DEF Owned

LEMMA JournalsLater ==
  ASSUME JournalsOK, heard => heard', journals' = journals
  PROVE  JournalsOK'
<1>1. \A j \in journals : JournalOK(j, heard')
  <2> SUFFICES ASSUME NEW j \in journals PROVE JournalOK(j, heard')
    OBVIOUS
  <2>1. JournalOK(j, heard)
    BY DEF JournalsOK
  <2> QED
    BY <2>1, OwnedLater DEF JournalOK
<1> QED
  BY <1>1 DEF JournalsOK

LEMMA SaidSame ==
  ASSUME SaidOK, UNCHANGED <<log, messages, recalled, heard>>
  PROVE  SaidOK'
BY DEF SaidOK

LEMMA LogLength ==
  ASSUME SaidOK
  PROVE  Len(log) \in Nat /\ DOMAIN log = 1..Len(log)
BY DEF SaidOK, LogOK

\* A message that says nothing more is added to the turn.
LEMMA SaidMessage ==
  ASSUME SaidOK, NEW r, Meant(r, Len(log), heard'), heard => heard', heard' \in BOOLEAN,
         messages' = Append(messages, r), UNCHANGED <<log, recalled>>
  PROVE  SaidOK'
<1>1. Len(log) \in Nat
  BY LogLength
<1>2. TurnOK(messages, Len(log), heard')
  BY <1>1, TurnLater DEF SaidOK
<1>3. TurnOK(messages', Len(log), heard')
  <2>1. TurnOK(Append(messages, r), Len(log), heard')
    BY <1>1, <1>2, TurnAppend
  <2> QED
    BY <2>1
<1>4. LogOK(log, heard')
  <2>1. \A i \in DOMAIN log : Kept(log[i], Len(log), heard')
    <3> SUFFICES ASSUME NEW i \in DOMAIN log PROVE Kept(log[i], Len(log), heard')
      OBVIOUS
    <3>1. Kept(log[i], Len(log), heard)
      BY DEF SaidOK, LogOK
    <3> QED
      BY <1>1, <3>1, KeptLater
  <2> QED
    BY <2>1 DEF SaidOK, LogOK
<1> QED
  BY <1>3, <1>4 DEF SaidOK

\* A record of the model is added to the log and a message to the turn.
LEMMA SaidRecord ==
  ASSUME SaidOK, NEW q, Kept(q, Len(log), heard), NEW r, Meant(r, Len(log), heard),
         log' = Append(log, q), messages' = Append(messages, r), UNCHANGED <<recalled, heard>>
  PROVE  SaidOK'
<1>1. Len(log) \in Nat
  BY LogLength
<1>2. PICK l : l = Append(log, q)
  OBVIOUS
<1>3. LogOK(l, heard) /\ Len(l) >= Len(log) /\ Len(l) \in Nat
  BY <1>2, LogAppend DEF SaidOK
<1>4. PICK ms : ms = Append(messages, r)
  OBVIOUS
<1>5. TurnOK(ms, Len(log), heard)
  BY <1>1, <1>4, TurnAppend DEF SaidOK
<1>6. TurnOK(ms, Len(l), heard)
  <2>1. Len(log) <= Len(l)
    BY <1>1, <1>3
  <2> QED
    BY <1>1, <1>3, <1>5, <2>1, TurnLater
<1>7. recalled \subseteq 1..Len(l)
  <2>1. 1..Len(log) \subseteq 1..Len(l)
    BY <1>1, <1>3
  <2> QED
    BY <2>1 DEF SaidOK
<1>8. log' = l /\ messages' = ms
  BY <1>2, <1>4
<1> QED
  BY <1>3, <1>6, <1>7, <1>8 DEF SaidOK

LEMMA GroundBegin ==
  ASSUME GroundInv, NEW says \in BOOLEAN, NEW found \in Few(DOMAIN log),
         BeginGroundedTurn(says, found)
  PROVE  GroundInv'
<1>0. SaidOK /\ DecidedOK /\ JournalsOK
  BY DEF GroundInv
<1>1. Len(log) \in Nat /\ DOMAIN log = 1..Len(log)
  BY <1>0, LogLength
<1>2. PICK r : r = Text("user", "none", TRUE, {}, FALSE, says)
  OBVIOUS
<1>3. r \in Rec /\ r.role = "user" /\ r.inner = {} /\ r.says = says /\ r.marked = FALSE
  BY <1>2 DEF Text, Rec
<1>4. heard' = (heard \/ says) /\ heard \in BOOLEAN
  BY <1>0 DEF BeginGroundedTurn, SaidOK
<1>5. (heard => heard') /\ heard' \in BOOLEAN /\ (says => heard')
  BY <1>4
<1>6. \A n : Kept(r, n, heard') /\ Meant(r, n, heard')
  <2>1. r.role # "assistant" /\ r.role # "tool"
    BY <1>3
  <2>2. r.says => heard'
    BY <1>3, <1>5
  <2> QED
    BY <1>3, <2>1, <2>2 DEF Kept, Meant
<1>7. PICK l : l = Append(log, r)
  OBVIOUS
<1>8. LogOK(l, heard') /\ Len(l) >= Len(log) /\ Len(l) \in Nat
  BY <1>0, <1>5, <1>6, <1>7, LogAppend DEF SaidOK
<1>9. TurnOK(<<r>>, Len(l), heard')
  BY <1>3, <1>6 DEF TurnOK
<1>10. found \subseteq 1..Len(l)
  <2>1. 1..Len(log) \subseteq 1..Len(l)
    BY <1>1, <1>8
  <2> QED
    BY <1>1, <2>1 DEF Few
<1>11. log' = l /\ messages' = <<r>> /\ recalled' = found
  BY <1>2, <1>7 DEF BeginGroundedTurn
<1>12. SaidOK'
  BY <1>5, <1>8, <1>9, <1>10, <1>11 DEF SaidOK
<1>13. DecidedOK'
  BY <1>0 DEF BeginGroundedTurn, DecidedOK
<1>14. JournalsOK'
  BY <1>0, <1>5, JournalsLater DEF BeginGroundedTurn
<1> QED
  BY <1>12, <1>13, <1>14 DEF GroundInv

\* While a turn works its answer and its journals stay as they are.
LEMMA DecidedLater ==
  ASSUME DecidedOK, heard => heard', UNCHANGED <<answer, phase>>
  PROVE  DecidedOK'
<1>1. Owned(answer, heard) => Owned(answer, heard')
  BY OwnedLater
<1> QED
  BY <1>1 DEF DecidedOK

LEMMA GroundSource ==
  ASSUME GroundInv, NEW says \in BOOLEAN, NEW sound \in BOOLEAN, UseSource(says, sound)
  PROVE  GroundInv'
<1>0. SaidOK /\ DecidedOK /\ JournalsOK
  BY DEF GroundInv
<1>2. PICK r : r = Text("tool", "source", sound, {}, FALSE, says)
  OBVIOUS
<1>3. r \in Rec /\ r.role = "tool" /\ r.tool = "source" /\ r.inner = {} /\ r.says = says
  BY <1>2 DEF Text, Rec
<1>4. heard' = (heard \/ says) /\ heard \in BOOLEAN
  BY <1>0 DEF UseSource, SaidOK
<1>5. (heard => heard') /\ heard' \in BOOLEAN /\ (says => heard')
  BY <1>4
<1>6. Meant(r, Len(log), heard')
  BY <1>3, <1>5 DEF Meant
<1>7. messages' = Append(messages, r) /\ UNCHANGED <<log, recalled, answer, phase, journals>>
  BY <1>2 DEF UseSource
<1>8. SaidOK'
  BY <1>0, <1>5, <1>6, <1>7, SaidMessage
<1> QED
  BY <1>0, <1>5, <1>7, <1>8, DecidedLater, JournalsLater DEF GroundInv

LEMMA GroundRecall ==
  ASSUME GroundInv, NEW found \in Few(DOMAIN log), UseRecall(found)
  PROVE  GroundInv'
<1>0. SaidOK /\ DecidedOK /\ JournalsOK
  BY DEF GroundInv
<1>1. Len(log) \in Nat /\ found \in SUBSET (1..Len(log))
  BY <1>0, LogLength DEF Few
<1>2. PICK r : r = Text("tool", "recall", TRUE, found, FALSE, FALSE)
  OBVIOUS
<1>3. r \in Rec /\ r.role = "tool" /\ r.tool = "recall" /\ r.inner = found /\ r.says = FALSE
  <2>1. found \in SUBSET Nat
    BY <1>1
  <2> QED
    BY <1>2, <2>1 DEF Text, Rec
<1>4. heard' = heard /\ heard \in BOOLEAN
  BY <1>0 DEF UseRecall, SaidOK
<1>5. (heard => heard') /\ heard' \in BOOLEAN
  BY <1>4
<1>6. Meant(r, Len(log), heard')
  BY <1>1, <1>3 DEF Meant
<1>7. messages' = Append(messages, r) /\ UNCHANGED <<log, recalled, answer, phase, journals>>
  BY <1>2 DEF UseRecall
<1>8. SaidOK'
  BY <1>0, <1>5, <1>6, <1>7, SaidMessage
<1> QED
  BY <1>0, <1>5, <1>7, <1>8, DecidedLater, JournalsLater DEF GroundInv

\* What the model commits is marked as its own.
LEMMA GroundModelRecord ==
  ASSUME GroundInv, NEW says \in BOOLEAN, NEW role \in {"user", "assistant"},
         NEW told \in BOOLEAN, log' = Append(log, Text(role, "none", TRUE, {}, TRUE, says)),
         messages' = Append(messages, Text("tool", "model", TRUE, {}, FALSE, told)),
         UNCHANGED <<phase, recalled, answer, journals, heard>>
  PROVE  GroundInv'
<1>0. SaidOK /\ DecidedOK /\ JournalsOK
  BY DEF GroundInv
<1>1. PICK q : q = Text(role, "none", TRUE, {}, TRUE, says)
  OBVIOUS
<1>2. q \in Rec /\ q.inner = {} /\ q.marked = TRUE
  BY <1>1 DEF Text, Rec
<1>3. Kept(q, Len(log), heard)
  BY <1>2 DEF Kept, Admissible
<1>4. PICK r : r = Text("tool", "model", TRUE, {}, FALSE, told)
  OBVIOUS
<1>5. r \in Rec /\ r.role = "tool" /\ r.tool = "model" /\ r.inner = {}
  BY <1>4 DEF Text, Rec
<1>6. Meant(r, Len(log), heard)
  BY <1>5 DEF Meant
<1>7. SaidOK'
  BY <1>0, <1>1, <1>3, <1>4, <1>6, SaidRecord
<1>8. heard => heard'
  OBVIOUS
<1> QED
  BY <1>0, <1>7, <1>8, DecidedLater, JournalsLater DEF GroundInv

LEMMA GroundSaveMemory ==
  ASSUME GroundInv, NEW says \in BOOLEAN, SaveMemory(says)
  PROVE  GroundInv'
BY GroundModelRecord DEF SaveMemory

LEMMA GroundDelegate ==
  ASSUME GroundInv, NEW says \in BOOLEAN, Delegate(says)
  PROVE  GroundInv'
BY GroundModelRecord DEF Delegate

\* A draft that is pending in the journal.
LEMMA JournalsDraft ==
  ASSUME JournalsOK, NEW a, IsAnswer(a), journals' = journals \cup {Journaled(a)}, heard' = heard
  PROVE  JournalsOK'
<1>1. JournalOK(Journaled(a), heard)
  BY DEF JournalOK, Journaled
<1>2. IsFiniteSet(journals \cup {Journaled(a)})
  BY FS_AddElement DEF JournalsOK
<1> QED
  BY <1>1, <1>2 DEF JournalsOK

LEMMA GroundGiveAnswer ==
  ASSUME GroundInv, NEW says \in BOOLEAN, GiveAnswer(says)
  PROVE  GroundInv'
<1>0. SaidOK /\ DecidedOK /\ JournalsOK
  BY DEF GroundInv
<1>1. PICK a : a = [says |-> says, caveated |-> FALSE]
  OBVIOUS
<1>2. IsAnswer(a)
  BY <1>1 DEF IsAnswer
<1>3. answer' = a /\ journals' = journals \cup {Journaled(a)} /\ heard' = heard
  BY <1>1 DEF GiveAnswer
<1>4. phase' \in {"answered", "reanswered"}
  BY DEF GiveAnswer
<1>5. SaidOK'
  BY <1>0, SaidSame DEF GiveAnswer
<1>6. JournalsOK'
  BY <1>0, <1>2, <1>3, JournalsDraft
<1>7. DecidedOK'
  BY <1>2, <1>3, <1>4 DEF DecidedOK
<1> QED
  BY <1>5, <1>6, <1>7 DEF GroundInv

LEMMA GroundGiveSummary ==
  ASSUME GroundInv, NEW says \in BOOLEAN, GiveSummary(says)
  PROVE  GroundInv'
<1>0. SaidOK /\ DecidedOK /\ JournalsOK
  BY DEF GroundInv
<1>1. PICK a : a = [says |-> says, caveated |-> FALSE]
  OBVIOUS
<1>2. IsAnswer(a)
  BY <1>1 DEF IsAnswer
<1>3. journals' = journals \cup {Journaled(a)} /\ heard' = heard
  BY <1>1 DEF GiveSummary
<1>4. answer' = [says |-> says, caveated |-> TRUE]
  BY DEF GiveSummary
<1>5. SaidOK'
  BY <1>0, SaidSame DEF GiveSummary
<1>6. JournalsOK'
  BY <1>0, <1>2, <1>3, JournalsDraft
<1>7. DecidedOK'
  BY <1>4 DEF DecidedOK, IsAnswer, Owned
<1> QED
  BY <1>5, <1>6, <1>7 DEF GroundInv

LEMMA CaveatedOwned ==
  ASSUME NEW a, IsAnswer(a), NEW h
  PROVE  IsAnswer(Caveated(a)) /\ Owned(Caveated(a), h)
BY DEF IsAnswer, Caveated, Owned

LEMMA GroundVerifiedFirst ==
  ASSUME GroundInv, VerifiedFirst
  PROVE  GroundInv'
<1>0. SaidOK /\ DecidedOK /\ JournalsOK
  BY DEF GroundInv
<1>1. answer.says => heard
  <2>1. answer.says => Evidence
    BY DEF VerifiedFirst
  <2> QED
    BY <1>0, <2>1, EvidenceHeard DEF SaidOK
<1>2. Owned(answer, heard)
  BY <1>1, Zenon DEF Owned
<1>3. SaidOK'
  BY <1>0, SaidSame DEF VerifiedFirst
<1>4. DecidedOK'
  BY <1>0, <1>2 DEF DecidedOK, VerifiedFirst
<1>5. JournalsOK'
  BY <1>0, JournalsLater DEF VerifiedFirst
<1> QED
  BY <1>3, <1>4, <1>5 DEF GroundInv

LEMMA JournalsFinal ==
  ASSUME NEW a, IsAnswer(a), Owned(a, heard'), journals' = Finalized(a)
  PROVE  JournalsOK'
<1>1. PICK j : j = [answer |-> a, pending |-> FALSE]
  OBVIOUS
<1>2. j.answer = a /\ j.pending = FALSE
  BY <1>1
<1>3. JournalOK(j, heard')
  BY <1>2 DEF JournalOK
<1>4. journals' = {j}
  BY <1>1 DEF Finalized
<1>5. IsFiniteSet({j})
  BY FS_Singleton
<1> QED
  BY <1>3, <1>4, <1>5 DEF JournalsOK

LEMMA GroundBeginRepair ==
  ASSUME GroundInv, NEW written \in BOOLEAN, BeginRepair(written)
  PROVE  GroundInv'
<1>0. SaidOK /\ DecidedOK /\ JournalsOK
  BY DEF GroundInv
<1>1. PICK a : a = Caveated(answer)
  OBVIOUS
<1>2. IsAnswer(a) /\ Owned(a, heard)
  BY <1>0, <1>1, CaveatedOwned DEF DecidedOK
<1>3. answer' = a /\ UNCHANGED <<log, recalled, heard>>
  BY <1>1 DEF BeginRepair
<1>4. heard \in BOOLEAN
  BY <1>0 DEF SaidOK
<1>5. DecidedOK'
  BY <1>2, <1>3 DEF DecidedOK
<1>6. CASE /\ journals' = Finalized(answer')
           /\ messages' = Append(messages, Text("host", "none", TRUE, {}, FALSE, TRUE))
  <2>1. PICK r : r = Text("host", "none", TRUE, {}, FALSE, TRUE)
    OBVIOUS
  <2>2. r \in Rec /\ r.role = "host" /\ r.inner = {}
    BY <2>1 DEF Text, Rec
  <2>3. Meant(r, Len(log), heard')
    BY <2>2 DEF Meant
  <2>4. SaidOK'
    BY <1>0, <1>3, <1>4, <1>6, <2>1, <2>3, SaidMessage
  <2>5. JournalsOK'
    BY <1>2, <1>3, <1>6, JournalsFinal
  <2> QED
    BY <1>5, <2>4, <2>5 DEF GroundInv
<1>7. CASE UNCHANGED <<journals, messages>>
  BY <1>0, <1>3, <1>5, <1>7, SaidSame, JournalsLater DEF GroundInv
<1> QED
  BY <1>6, <1>7 DEF BeginRepair

LEMMA GroundVerifiedSecond ==
  ASSUME GroundInv, VerifiedSecond
  PROVE  GroundInv'
<1>0. SaidOK /\ DecidedOK /\ JournalsOK
  BY DEF GroundInv
<1>1. IsAnswer(answer) /\ answer.says \in BOOLEAN
  BY <1>0 DEF DecidedOK, IsAnswer
<1>2. IsAnswer(answer') /\ Owned(answer', heard)
  <2>1. CASE answer.says /\ ~Evidence
    <3>1. answer' = Caveated(answer)
      BY <2>1 DEF VerifiedSecond
    <3> QED
      BY <1>1, <3>1, CaveatedOwned
  <2>2. CASE ~(answer.says /\ ~Evidence)
    <3>1. answer' = answer
      BY <2>2, Zenon DEF VerifiedSecond
    <3>2. answer.says => heard
      BY <1>0, <2>2, EvidenceHeard DEF SaidOK
    <3>3. Owned(answer, heard)
      BY <3>2, Zenon DEF Owned
    <3> QED
      BY <1>1, <3>1, <3>3
  <2> QED
    BY <2>1, <2>2
<1>3. SaidOK'
  BY <1>0, SaidSame DEF VerifiedSecond
<1>4. DecidedOK'
  BY <1>2 DEF DecidedOK, VerifiedSecond
<1>5. JournalsOK'
  BY <1>0, JournalsLater DEF VerifiedSecond
<1> QED
  BY <1>3, <1>4, <1>5 DEF GroundInv

LEMMA GroundVerifierFails ==
  ASSUME GroundInv, VerifierFails
  PROVE  GroundInv'
<1>0. SaidOK /\ DecidedOK /\ JournalsOK
  BY DEF GroundInv
<1>1. PICK a : a = Caveated(answer)
  OBVIOUS
<1>2. IsAnswer(a) /\ Owned(a, heard)
  BY <1>0, <1>1, CaveatedOwned DEF DecidedOK
<1>3. SaidOK'
  BY <1>0, SaidSame DEF VerifierFails
<1>4. DecidedOK'
  BY <1>1, <1>2 DEF DecidedOK, VerifierFails
<1>5. JournalsOK'
  BY <1>0, JournalsLater DEF VerifierFails
<1> QED
  BY <1>3, <1>4, <1>5 DEF GroundInv

LEMMA GroundRepairLost ==
  ASSUME GroundInv, RepairLost
  PROVE  GroundInv'
<1>0. SaidOK /\ DecidedOK /\ JournalsOK
  BY DEF GroundInv
<1>3. SaidOK'
  BY <1>0, SaidSame DEF RepairLost
<1>4. DecidedOK'
  BY <1>0 DEF DecidedOK, RepairLost
<1>5. JournalsOK'
  BY <1>0, JournalsLater DEF RepairLost
<1> QED
  BY <1>3, <1>4, <1>5 DEF GroundInv

LEMMA GroundFinalize ==
  ASSUME GroundInv, NEW written \in BOOLEAN, Finalize(written)
  PROVE  GroundInv'
<1>0. SaidOK /\ DecidedOK /\ JournalsOK
  BY DEF GroundInv
<1>1. IsAnswer(answer) /\ Owned(answer, heard)
  BY <1>0 DEF DecidedOK, Finalize
<1>2. heard' = heard
  BY DEF Finalize
<1>3. SaidOK'
  BY <1>0, SaidSame DEF Finalize
<1>4. CASE written
  <2>1. answer' = answer /\ journals' = Finalized(answer)
    BY <1>4 DEF Finalize
  <2>2. JournalsOK'
    BY <1>1, <1>2, <2>1, JournalsFinal
  <2>3. DecidedOK'
    BY <1>1, <1>2, <2>1 DEF DecidedOK
  <2> QED
    BY <1>3, <2>2, <2>3 DEF GroundInv
<1>5. CASE ~written
  <2>0. PICK a : a = Caveated(answer)
    OBVIOUS
  <2>1. answer' = a /\ journals' = journals
    BY <1>5, <2>0 DEF Finalize
  <2>2. JournalsOK'
    BY <1>0, <1>2, <2>1, JournalsLater
  <2>3. IsAnswer(a) /\ Owned(a, heard)
    BY <1>1, <2>0, CaveatedOwned
  <2>4. DecidedOK'
    BY <1>2, <2>1, <2>3 DEF DecidedOK
  <2> QED
    BY <1>3, <2>2, <2>4 DEF GroundInv
<1> QED
  BY <1>4, <1>5

LEMMA GroundClose ==
  ASSUME GroundInv, NEW as, Answers(as, heard), Close(as)
  PROVE  GroundInv'
<1>0. SaidOK /\ DecidedOK /\ JournalsOK
  BY DEF GroundInv
<1>1. PICK z : z = log \o Results \o [k \in DOMAIN as |-> Recorded(as[k])]
  OBVIOUS
<1>2. LogOK(z, heard)
  BY <1>0, <1>1, ClosedLog DEF SaidOK
<1>3. log' = z /\ messages' = <<>> /\ recalled' = {} /\ heard' = heard
  BY <1>1 DEF Close
<1>4. \A n, h : TurnOK(<<>>, n, h)
  BY DEF TurnOK
<1>5. SaidOK'
  BY <1>0, <1>2, <1>3, <1>4 DEF SaidOK
<1>6. DecidedOK'
  BY DEF Close, DecidedOK, NoAnswer, IsAnswer, Owned
<1>7. JournalsOK'
  BY FS_EmptySet DEF Close, JournalsOK
<1> QED
  BY <1>5, <1>6, <1>7 DEF GroundInv

LEMMA GroundPersist ==
  ASSUME GroundInv, PersistTurn
  PROVE  GroundInv'
<1>1. IsAnswer(answer) /\ Owned(answer, heard)
  BY DEF GroundInv, DecidedOK, PersistTurn
<1>2. PICK as : as = <<answer>>
  OBVIOUS
<1>3. DOMAIN as = 1..1 /\ \A k \in DOMAIN as : as[k] = answer
  BY <1>2
<1>4. Answers(as, heard)
  BY <1>1, <1>3 DEF Answers
<1> QED
  BY <1>2, <1>4, GroundClose DEF PersistTurn

LEMMA GroundCrash ==
  ASSUME GroundInv, CrashAndRecover
  PROVE  GroundInv'
<1>0. IsFiniteSet(journals) /\ \A j \in journals : JournalOK(j, heard)
  BY DEF GroundInv, JournalsOK
<1>1. PICK saved : saved = SetToSeq(journals)
  OBVIOUS
<1>2. (\E n \in Nat : DOMAIN saved = 1..n) /\ \A k \in DOMAIN saved : saved[k] \in journals
  BY <1>0, <1>1, JournalsListed
<1>3. PICK as : as = [k \in DOMAIN saved |-> Recovered(saved[k])]
  OBVIOUS
<1>4. DOMAIN as = DOMAIN saved /\ \A k \in DOMAIN as : as[k] = Recovered(saved[k])
  BY <1>3
<1>5. Answers(as, heard)
  <2>1. \A k \in DOMAIN as : IsAnswer(as[k]) /\ Owned(as[k], heard)
    BY <1>0, <1>2, <1>4, RecoveredOwned
  <2> QED
    BY <1>2, <1>4, <2>1 DEF Answers
<1>6. Close(as)
  BY <1>1, <1>3 DEF CrashAndRecover
<1> QED
  BY <1>5, <1>6, GroundClose

LEMMA GroundStep == GroundInv /\ [GroundNext]_groundVars => GroundInv'
<1> SUFFICES ASSUME GroundInv, [GroundNext]_groundVars PROVE GroundInv'
  OBVIOUS
<1>1. CASE UNCHANGED groundVars
  BY <1>1 DEF groundVars, GroundInv, SaidOK, DecidedOK, JournalsOK
<1>2. CASE \E says \in BOOLEAN, found \in Few(DOMAIN log) : BeginGroundedTurn(says, found)
  BY <1>2, GroundBegin
<1>3. CASE \E says, sound \in BOOLEAN : UseSource(says, sound)
  BY <1>3, GroundSource
<1>4. CASE \E found \in Few(DOMAIN log) : UseRecall(found)
  BY <1>4, GroundRecall
<1>5. CASE \E says \in BOOLEAN :
             SaveMemory(says) \/ Delegate(says) \/ GiveAnswer(says) \/ GiveSummary(says)
  BY <1>5, GroundSaveMemory, GroundDelegate, GroundGiveAnswer, GroundGiveSummary
<1>6. CASE VerifiedFirst
  BY <1>6, GroundVerifiedFirst
<1>7. CASE VerifiedSecond
  BY <1>7, GroundVerifiedSecond
<1>8. CASE VerifierFails
  BY <1>8, GroundVerifierFails
<1>9. CASE RepairLost
  BY <1>9, GroundRepairLost
<1>10. CASE \E written \in BOOLEAN : BeginRepair(written) \/ Finalize(written)
  BY <1>10, GroundBeginRepair, GroundFinalize
<1>11. CASE PersistTurn
  BY <1>11, GroundPersist
<1>12. CASE CrashAndRecover
  BY <1>12, GroundCrash
<1> QED
  BY <1>1, <1>2, <1>3, <1>4, <1>5, <1>6, <1>7, <1>8, <1>9, <1>10, <1>11, <1>12 DEF GroundNext

LEMMA GroundInvAnswers == GroundInv => AnswersGrounded
<1> SUFFICES ASSUME GroundInv PROVE AnswersGrounded
  OBVIOUS
<1>1. \A i \in DOMAIN log : log[i].role = "assistant" /\ ~log[i].marked => Owned(log[i], heard)
  BY Zenon DEF GroundInv, SaidOK, LogOK, Kept
<1>2. phase = "finalized" => Owned(answer, heard)
  BY DEF GroundInv, DecidedOK
<1> QED
  BY <1>1, <1>2 DEF AnswersGrounded, Owned

\* An answer that is shown or kept without a caveat states only what the user or the world said
\* before: what the model saved, delegated, recalled or repeated never becomes its evidence,
\* through any nesting of recalls, any repair and any crash between the draft, the verdict and
\* the finalized journal (ground_answer, finalize_grounding, recover_thread).
THEOREM AnswersStayGrounded == GroundSpec => []AnswersGrounded
<1>1. GroundSpec => []GroundInv
  BY GroundInvInit, GroundStep, PTL DEF GroundSpec
<1> QED
  BY <1>1, GroundInvAnswers, PTL

-----------------------------------------------------------------------------
(* Typed facts.                                                            *)
(*                                                                         *)
(* The inductive invariant is FactsInv: the store is that of an extraction *)
(* from what the projection was built from, of which there is a finite     *)
(* amount, and nothing is said twice.                                      *)

\* What an event said.
IsSpeech(x) ==
  /\ x.key \in Int \X Int
  /\ Len(x.claims) \in Nat /\ DOMAIN x.claims = 1..Len(x.claims)
  /\ \A i \in DOMAIN x.claims : x.claims[i].value \in Int

SaidOnce ==
  /\ DOMAIN said = Event
  /\ \A e \in Event : IsSpeech(said[e])
  /\ IsFiniteSet(present)
  /\ \A e \in present : e \in Event /\ said[e] # Nothing

FactsInv == SaidOnce /\ arrival \in Nat /\ arrival > 0 /\ store = FromLog(schema, present)

-----------------------------------------------------------------------------
(* The order of facts.                                                     *)

IsPair(x) == x \in Int \X Int

IsFact(f) == IsPair(f.key) /\ IsPair(f.id)

LEMMA EarlierOrders ==
  ASSUME NEW a, IsPair(a), NEW b, IsPair(b), NEW c, IsPair(c)
  PROVE  /\ ~Earlier(a, a)
         /\ Earlier(a, b) /\ Earlier(b, c) => Earlier(a, c)
<1>1. /\ a[1] \in Int /\ a[2] \in Int /\ b[1] \in Int /\ b[2] \in Int
      /\ c[1] \in Int /\ c[2] \in Int
  BY DEF IsPair
<1> QED
  BY <1>1 DEF Earlier

LEMMA SortedOrders ==
  ASSUME NEW f, IsFact(f), NEW g, IsFact(g), NEW h, IsFact(h)
  PROVE  /\ ~Sorted(f, f)
         /\ Sorted(f, g) /\ Sorted(g, h) => Sorted(f, h)
<1>1. /\ IsPair(f.key) /\ IsPair(g.key) /\ IsPair(h.key)
      /\ IsPair(f.id) /\ IsPair(g.id) /\ IsPair(h.id)
  BY DEF IsFact
<1>2. ~Earlier(f.key, f.key) /\ ~Earlier(f.id, f.id)
  BY <1>1, EarlierOrders
<1>3. Earlier(f.key, g.key) /\ Earlier(g.key, h.key) => Earlier(f.key, h.key)
  BY <1>1, EarlierOrders
<1>4. Earlier(f.id, g.id) /\ Earlier(g.id, h.id) => Earlier(f.id, h.id)
  BY <1>1, EarlierOrders
<1> QED
  BY <1>2, <1>3, <1>4 DEF Sorted

\* The last fact of a group.
IsLast(S, m) == m \in S /\ \A g \in S : ~Sorted(m, g)

\* Among finitely many facts there is a last one: a least number of facts without one would leave a
\* last one when any of them is taken away.
LEMMA LastExists ==
  ASSUME NEW S, IsFiniteSet(S), S # {}, \A f \in S : IsFact(f)
  PROVE  \E m : IsLast(S, m)
<1> DEFINE Without(T) ==
             IsFiniteSet(T) /\ T # {} /\ (\A f \in T : IsFact(f)) /\ ~\E m : IsLast(T, m)
           Bad == {n \in Nat : \E T : Without(T) /\ Cardinality(T) = n}
<1> SUFFICES ASSUME Without(S) PROVE FALSE
  OBVIOUS
<1>1. Cardinality(S) \in Bad
  BY FS_CardinalityType
<1>2. PICK n \in Bad : \A m \in Bad : n <= m
  <2>1. Bad \in SUBSET Nat /\ Bad # {}
    BY <1>1
  <2> HIDE DEF Bad
  <2> QED
    BY <2>1, LeastNatural
<1>3. PICK T : Without(T) /\ Cardinality(T) = n
  BY <1>2
<1>4. PICK x : x \in T
  BY <1>3
<1>5. PICK U : U = T \ {x}
  OBVIOUS
<1>6. IsFiniteSet(U) /\ Cardinality(U) = n - 1 /\ Cardinality(U) \in Nat
  BY <1>3, <1>4, <1>5, FS_RemoveElement, FS_CardinalityType
<1>7. \A y \in T : y = x \/ y \in U
  BY <1>5
<1>8. IsFact(x) /\ \A y \in U : IsFact(y) /\ y \in T
  BY <1>3, <1>4, <1>5
<1>9. CASE U = {}
  <2>1. \A y \in T : y = x
    BY <1>7, <1>9
  <2>2. ~Sorted(x, x)
    BY <1>8, SortedOrders
  <2>3. IsLast(T, x)
    BY <1>4, <2>1, <2>2 DEF IsLast
  <2> QED
    BY <1>3, <2>3
<1>10. CASE U # {}
  <2>1. ~Without(U)
    <3> SUFFICES ASSUME Without(U) PROVE FALSE
      OBVIOUS
    <3>1. n - 1 \in Bad
      BY <1>6
    <3> QED
      BY <1>2, <3>1
  <2>2. PICK m : IsLast(U, m)
    BY <1>6, <1>8, <1>10, <2>1
  <2>3. m \in T /\ IsFact(m)
    BY <1>8, <2>2 DEF IsLast
  <2>4. CASE Sorted(m, x)
    <3>1. \A y \in T : ~Sorted(x, y)
      <4> SUFFICES ASSUME NEW y \in T, Sorted(x, y) PROVE FALSE
        OBVIOUS
      <4>1. IsFact(y)
        BY <1>3
      <4>2. y \in U
        BY <1>7, <1>8, SortedOrders
      <4>3. Sorted(m, y)
        BY <1>8, <2>3, <2>4, <4>1, SortedOrders
      <4> QED
        BY <2>2, <4>2, <4>3 DEF IsLast
    <3> QED
      BY <1>3, <1>4, <3>1 DEF IsLast
  <2>5. CASE ~Sorted(m, x)
    <3>1. \A y \in T : ~Sorted(m, y)
      BY <1>7, <2>2, <2>5 DEF IsLast
    <3> QED
      BY <1>3, <2>3, <3>1 DEF IsLast
  <2> QED
    BY <2>4, <2>5
<1> QED
  BY <1>9, <1>10

-----------------------------------------------------------------------------
(* The facts of an event and of a log.                                     *)

\* The number of candidates of an event.
CandidatesAt(x, claims) ==
  {i \in DOMAIN claims :
     /\ claims[i].slot \in StateSlot => ~\E j \in 1..(i - 1) : claims[j] = claims[i]
     /\ x = "old" => claims[i].slot \in StateSlot}

LEMMA CandidatesDomain ==
  ASSUME NEW x, NEW claims, Len(claims) \in Nat, DOMAIN claims = 1..Len(claims)
  PROVE  \E n \in Nat : DOMAIN Candidates(x, claims) = 1..n
<1>1. \A b \in Int : IsFiniteSet(1..b)
  BY FS_Interval
<1>2. IsFiniteSet(CandidatesAt(x, claims))
  <2>1. CandidatesAt(x, claims) \subseteq 1..Len(claims)
    BY DEF CandidatesAt
  <2> QED
    BY <1>1, <2>1, FS_Subset
<1>3. Cardinality(CandidatesAt(x, claims)) \in Nat
  BY <1>2, FS_CardinalityType
<1>4. DOMAIN Candidates(x, claims) = 1..Cardinality(CandidatesAt(x, claims))
  BY DEF Candidates, CandidatesAt
<1> QED
  BY <1>3, <1>4

\* The fact of a candidate.
FactAt(x, e, speech, i) ==
  [id |-> <<e, i>>, slot |-> Candidates(x, speech.claims)[i].slot,
   value |-> Candidates(x, speech.claims)[i].value, key |-> speech.key]

LEMMA FactsOfEvent ==
  ASSUME NEW x, NEW e, NEW speech
  PROVE  FactsOf(x, e, speech) =
           {FactAt(x, e, speech, i) : i \in DOMAIN Candidates(x, speech.claims)}
BY DEF FactsOf, FactAt

LEMMA FactsOfFinite ==
  ASSUME NEW x, NEW e, NEW speech, IsSpeech(speech)
  PROVE  IsFiniteSet(FactsOf(x, e, speech))
<1>1. PICK n \in Nat : DOMAIN Candidates(x, speech.claims) = 1..n
  BY CandidatesDomain DEF IsSpeech
<1>2. PICK f : f = [i \in 1..n |-> FactAt(x, e, speech, i)]
  OBVIOUS
<1>3. FactsOf(x, e, speech) = {FactAt(x, e, speech, i) : i \in 1..n}
  BY <1>1, FactsOfEvent
<1>4. f \in Surjection(1..n, FactsOf(x, e, speech))
  BY <1>2, <1>3 DEF Surjection
<1>5. \A b \in Int : IsFiniteSet(1..b)
  BY FS_Interval
<1>6. IsFiniteSet(1..n)
  BY <1>5
<1> QED
  BY <1>4, <1>6, FS_Surjection

\* A fact is that of a candidate of the event.
HasNumber(x, e, speech, f) == \E i \in Nat : f.id = <<e, i>> /\ f = FactAt(x, e, speech, i)

LEMMA FactsOfNumbered ==
  ASSUME NEW x, NEW e \in Event, NEW speech, IsSpeech(speech), NEW f \in FactsOf(x, e, speech)
  PROVE  IsFact(f) /\ HasNumber(x, e, speech, f)
<1>1. PICK n \in Nat : DOMAIN Candidates(x, speech.claims) = 1..n
  BY CandidatesDomain DEF IsSpeech
<1>2. PICK i \in 1..n : f = FactAt(x, e, speech, i)
  BY <1>1, FactsOfEvent
<1>3. f.id = <<e, i>> /\ f.key = speech.key
  BY <1>2 DEF FactAt
<1>4. e \in Int /\ i \in Nat
  BY FactTypes
<1>5. IsFact(f)
  <2>1. <<e, i>> \in Int \X Int
    BY <1>4
  <2> QED
    BY <1>3, <2>1 DEF IsFact, IsPair, IsSpeech
<1> QED
  BY <1>2, <1>3, <1>4, <1>5 DEF HasNumber

FactsFrom(x, S) == UNION {FactsOf(x, e, said[e]) : e \in S}

LEMMA FromLogFields ==
  ASSUME NEW x, NEW S
  PROVE  /\ FromLog(x, S).facts = FactsFrom(x, S)
         /\ FromLog(x, S).by = Edges(FactsFrom(x, S))
BY DEF FromLog, Rebuilt, FactsFrom

\* The facts of a log are finitely many, and an identifier has one fact.
FactsNumbered(F) ==
  /\ IsFiniteSet(F)
  /\ \A f \in F : IsFact(f)
  /\ \A f, g \in F : f.id = g.id => f = g

LEMMA FromLogNumbered ==
  ASSUME NEW x, SaidOnce
  PROVE  FactsNumbered(FactsFrom(x, present))
<1>0. \A e \in present : e \in Event /\ IsSpeech(said[e])
  BY DEF SaidOnce
<1>1. PICK F : F = FactsFrom(x, present)
  OBVIOUS
<1>2. \A f \in F : \E e \in present : f \in FactsOf(x, e, said[e])
  BY <1>1 DEF FactsFrom
<1>3. IsFiniteSet(F)
  <2>1. PICK Sets : Sets = {FactsOf(x, e, said[e]) : e \in present}
    OBVIOUS
  <2>2. PICK g : g = [e \in present |-> FactsOf(x, e, said[e])]
    OBVIOUS
  <2>3. g \in Surjection(present, Sets)
    BY <2>1, <2>2 DEF Surjection
  <2>4. IsFiniteSet(Sets)
    BY <2>3, FS_Surjection DEF SaidOnce
  <2>5. \A T \in Sets : IsFiniteSet(T)
    BY <1>0, <2>1, FactsOfFinite
  <2>6. IsFiniteSet(UNION Sets)
    BY <2>4, <2>5, FS_UNION
  <2> QED
    BY <1>1, <2>1, <2>6 DEF FactsFrom
<1>4. \A f \in F : IsFact(f)
  BY <1>0, <1>2, FactsOfNumbered
<1>5. \A f, g \in F : f.id = g.id => f = g
  <2> SUFFICES ASSUME NEW f \in F, NEW g \in F, f.id = g.id PROVE f = g
    OBVIOUS
  <2>1. \A k \in F : \E e \in present : HasNumber(x, e, said[e], k)
    BY <1>0, <1>2, FactsOfNumbered
  <2>2. PICK e \in present : HasNumber(x, e, said[e], f)
    BY <2>1
  <2>3. PICK i \in Nat : f.id = <<e, i>> /\ f = FactAt(x, e, said[e], i)
    BY <2>2 DEF HasNumber
  <2>4. PICK d \in present : HasNumber(x, d, said[d], g)
    BY <2>1
  <2>4a. PICK j \in Nat : g.id = <<d, j>> /\ g = FactAt(x, d, said[d], j)
    BY <2>4 DEF HasNumber
  <2>5. d = e /\ i = j
    <3>1. <<e, i>> = <<d, j>>
      BY <2>3, <2>4a
    <3> QED
      BY <3>1
  <2> QED
    BY <2>3, <2>4a, <2>5
<1> QED
  BY <1>1, <1>3, <1>4, <1>5 DEF FactsNumbered

-----------------------------------------------------------------------------
(* Supersession.                                                           *)

LEMMA EdgePicked ==
  ASSUME NEW F, NEW p \in Edges(F)
  PROVE  \E f, g \in F : /\ p[1] = f.id /\ p[2] = g.id /\ Adjacent(F, f, g)
                         /\ f.key # g.key /\ f.value # g.value
BY DEF Edges

LEMMA EdgesAreNews ==
  ASSUME NEW F, NEW p \in Edges(F)
  PROVE  \E f, g \in F : /\ f.id = p[1] /\ g.id = p[2] /\ f.slot = g.slot
                         /\ Earlier(f.key, g.key) /\ f.value # g.value
<1>1. PICK f \in F, g \in F : /\ p[1] = f.id /\ p[2] = g.id /\ Adjacent(F, f, g)
                              /\ f.key # g.key /\ f.value # g.value
  BY EdgePicked
<1>2. f.slot = g.slot /\ Earlier(f.key, g.key)
  BY <1>1 DEF Adjacent, Sorted
<1> QED
  BY <1>1, <1>2

\* The last fact of a slot is active and at least as recent as the others.
LEMMA LatestIsLast ==
  ASSUME NEW s, FactsNumbered(s.facts), s.by = Edges(s.facts), NEW f \in s.facts
  PROVE  \E g \in Latest(s, f.slot) : ~Earlier(g.key, f.key)
<1>1. PICK S : S = {g \in s.facts : g.slot = f.slot}
  OBVIOUS
<1>2. PICK m : IsLast(S, m)
  <2>1. S \subseteq s.facts /\ f \in S
    BY <1>1
  <2>2. IsFiniteSet(S) /\ S # {} /\ \A g \in S : IsFact(g)
    BY <2>1, FS_Subset DEF FactsNumbered
  <2> QED
    BY <2>2, LastExists
<1>3. m \in s.facts /\ m.slot = f.slot
  BY <1>1, <1>2 DEF IsLast
<1>4. \A g \in s.facts : g.slot = f.slot => ~Sorted(m, g)
  BY <1>1, <1>2 DEF IsLast
<1>5. \A g \in s.facts : g.slot = f.slot => ~Earlier(m.key, g.key)
  BY <1>4 DEF Sorted
<1>6. m \in Active(s)
  <2> SUFFICES ASSUME NEW p \in s.by, p[1] = m.id PROVE FALSE
    BY <1>3 DEF Active
  <2>1. PICK a \in s.facts, b \in s.facts : p[1] = a.id /\ Adjacent(s.facts, a, b)
    BY EdgePicked
  <2>2. a = m
    BY <1>3, <2>1 DEF FactsNumbered
  <2>3. b.slot = f.slot /\ Sorted(m, b)
    BY <1>3, <2>1, <2>2 DEF Adjacent
  <2> QED
    BY <1>4, <2>3
<1>7. m \in Latest(s, f.slot)
  BY <1>3, <1>5, <1>6 DEF Latest, Active
<1> QED
  BY <1>5, <1>7

-----------------------------------------------------------------------------
(* One lemma per action.                                                   *)

LEMMA FactsInvInit == FactsInit => FactsInv
<1> SUFFICES ASSUME FactsInit PROVE FactsInv
  OBVIOUS
<1>1. IsSpeech(Nothing)
  <2>1. PICK q : q = <<0, 0>>
    OBVIOUS
  <2>2. PICK c : c = <<>>
    OBVIOUS
  <2>3. Nothing.key = q /\ Nothing.claims = c
    BY <2>1, <2>2 DEF Nothing
  <2>4. q \in Int \X Int /\ Len(c) = 0 /\ DOMAIN c = 1..0 /\ \A i \in DOMAIN c : FALSE
    BY <2>1, <2>2
  <2> QED
    BY <2>3, <2>4 DEF IsSpeech
<1>2. DOMAIN said = Event /\ \A e \in Event : IsSpeech(said[e])
  BY <1>1 DEF FactsInit
<1>3. SaidOnce
  BY <1>2, FS_EmptySet DEF FactsInit, SaidOnce
<1>4. FromLog(schema, {}) = EmptyStore
  BY DEF FromLog, Rebuilt, EmptyStore, Edges
<1> QED
  BY <1>3, <1>4 DEF FactsInv, FactsInit

\* The store after an event is that of an extraction of everything.
LEMMA FactsSay ==
  ASSUME FactsInv, NEW e \in Event, NEW key \in Dated \cup {<<2, arrival>>},
         NEW claims \in Speech, Say(e, key, claims)
  PROVE  FactsInv'
<1>0. SaidOnce /\ arrival \in Nat /\ arrival > 0 /\ store = FromLog(schema, present)
  BY DEF FactsInv
<1>1. PICK speech : speech = [key |-> key, claims |-> claims, at |-> arrival]
  OBVIOUS
<1>2. speech.key = key /\ speech.claims = claims /\ speech.at = arrival
  BY <1>1
<1>3. /\ said[e] = Nothing /\ said' = [said EXCEPT ![e] = speech] /\ arrival' = arrival + 1
      /\ present' = present \cup {e} /\ schema' = schema
      /\ store' = IF Candidates(schema, claims) = <<>> THEN store
                  ELSE Rebuilt(store, store.facts \cup FactsOf(schema, e, speech))
  BY <1>1 DEF Say
<1>4. e \notin present
  BY <1>0, <1>3 DEF SaidOnce
<1>5. IsSpeech(speech)
  <2>1. key \in Int \X Int
    <3>1. <<2, arrival>> \in Int \X Int
      BY <1>0
    <3> QED
      BY <3>1, FactTypes
  <2> QED
    BY <1>2, <2>1, FactTypes DEF IsSpeech
<1>6. speech # Nothing
  <2>1. Nothing.at = 0
    BY DEF Nothing
  <2> QED
    BY <1>0, <1>2, <2>1
<1>7. DOMAIN said' = Event /\ said'[e] = speech /\ \A d \in Event : d # e => said'[d] = said[d]
  BY <1>0, <1>3 DEF SaidOnce
<1>8. SaidOnce'
  <2>1. \A d \in Event : IsSpeech(said'[d])
    BY <1>0, <1>5, <1>7 DEF SaidOnce
  <2>2. \A d \in present' : d \in Event /\ said'[d] # Nothing
    BY <1>0, <1>3, <1>6, <1>7 DEF SaidOnce
  <2>3. IsFiniteSet(present')
    BY <1>0, <1>3, FS_AddElement DEF SaidOnce
  <2> QED
    BY <1>7, <2>1, <2>2, <2>3 DEF SaidOnce
<1>9. FactsFrom(schema, present)' = FactsFrom(schema, present) \cup FactsOf(schema, e, speech)
  <2>1. \A d \in present : said'[d] = said[d]
    BY <1>0, <1>4, <1>7 DEF SaidOnce
  <2>2. \A f : f \in FactsFrom(schema, present)' <=>
                 \E d \in present \cup {e} : f \in FactsOf(schema, d, said'[d])
    BY <1>3 DEF FactsFrom
  <2>3. \A f : f \in FactsFrom(schema, present) <=>
                 \E d \in present : f \in FactsOf(schema, d, said[d])
    BY DEF FactsFrom
  <2>4. \A f : f \in FactsFrom(schema, present)' <=>
                 f \in FactsFrom(schema, present) \/ f \in FactsOf(schema, e, speech)
    BY <1>7, <2>1, <2>2, <2>3
  <2> QED
    BY <2>4
<1>10. store' = Rebuilt(EmptyStore, FactsFrom(schema, present) \cup FactsOf(schema, e, speech))
  <2>1. store.facts = FactsFrom(schema, present)
    BY <1>0, FromLogFields
  <2>2. CASE Candidates(schema, claims) = <<>>
    <3>1. FactsOf(schema, e, speech) = {}
      <4>1. DOMAIN Candidates(schema, speech.claims) = {}
        BY <1>2, <2>2
      <4> QED
        BY <4>1, FactsOfEvent
    <3>2. FactsFrom(schema, present) \cup FactsOf(schema, e, speech) = FactsFrom(schema, present)
      BY <3>1
    <3>3. store' = store /\ store = Rebuilt(EmptyStore, FactsFrom(schema, present))
      BY <1>0, <1>3, <2>2 DEF FromLog, FactsFrom
    <3> QED
      BY <3>2, <3>3
  <2>3. CASE Candidates(schema, claims) # <<>>
    <3>1. store' = Rebuilt(store, store.facts \cup FactsOf(schema, e, speech))
      BY <1>3, <2>3
    <3>2. \A F : Rebuilt(store, F) = Rebuilt(EmptyStore, F)
      BY DEF Rebuilt
    <3> QED
      BY <2>1, <3>1, <3>2
  <2> QED
    BY <2>2, <2>3
<1>11. store' = FromLog(schema, present)'
  <2>1. FromLog(schema, present)' = Rebuilt(EmptyStore, FactsFrom(schema, present)')
    BY DEF FromLog, FactsFrom
  <2> QED
    BY <1>9, <1>10, <2>1
<1>12. arrival' \in Nat /\ arrival' > 0
  BY <1>0, <1>3
<1> QED
  BY <1>8, <1>11, <1>12 DEF FactsInv

\* Extracting everything again from fewer events.
LEMMA FactsAgain ==
  ASSUME FactsInv, present' \subseteq present, store' = FromLog("current", present'),
         schema' = "current", UNCHANGED <<said, arrival>>
  PROVE  FactsInv'
<1>1. SaidOnce'
  BY FS_Subset DEF FactsInv, SaidOnce
<1>2. store' = FromLog(schema, present)'
  BY DEF FromLog
<1> QED
  BY <1>1, <1>2 DEF FactsInv

LEMMA FactsStep == FactsInv /\ [FactsNext]_factVars => FactsInv'
<1> SUFFICES ASSUME FactsInv, [FactsNext]_factVars PROVE FactsInv'
  OBVIOUS
<1>1. ASSUME UNCHANGED <<said, store, schema, arrival, present>>
      PROVE  FactsInv'
  BY <1>1 DEF FactsInv, SaidOnce, FromLog
<1>2. CASE UNCHANGED factVars
  BY <1>1, <1>2 DEF factVars
<1>3. CASE \E e \in Event, key \in Dated \cup {<<2, arrival>>}, claims \in Speech :
             Say(e, key, claims)
  BY <1>3, FactsSay
<1>4. CASE \E e \in Event : PruneNode(e)
  BY <1>1, <1>4 DEF PruneNode
<1>5. CASE \E e \in Event : RedactSpeech(e)
  BY <1>1, <1>5 DEF RedactSpeech
<1>6. CASE RebuildFacts
  BY <1>6, FactsAgain DEF RebuildFacts
<1>7. CASE Upgrade
  <2>1. /\ present' = present \ redacted /\ store' = FromLog("current", present \ redacted)
        /\ schema' = "current" /\ UNCHANGED <<said, arrival>>
    BY <1>7 DEF Upgrade
  <2> QED
    BY <2>1, FactsAgain
<1> QED
  BY <1>2, <1>3, <1>4, <1>5, <1>6, <1>7 DEF FactsNext

-----------------------------------------------------------------------------
(* Totals.                                                                 *)
(*                                                                         *)
(* The facts of a slot of amounts are counted under other names: the fact  *)
(* of the nth claim that was taken of an event is renamed to the event and *)
(* the place of that claim.  No two facts get the same name and every      *)
(* claim of the slot is the name of one.                                   *)

\* The places that the current extractor takes of what an event said.
TakenOf(e) == CandidatesAt("current", said[e].claims)

\* A fact is the nth that was taken of what e said.
IsNth(f, e, n) ==
  /\ e \in present /\ n \in 1..Cardinality(TakenOf(e))
  /\ f.id = <<e, n>>
  /\ f.slot = said[e].claims[NthOf(TakenOf(e), n)].slot
  /\ f.value = said[e].claims[NthOf(TakenOf(e), n)].value

LEMMA KeptCounts ==
  ASSUME SaidOnce, NEW e \in present
  PROVE  AllCounted(TakenOf(e)) /\ TakenOf(e) \subseteq DOMAIN said[e].claims
<1>1. Len(said[e].claims) \in Nat /\ DOMAIN said[e].claims = 1..Len(said[e].claims)
  BY DEF SaidOnce, IsSpeech
<1>2. TakenOf(e) \subseteq DOMAIN said[e].claims
  BY DEF TakenOf, CandidatesAt
<1>3. PICK b \in Nat : b = Len(said[e].claims)
  BY <1>1
<1>4. TakenOf(e) \in SUBSET (0..b)
  BY <1>1, <1>2, <1>3
<1> QED
  BY <1>2, <1>4, Counted

LEMMA FactIsNth ==
  ASSUME NEW e \in present, NEW n \in 1..Cardinality(TakenOf(e))
  PROVE  IsNth(FactAt("current", e, said[e], n), e, n)
<1>1. PICK c : c = said[e].claims
  OBVIOUS
<1>2. Candidates("current", c) = [i \in 1..Cardinality(CandidatesAt("current", c)) |->
                                    c[NthOf(CandidatesAt("current", c), i)]]
  BY DEF Candidates, CandidatesAt, NthOf, UpTo
<1>3. Candidates("current", c)[n] = c[NthOf(TakenOf(e), n)]
  BY <1>1, <1>2 DEF TakenOf
<1> QED
  BY <1>1, <1>3 DEF IsNth, FactAt

LEMMA FactsAreNth ==
  ASSUME SaidOnce, NEW f
  PROVE  f \in FactsFrom("current", present) <=>
           \E e \in present : \E n \in 1..Cardinality(TakenOf(e)) : f = FactAt("current", e, said[e], n)
<1>1. \A e : DOMAIN Candidates("current", said[e].claims) = 1..Cardinality(TakenOf(e))
  BY DEF Candidates, CandidatesAt, TakenOf
<1>2. \A e : FactsOf("current", e, said[e]) =
               {FactAt("current", e, said[e], n) : n \in 1..Cardinality(TakenOf(e))}
  BY <1>1, FactsOfEvent
<1> QED
  BY <1>2 DEF FactsFrom

\* No amount is superseded.
LEMMA AmountsActive ==
  ASSUME NEW s, FactsNumbered(s.facts), s.by = Edges(s.facts), NEW slot \in AmountSlot
  PROVE  {f \in Active(s) : f.slot = slot} = {f \in s.facts : f.slot = slot}
<1> SUFFICES ASSUME NEW f \in s.facts, f.slot = slot PROVE f \in Active(s)
  BY DEF Active
<1> SUFFICES ASSUME NEW p \in s.by, p[1] = f.id PROVE FALSE
  BY DEF Active
<1>1. PICK a \in s.facts, b \in s.facts : p[1] = a.id /\ Adjacent(s.facts, a, b)
  BY EdgePicked
<1>2. a = f
  BY <1>1 DEF FactsNumbered
<1>3. slot \in StateSlot
  BY <1>1, <1>2 DEF Adjacent
<1> QED
  BY <1>3, FactTypes

LEMMA SumsOver ==
  ASSUME NEW v
  PROVE  SumFunction(v) = SumOver(v, DOMAIN v)
BY DEF SumFunction, SumOver, SumFunctionOnSet, FoldFunction, FoldFunctionOnSet

\* The claims of a slot, by event and place.
Spent(slot) ==
  UNION {{<<e, i>> : i \in {i \in DOMAIN said[e].claims : said[e].claims[i].slot = slot}} :
           e \in present}

LEMMA TotalsCounted == FactsInv => TotalsCountOnce
<1> SUFFICES ASSUME FactsInv, schema = "current", NEW slot \in AmountSlot
             PROVE  Total(store, slot) =
                      SumFunction([p \in Spent(slot) |-> said[p[1]].claims[p[2]].value])
  BY DEF TotalsCountOnce, Spent
<1>0. SaidOnce /\ store.facts = FactsFrom("current", present) /\ store.by = Edges(store.facts)
      /\ FactsNumbered(store.facts)
  BY FromLogFields, FromLogNumbered DEF FactsInv
<1>1. PICK A : A = {f \in store.facts : f.slot = slot}
  OBVIOUS
<1>2. PICK v : v = [f \in A |-> f.value]
  OBVIOUS
<1>3. PICK w : w = [p \in Spent(slot) |-> said[p[1]].claims[p[2]].value]
  OBVIOUS
<1>4. PICK m : m = [f \in A |-> <<f.id[1], NthOf(TakenOf(f.id[1]), f.id[2])>>]
  OBVIOUS
<1>5. IsFiniteSet(A)
  <2>1. A \in SUBSET store.facts
    BY <1>1
  <2> QED
    BY <1>0, <2>1, FS_Subset DEF FactsNumbered
<1>6. \A f \in A : \E e \in present : \E n \in 1..Cardinality(TakenOf(e)) :
        f = FactAt("current", e, said[e], n) /\ IsNth(f, e, n)
  BY <1>0, <1>1, FactsAreNth, FactIsNth
<1>7. ASSUME NEW f, NEW e, NEW n, IsNth(f, e, n), f \in A
      PROVE  /\ m[f] = <<e, NthOf(TakenOf(e), n)>> /\ m[f] \in Spent(slot)
             /\ v[f] = w[m[f]] /\ v[f] \in Int
             /\ Cardinality(UpTo(TakenOf(e), NthOf(TakenOf(e), n))) = n
  <2>1. PICK i : i = NthOf(TakenOf(e), n)
    OBVIOUS
  <2>2. e \in present /\ n \in 1..Cardinality(TakenOf(e)) /\ f.id = <<e, n>>
        /\ f.slot = said[e].claims[i].slot /\ f.value = said[e].claims[i].value
    BY <1>7, <2>1 DEF IsNth
  <2>3. f.id[1] = e /\ f.id[2] = n
    BY <2>2
  <2>4. m[f] = <<e, i>>
    BY <1>4, <1>7, <2>1, <2>3
  <2>5. i \in DOMAIN said[e].claims /\ Cardinality(UpTo(TakenOf(e), i)) = n
    BY <1>0, <2>1, <2>2, KeptCounts DEF AllCounted
  <2>6. <<e, i>> \in Spent(slot)
    BY <1>1, <1>7, <2>2, <2>5 DEF Spent
  <2>7. w[<<e, i>>] = said[e].claims[i].value
    BY <1>3, <2>6
  <2>8. said[e].claims[i].value \in Int
    BY <1>0, <2>2, <2>5 DEF SaidOnce, IsSpeech
  <2>9. v[f] = f.value
    BY <1>2, <1>7
  <2> QED
    BY <2>1, <2>2, <2>4, <2>5, <2>6, <2>7, <2>8, <2>9
<1>8. \A f \in A : m[f] \in Spent(slot) /\ v[f] = w[m[f]] /\ v[f] \in Int
  BY <1>6, <1>7
<1>9. \A f, g \in A : m[f] = m[g] => f = g
  <2> SUFFICES ASSUME NEW f \in A, NEW g \in A, m[f] = m[g] PROVE f = g
    OBVIOUS
  <2>1. PICK e, n : IsNth(f, e, n)
    BY <1>6
  <2>2. PICK d, k : IsNth(g, d, k)
    BY <1>6
  <2>3. m[f] = <<e, NthOf(TakenOf(e), n)>> /\ Cardinality(UpTo(TakenOf(e), NthOf(TakenOf(e), n))) = n
    BY <1>7, <2>1
  <2>4. m[g] = <<d, NthOf(TakenOf(d), k)>> /\ Cardinality(UpTo(TakenOf(d), NthOf(TakenOf(d), k))) = k
    BY <1>7, <2>2
  <2>5. e = d /\ NthOf(TakenOf(e), n) = NthOf(TakenOf(d), k)
    <3>1. PICK x : x = NthOf(TakenOf(e), n)
      OBVIOUS
    <3>2. PICK y : y = NthOf(TakenOf(d), k)
      OBVIOUS
    <3>3. <<e, x>> = <<d, y>>
      BY <2>3, <2>4, <3>1, <3>2
    <3>4. e = d /\ x = y
      BY <3>3
    <3> QED
      BY <3>1, <3>2, <3>4
  <2>6. n = k
    BY <2>3, <2>4, <2>5
  <2>7. f.id = g.id
    BY <2>1, <2>2, <2>5, <2>6 DEF IsNth
  <2> QED
    BY <1>0, <1>1, <2>7 DEF FactsNumbered
<1>10. \A p \in Spent(slot) : \E f \in A : m[f] = p
  <2> SUFFICES ASSUME NEW p \in Spent(slot) PROVE \E f \in A : m[f] = p
    OBVIOUS
  <2>1. PICK e \in present : \E i \in DOMAIN said[e].claims :
          p = <<e, i>> /\ said[e].claims[i].slot = slot
    BY DEF Spent
  <2>2. PICK i \in DOMAIN said[e].claims : p = <<e, i>> /\ said[e].claims[i].slot = slot
    BY <2>1
  <2>3. i \in TakenOf(e)
    BY <2>2, FactTypes DEF TakenOf, CandidatesAt
  <2>4. PICK n : n = Cardinality(UpTo(TakenOf(e), i))
    OBVIOUS
  <2>5. n \in 1..Cardinality(TakenOf(e)) /\ NthOf(TakenOf(e), n) = i
    BY <1>0, <2>3, <2>4, KeptCounts DEF AllCounted
  <2>6. PICK f : f = FactAt("current", e, said[e], n)
    OBVIOUS
  <2>7. IsNth(f, e, n) /\ f \in store.facts
    BY <1>0, <2>5, <2>6, FactIsNth, FactsAreNth
  <2>8. f \in A
    BY <1>1, <2>2, <2>5, <2>7 DEF IsNth
  <2> QED
    BY <1>7, <2>2, <2>5, <2>7, <2>8
<1>11. ImageOf(m, A) = Spent(slot)
  BY <1>8, <1>10 DEF ImageOf
<1>12. SumOver(v, A) = SumOver(w, Spent(slot))
  <2>1. SumOver(v, A) = SumOver(w, ImageOf(m, A))
    BY <1>5, <1>8, <1>9, SumMoved
  <2> QED
    BY <1>11, <2>1
<1>13. Total(store, slot) = SumFunction(v)
  <2>1. {f \in Active(store) : f.slot = slot} = A
    BY <1>0, <1>1, AmountsActive
  <2> QED
    BY <1>2, <2>1 DEF Total
<1>14. DOMAIN v = A /\ DOMAIN w = Spent(slot)
  BY <1>2, <1>3
<1> QED
  BY <1>3, <1>12, <1>13, <1>14, SumsOver

\* A total of the current extractor counts every claim of the slot once, also one that an event
\* repeats: the facts of a slot of amounts are as many as the claims, none replaces another
\* (FactStore::aggregate, rebuild_supersession).
THEOREM TotalsCountEveryClaim == FactsSpec => []TotalsCountOnce
BY FactsInvInit, FactsStep, TotalsCounted, PTL DEF FactsSpec

LEMMA FactsInvFollow == FactsInv => FactsFollowLog
<1> SUFFICES ASSUME FactsInv PROVE FactsFollowLog
  OBVIOUS
<1>1. store = FromLog(schema, present) /\ SaidOnce
  BY DEF FactsInv
<1>2. store.facts = FactsFrom(schema, present) /\ store.by = Edges(store.facts)
  BY <1>1, FromLogFields
<1>3. FactsNumbered(store.facts)
  BY <1>1, <1>2, FromLogNumbered
<1>4. \A p \in store.by : \E f, g \in store.facts :
        f.id = p[1] /\ g.id = p[2] /\ f.slot = g.slot /\ Earlier(f.key, g.key) /\ f.value # g.value
  BY <1>2, EdgesAreNews
<1>5. \A f \in store.facts : \E g \in Latest(store, f.slot) : ~Earlier(g.key, f.key)
  BY <1>2, <1>3, LatestIsLast
<1> QED
  BY <1>1, <1>4, <1>5, TotalsCounted DEF FactsFollowLog

\* The typed facts are those of an extraction of the whole log, in whatever order and with
\* whatever dates events arrived and whatever was pruned, redacted, rebuilt or upgraded between
\* (add_candidates against upgrade_facts and the replay); a fact is superseded only by news, and
\* the latest answer for a slot is never older than anything said of it (rebuild_supersession); a
\* total counts every claim once.
THEOREM FactsAreTheLog == FactsSpec => []FactsFollowLog
<1>1. FactsSpec => []FactsInv
  BY FactsInvInit, FactsStep, PTL DEF FactsSpec
<1> QED
  BY <1>1, FactsInvFollow, PTL
====
