------------------------------ MODULE GraphSearch ------------------------------
(***************************************************************************)
(* The searches of the test programs, on any undirected graph: bfs.c, and  *)
(* bfs and depthFirstSearch of graph.c.                                    *)
(***************************************************************************)
EXTENDS Program, Integers, FiniteSetsExt, SequencesExt

CONSTANTS
  MAX,     \* vertices; the places of the queue of bfs.c and of the stack
  LISTED   \* vertices of the graph of lists, and places of its queue

ASSUME GraphAssumption == MAX \in Nat \ {0} /\ LISTED \in Nat \ {0}

Vertex == 0 .. MAX - 1
Pairs(n) == {e \in (0 .. n - 1) \X (0 .. n - 1) : e[1] < e[2]}

\* addEdge, addEdge_DFS: the matrix is symmetric.
adjMatrix(edges) == edges \cup {<<e[2], e[1]>> : e \in edges}

\* getAdjUnvisitedVertex gives the least of these, -1 if there is none.
Unvisited(v) == {w \in Vertex : <<v, w>> \in st.adj} \ st.visited

getAdjUnvisitedVertex(v) == IF Unvisited(v) = {} THEN -1 ELSE Min(Unvisited(v))

-----------------------------------------------------------------------------
(* bfs.c.  Neither end of the queue is ever set back.                      *)

BfsInit ==
  \E edges \in SUBSET Pairs(MAX) :
    st = [code |-> "bfs", at |-> "search", adj |-> adjMatrix(edges),
          visited |-> {0}, queue |-> [i \in Vertex |-> 0], rear |-> 0,
          front |-> 0, queueItemCount |-> 1, tempVertex |-> -1,
          ghost |-> <<0>>]

insert(s, v) ==
  [s EXCEPT !.rear = @ + 1, !.queue[s.rear + 1] = v, !.queueItemCount = @ + 1]

BfsRemove ==
  /\ At("bfs", "search") /\ st.tempVertex = -1 /\ st.queueItemCount # 0
  /\ st' = [st EXCEPT !.tempVertex = st.queue[st.front], !.front = @ + 1,
                      !.queueItemCount = @ - 1]

BfsVisit ==
  /\ At("bfs", "search") /\ st.tempVertex # -1
  /\ LET w == getAdjUnvisitedVertex(st.tempVertex)
     IN  st' = IF w = -1 THEN [st EXCEPT !.tempVertex = -1]
               ELSE insert([st EXCEPT !.visited = @ \cup {w},
                                      !.ghost = Append(@, w)], w)

BfsReset ==
  /\ At("bfs", "search") /\ st.tempVertex = -1 /\ st.queueItemCount = 0
  /\ st' = [st EXCEPT !.visited = {}, !.at = "end"]

BfsNext == BfsRemove \/ BfsVisit \/ BfsReset

-----------------------------------------------------------------------------
(* graph.c: breadth first over lists of neighbours.  The graph grows edge  *)
(* by edge, so the lists come in any order.  A queue that runs empty       *)
(* starts over.                                                            *)

createGraph(vertices) ==
  [code |-> "graph", at |-> "build", adj |-> {},
   adjLists |-> [v \in 0 .. vertices - 1 |-> <<>>], visited |-> {},
   items |-> [i \in 0 .. LISTED - 1 |-> 0], front |-> -1, rear |-> -1,
   temp |-> <<>>, ghost |-> <<>>]

ListsInit == st = createGraph(LISTED)

\* Each list gets its new neighbour in front.
addEdge ==
  /\ At("graph", "build")
  /\ \E e \in Pairs(LISTED) :
       /\ e \notin st.adj
       /\ st' = [st EXCEPT !.adj = @ \cup {e, <<e[2], e[1]>>},
                           !.adjLists[e[1]] = <<e[2]>> \o @,
                           !.adjLists[e[2]] = <<e[1]>> \o @]

isEmpty == st.rear = -1

enqueue(s, v) ==
  IF s.rear = LISTED - 1 THEN s
  ELSE [s EXCEPT !.front = IF @ = -1 THEN 0 ELSE @,
                 !.rear = @ + 1, !.items[s.rear + 1] = v]

\* Mutation: a vertex is marked when it leaves the queue, not when it enters.
ReachesUnmarked(s, v) == [s EXCEPT !.ghost = Append(@, v)]

Reaches(s, v) == [s EXCEPT !.visited = @ \cup {v}, !.ghost = Append(@, v)]

bfs ==
  /\ At("graph", "build")
  /\ st' = enqueue(Reaches([st EXCEPT !.at = "search"], 0), 0)

dequeue(s) ==
  IF s.front + 1 > s.rear THEN [s EXCEPT !.front = -1, !.rear = -1]
  ELSE [s EXCEPT !.front = @ + 1]

ListsDequeue ==
  /\ At("graph", "search") /\ st.temp = <<>> /\ ~isEmpty
  /\ st' = dequeue([st EXCEPT !.temp = st.adjLists[st.items[st.front]]])

ListsVisit ==
  /\ At("graph", "search") /\ st.temp # <<>>
  /\ LET v == Head(st.temp)
         s == [st EXCEPT !.temp = Tail(@)]
     IN  st' = IF v \in st.visited THEN s ELSE enqueue(Reaches(s, v), v)

ListsEnd ==
  /\ At("graph", "search") /\ st.temp = <<>> /\ isEmpty
  /\ st' = [st EXCEPT !.at = "end"]

ListsNext == addEdge \/ bfs \/ ListsDequeue \/ ListsVisit \/ ListsEnd

-----------------------------------------------------------------------------
(* graph.c: depth first.  A step of the loop pushes or pops.               *)

DfsInit ==
  \E edges \in SUBSET Pairs(MAX) :
    st = [code |-> "dfs", at |-> "search", adj |-> adjMatrix(edges),
          visited |-> {0}, stack |-> <<0>>, ghost |-> <<0>>]

DfsStep ==
  /\ At("dfs", "search") /\ st.stack # <<>>
  /\ LET w == getAdjUnvisitedVertex(Last(st.stack))
     IN  st' = IF w = -1 THEN [st EXCEPT !.stack = Front(@)]
               ELSE [Reaches(st, w) EXCEPT !.stack = Append(@, w)]

DfsReset ==
  /\ At("dfs", "search") /\ st.stack = <<>>
  /\ st' = [st EXCEPT !.visited = {}, !.at = "end"]

DfsNext == DfsStep \/ DfsReset

-----------------------------------------------------------------------------
(* What a search promises.  The ghost of a search is the order in which it *)
(* reaches the vertices.                                                   *)

\* The vertices at most d edges from vertex 0.
RECURSIVE Within(_)
Within(d) ==
  IF d = 0 THEN {0}
  ELSE LET near == Within(d - 1)
       IN  near \cup {e[2] : e \in {x \in st.adj : x[1] \in near}}

Reachable == Within(Max({MAX, LISTED}))
Distance(v) == Min({d \in 0 .. Max({MAX, LISTED}) : v \in Within(d)})

\* A search reaches no vertex twice and none that has no path from the first,
\* and when it ends it has reached every one that has.
ReachesAllOnce ==
  /\ IsInjective(st.ghost)
  /\ ToSet(st.ghost) \subseteq Reachable
  /\ Ended => ToSet(st.ghost) = Reachable

\* A search by breadth reaches no vertex before a nearer one; what waits in
\* the queue lies inside it.
NearestFirst ==
  /\ \A i, j \in DOMAIN st.ghost :
       i < j => Distance(st.ghost[i]) <= Distance(st.ghost[j])
  /\ st.rear \in -1 .. (IF Is("bfs") THEN MAX ELSE LISTED) - 1
  /\ Is("bfs") => st.front \in 0 .. MAX /\ st.queueItemCount = st.rear - st.front + 1
  /\ Is("graph") => st.front \in -1 .. st.rear

\* The stack of a search by depth is a path from the first vertex, and a
\* vertex that has left it has no neighbour that was missed.
StackIsPath ==
  /\ Len(st.stack) <= MAX
  /\ st.stack # <<>> => st.stack[1] = 0
  /\ \A i \in 2 .. Len(st.stack) : <<st.stack[i - 1], st.stack[i]>> \in st.adj
  /\ ~Ended => \A v \in st.visited \ ToSet(st.stack) : Unvisited(v) = {}
=============================================================================
