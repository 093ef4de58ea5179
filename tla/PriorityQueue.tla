----------------------------- MODULE PriorityQueue -----------------------------
(***************************************************************************)
(* The two programs that take blocks and return them: priority_queue.c,    *)
(* here with any pushes and pops, and basic_malloc.c as it is.             *)
(***************************************************************************)
EXTENDS TjMalloc, Program, Sequences

CONSTANTS
  PUSHES,      \* bound: pushes in all
  CAPACITY,    \* nodes that are queued at a time
  PRIORITIES   \* priorities: 0 .. PRIORITIES - 1

ASSUME QueueAssumption ==
  /\ PUSHES \in Nat /\ PRIORITIES \in Nat \ {0}
  /\ CAPACITY * (12 + 8) <= HEAP_SIZE

-----------------------------------------------------------------------------
(* priority_queue.c.  node is what lies in the nodes: [data, priority,     *)
(* next]; the data are different, and tell the nodes apart.                *)

NODE == 12   \* sizeof(Node)

QueueInit ==
  /\ st = [code |-> "priority_queue", at |-> "run", head |-> NULL,
           node |-> <<>>, pushed |-> 0, ghost |-> {}]
  /\ HeapInit

Room ==
  /\ At("priority_queue", "run") /\ st.pushed < PUSHES
  /\ Cardinality(DOMAIN live) < CAPACITY

\* The node that comes in has `next', and goes behind the node `after' or, if
\* that is NULL, in front.
Linked(temp, p, next, after) ==
  LET new == [data |-> st.pushed, priority |-> p, next |-> next]
      node == (temp :> new) @@ st.node
  IN  st' = [st EXCEPT !.pushed = @ + 1,
               !.ghost = @ \cup {<<st.pushed, p>>},
               !.head = IF after = NULL THEN temp ELSE @,
               !.node = IF after = NULL THEN node
                        ELSE [node EXCEPT ![after].next = temp]]

newNode ==
  /\ Room /\ st.head = NULL
  /\ Malloc(NODE)
  /\ \E p \in 0 .. PRIORITIES - 1 :
       Linked(tj_malloc(heap, NODE).mem, p, NULL, NULL)

\* Mutation: the search looks at the priority of the node it has passed.
RECURSIVE PositionBehind(_, _)
PositionBehind(start, p) ==
  LET next == st.node[start].next
  IN  IF next # NULL /\ st.node[start].priority < p
      THEN PositionBehind(next, p) ELSE start

\* The node the new one goes behind.
RECURSIVE Position(_, _)
Position(start, p) ==
  LET next == st.node[start].next
  IN  IF next # NULL /\ st.node[next].priority < p THEN Position(next, p)
      ELSE start

\* The queue is not empty: push reads the head before it looks.
push ==
  /\ Room /\ st.head # NULL
  /\ Malloc(NODE)
  /\ LET temp == tj_malloc(heap, NODE).mem
     IN  \E p \in 0 .. PRIORITIES - 1 :
           IF st.node[st.head].priority > p THEN Linked(temp, p, st.head, NULL)
           ELSE LET start == Position(st.head, p)
                IN  Linked(temp, p, st.node[start].next, start)

\* What is popped leaves the ghost by the data it has.
pop ==
  /\ At("priority_queue", "run") /\ st.head # NULL
  /\ LET temp == st.node[st.head]
     IN  st' = [st EXCEPT !.head = temp.next,
                  !.node = [a \in DOMAIN @ \ {st.head} |-> @[a]],
                  !.ghost = @ \ {<<temp.data, temp.priority>>}]
  /\ Free(st.head)

QueueEnd ==
  /\ At("priority_queue", "run") /\ st.head = NULL /\ st.pushed > 0
  /\ st' = [st EXCEPT !.at = "end"]
  /\ UNCHANGED heapVars

QueueNext == newNode \/ push \/ pop \/ QueueEnd

-----------------------------------------------------------------------------
(* basic_malloc.c.  goat is what lies in the fields of that name, wherever *)
(* a block has been.                                                       *)

EXAMPLE == 16   \* sizeof(example_t)
GOAT == 6       \* offset of goat

Goat(mem, value) == [st.goat EXCEPT ![mem + GOAT] = value]

BasicInit ==
  /\ st = [code |-> "basic_malloc", at |-> "pats",
           goat |-> [a \in 0 .. HEAP_SIZE + 2 * HEADER |-> 0],
           pats |-> NULL, another |-> NULL, third |-> NULL, latest |-> NULL,
           ghost |-> 0]
  /\ HeapInit

NewBlock == tj_malloc(heap, EXAMPLE).mem

\* Field `var' of st is a new block.
Gets(from, var, to, goat) ==
  /\ At("basic_malloc", from)
  /\ Malloc(EXAMPLE)
  /\ st' = [st EXCEPT ![var] = NewBlock, !.at = to, !.goat = goat]

Frees(from, var, to) ==
  /\ At("basic_malloc", from)
  /\ Free(st[var])
  /\ st' = [st EXCEPT !.at = to]

BasicNext ==
  \/ Gets("pats", "pats", "another", Goat(NewBlock, 1))
  \/ Gets("another", "another", "free pats", st.goat)
  \/ Frees("free pats", "pats", "third")
  \/ Gets("third", "third", "latest", st.goat)
  \/ Gets("latest", "latest", "check", tj_calloc(st.goat, NewBlock, EXAMPLE))
  \/ /\ At("basic_malloc", "check")
     /\ st' = [st EXCEPT !.at = IF st.goat[st.latest + GOAT] # 0 THEN "exit 2"
                                ELSE "free another"]
     /\ UNCHANGED heapVars
  \/ Frees("free another", "another", "free latest")
  \/ Frees("free latest", "latest", "end")

-----------------------------------------------------------------------------
\* The queue from a node on.
RECURSIVE Queue(_)
Queue(p) == IF p = NULL THEN <<>> ELSE <<st.node[p]>> \o Queue(st.node[p].next)

\* The list is what is queued, each node once and in the order of the
\* priorities, so that pop takes one that nothing has precedence over; its
\* nodes are the blocks the program holds, so none is lost and none is read
\* after it has been returned.
QueueIsSorted ==
  LET q == Queue(st.head)
  IN  /\ DOMAIN st.node = DOMAIN live
      /\ Len(q) = Cardinality(st.ghost)
      /\ {<<q[i].data, q[i].priority>> : i \in DOMAIN q} = st.ghost
      /\ \A i \in 2 .. Len(q) : q[i - 1].priority <= q[i].priority
=============================================================================
