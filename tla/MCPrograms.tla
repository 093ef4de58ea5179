------------------------------ MODULE MCPrograms ------------------------------
(***************************************************************************)
(* The test programs, one at a time: which one, and on which input, is     *)
(* chosen at the start.                                                    *)
(***************************************************************************)
EXTENDS GraphSearch, Sorting, Backtrack, Numeric, Alexnet, PriorityQueue

MCFactors == 0 .. 16 \cup {23, 128, 254, 255}

\* A program that takes and returns blocks as it likes.
AnyClientInit ==
  st = [code |-> "client", at |-> "run", ghost |-> 0] /\ HeapInit

AnyClient == Is("client") /\ HeapNext /\ UNCHANGED st

ProgramsInit ==
  \/ /\ \/ BfsInit \/ ListsInit \/ DfsInit
        \/ SortingInit
        \/ solveKT
        \/ NumericInit
        \/ AlexnetInit
     /\ HeapInit
  \/ QueueInit \/ BasicInit \/ AnyClientInit

\* The nodes of the graph and of the list are never returned: their blocks
\* are left out.
WithoutHeap ==
  \/ BfsNext \/ ListsNext \/ DfsNext
  \/ SortingNext
  \/ BacktrackNext
  \/ NumericNext
  \/ AlexnetNext

ProgramsNext ==
  \/ WithoutHeap /\ UNCHANGED heapVars
  \/ QueueNext \/ BasicNext \/ AnyClient

programVars == <<st, heapVars>>

\* Nothing but the program runs, and it goes on.
ProgramsSpec ==
  ProgramsInit /\ [][ProgramsNext]_programVars /\ WF_programVars(ProgramsNext)

-----------------------------------------------------------------------------
(* Properties.                                                             *)

\* Whatever a program takes and returns, the blocks it holds and those that
\* are free tile the heap, and what it reads in a block is what it wrote there
\* or, after tj_calloc, zero (test_progs/tj_malloc.h, basic_malloc.c:49).
HeapIsWhole == LiveBlocksAreApart /\ NothingIsLost /\ st.at # "exit 2"

\* A search reaches all there is to reach, once, in its order.
SearchesInOrder ==
  /\ Is("bfs") \/ Is("graph") \/ Is("dfs") => ReachesAllOnce
  /\ Is("bfs") \/ Is("graph") => NearestFirst
  /\ Is("dfs") => StackIsPath

\* A sort sorts, a binary search finds, and the priority queue stays in order
\* and loses nothing.
KeepsOrder ==
  /\ Is("priority_queue") => QueueIsSorted
  /\ st.code \in Sorts => SortsItsInput

\* A program that computes ends with the value of what it is there to compute,
\* the search for a tour finds one if there is one, and the network never
\* reads an element that its own round has not written.
ComputesWhatItShould ==
  /\ ComputesItsResult
  /\ Is("backtrack") => TourIsPath
  /\ ReadsWhatThisRoundWrote

\* Every program comes to its end, on every input.
ProgramEnds == <>(Ended \/ Is("client"))
=============================================================================
