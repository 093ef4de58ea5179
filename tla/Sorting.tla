-------------------------------- MODULE Sorting --------------------------------
(***************************************************************************)
(* The sorting programs, on any array: mergesort.c, quicksort.c,           *)
(* sort_search.c, insertionsort.c (which selects) and the list of graph.c. *)
(*                                                                         *)
(* An element is its key and the place it came from, which no program      *)
(* sees.  A recursion keeps its activations in `stack', the innermost      *)
(* last: [l, r, mid, at], `at' being the call it waits for.                *)
(***************************************************************************)
EXTENDS Program, Integers, FiniteSets, SequencesExt

CONSTANTS
  ELEMENTS,  \* elements of the array
  KEYS       \* keys: 0 .. KEYS - 1

ASSUME SortingAssumption == ELEMENTS \in Nat \ {0} /\ KEYS \in Nat \ {0}

Place == 0 .. ELEMENTS - 1
Arrays == {[i \in Place |-> [key |-> keys[i], from |-> i]] :
             keys \in [Place -> 0 .. KEYS - 1]}

Swapped(arr, i, j) == [arr EXCEPT ![i] = arr[j], ![j] = arr[i]]

\* A program that sorts the whole array: mergeSort(data, 0, last) and its kin.
Frame(l, r) == [l |-> l, r |-> r, mid |-> l, at |-> "called"]

RecursionInit(code) ==
  \E arr \in Arrays :
    st = [code |-> code, at |-> "sort", arr |-> arr,
          stack |-> <<Frame(0, ELEMENTS - 1)>>, ghost |-> arr]

top == Last(st.stack)
Goes(frame) == [st.stack EXCEPT ![Len(st.stack)] = frame]

\* The innermost activation returns, the last one ends the program.
Return ==
  st' = [st EXCEPT !.stack = Front(@),
                   !.at = IF Len(st.stack) = 1 THEN "end" ELSE @]

-----------------------------------------------------------------------------
(* mergesort.c                                                             *)

\* Mutation: of equal keys the one of the right half goes first.
RECURSIVE MergedUnstable(_, _)
MergedUnstable(L, R) ==
  IF L = <<>> THEN R
  ELSE IF R = <<>> THEN L
  ELSE IF L[1].key < R[1].key
  THEN <<L[1]>> \o MergedUnstable(Tail(L), R)
  ELSE <<R[1]>> \o MergedUnstable(L, Tail(R))

\* The two copies, of which one is used up first.
RECURSIVE Merged(_, _)
Merged(L, R) ==
  IF L = <<>> THEN R
  ELSE IF R = <<>> THEN L
  ELSE IF L[1].key <= R[1].key
  THEN <<L[1]>> \o Merged(Tail(L), R)
  ELSE <<R[1]>> \o Merged(L, Tail(R))

Slice(arr, from, to) == [i \in 1 .. to - from + 1 |-> arr[from + i - 1]]

merge(arr, l, m, r) ==
  LET both == Merged(Slice(arr, l, m), Slice(arr, m + 1, r))
  IN  [i \in Place |-> IF i \in l .. r THEN both[i - l + 1] ELSE arr[i]]

mergeSort ==
  /\ At("mergesort", "sort")
  /\ \/ top.l >= top.r /\ Return
     \/ /\ top.l < top.r /\ top.at = "called"
        /\ LET m == top.l + (top.r - top.l) \div 2
           IN  st' = [st EXCEPT !.stack =
                        Goes([top EXCEPT !.mid = m, !.at = "first"])
                          \o <<Frame(top.l, m)>>]
     \/ /\ top.at = "first"
        /\ st' = [st EXCEPT !.stack = Goes([top EXCEPT !.at = "second"])
                                        \o <<Frame(top.mid + 1, top.r)>>]
     \/ /\ top.at = "second"
        /\ st' = [st EXCEPT !.arr = merge(@, top.l, top.mid, top.r),
                            !.stack = Goes([top EXCEPT !.at = "merged"])]
     \/ top.at = "merged" /\ Return

-----------------------------------------------------------------------------
(* quicksort.c                                                             *)

\* The loop of partition, from j on: i is the last place of the small ones.
RECURSIVE Parted(_, _, _, _)
Parted(arr, i, j, high) ==
  IF j = high THEN [arr |-> Swapped(arr, i + 1, high), pi |-> i + 1]
  ELSE IF arr[j].key <= arr[high].key
  THEN Parted(Swapped(arr, i + 1, j), i + 1, j + 1, high)
  ELSE Parted(arr, i, j + 1, high)

partition(arr, low, high) == Parted(arr, low - 1, low, high)

quickSort ==
  /\ At("quicksort", "sort")
  /\ \/ (top.l >= top.r \/ top.at = "second") /\ Return
     \/ /\ top.l < top.r /\ top.at = "called"
        /\ LET p == partition(st.arr, top.l, top.r)
           IN  st' = [st EXCEPT !.arr = p.arr,
                        !.stack = Goes([top EXCEPT !.mid = p.pi, !.at = "first"])
                                    \o <<Frame(top.l, p.pi - 1)>>]
     \/ /\ top.at = "first"
        /\ st' = [st EXCEPT !.stack = Goes([top EXCEPT !.at = "second"])
                                        \o <<Frame(top.mid + 1, top.r)>>]

-----------------------------------------------------------------------------
(* insertionsort.c and the two bubble sorts: a step is one turn of the     *)
(* outer loop of the first, one comparison of the others.                  *)

LoopInit(code) ==
  \E arr \in Arrays :
    st = [code |-> code, at |-> "sort", arr |-> arr, i |-> 0, j |-> 1,
          swapped |-> FALSE, l |-> 0, r |-> ELEMENTS - 1, x |-> KEYS,
          result |-> -1, ghost |-> arr]

\* min_idx: the first of the least keys from i on.
min_idx(arr, i) ==
  CHOOSE m \in i .. ELEMENTS - 1 :
    /\ \A j \in i .. m - 1 : arr[j].key > arr[m].key
    /\ \A j \in m .. ELEMENTS - 1 : arr[j].key >= arr[m].key

insertion ==
  /\ At("insertionsort", "sort")
  /\ st' = IF st.i < ELEMENTS - 1
           THEN [st EXCEPT !.arr = Swapped(@, min_idx(@, st.i), st.i),
                           !.i = @ + 1]
           ELSE [st EXCEPT !.at = "end"]

\* sort_search.c; the sorted array is searched for any key.
bubble ==
  /\ At("sort_search", "sort")
  /\ \/ /\ st.i < ELEMENTS - 1 /\ st.j < ELEMENTS
        /\ st' = [st EXCEPT !.arr = IF @[st.j].key < @[st.i].key
                                    THEN Swapped(@, st.i, st.j) ELSE @,
                            !.j = @ + 1]
     \/ /\ st.i < ELEMENTS - 1 /\ st.j = ELEMENTS
        /\ st' = [st EXCEPT !.i = @ + 1, !.j = st.i + 2]
     \/ /\ st.i >= ELEMENTS - 1
        /\ \E x \in 0 .. KEYS : st' = [st EXCEPT !.at = "search", !.x = x]

\* Mutation: the upper half begins with the middle.
FromTheMiddle ==
  /\ At("sort_search", "search")
  /\ LET mid == st.l + (st.r - st.l) \div 2
     IN  st' = IF st.r < st.l THEN [st EXCEPT !.at = "end"]
               ELSE IF st.arr[mid].key = st.x
               THEN [st EXCEPT !.at = "end", !.result = mid]
               ELSE IF st.arr[mid].key > st.x THEN [st EXCEPT !.r = mid - 1]
               ELSE [st EXCEPT !.l = mid]

binarySearch ==
  /\ At("sort_search", "search")
  /\ LET mid == st.l + (st.r - st.l) \div 2
     IN  st' = IF st.r < st.l THEN [st EXCEPT !.at = "end"]
               ELSE IF st.arr[mid].key = st.x
               THEN [st EXCEPT !.at = "end", !.result = mid]
               ELSE IF st.arr[mid].key > st.x THEN [st EXCEPT !.r = mid - 1]
               ELSE [st EXCEPT !.l = mid + 1]

\* graph.c: the data of neighbours change places; a round ends in front of
\* lptr, where the last one ended (here at r).
bubbleSort ==
  /\ At("list", "sort")
  /\ \/ /\ st.i # st.r
        /\ LET greater == st.arr[st.i].key > st.arr[st.i + 1].key
           IN  st' = [st EXCEPT !.arr = IF greater THEN Swapped(@, st.i, st.i + 1)
                                        ELSE @,
                                !.swapped = @ \/ greater, !.i = @ + 1]
     \/ /\ st.i = st.r
        /\ st' = IF st.swapped
                 THEN [st EXCEPT !.r = st.i - 1, !.i = 0, !.swapped = FALSE]
                 ELSE [st EXCEPT !.at = "end"]

SortingInit ==
  \/ \E code \in {"mergesort", "quicksort"} : RecursionInit(code)
  \/ \E code \in {"insertionsort", "sort_search", "list"} : LoopInit(code)

SortingNext ==
  mergeSort \/ quickSort \/ insertion \/ bubble \/ binarySearch \/ bubbleSort

-----------------------------------------------------------------------------
(* What a sort promises.                                                   *)

Sorts == {"mergesort", "quicksort", "insertionsort", "sort_search", "list"}

\* Elements only change places; at the end they are in order, equal ones as
\* they were if the program is one that keeps them so; and a search finds a
\* place of its key if there is one.
SortsItsInput ==
  LET arr == st.arr
      sorted == Ended \/ At("sort_search", "search")
      stable == Is("mergesort") \/ Is("list")
      before(i, j) ==
        /\ arr[i].key <= arr[j].key
        /\ stable /\ arr[i].key = arr[j].key => arr[i].from < arr[j].from
  IN  /\ {arr[i] : i \in Place} = {st.ghost[i] : i \in Place}
      /\ sorted => \A i, j \in Place : i < j => before(i, j)
      /\ At("sort_search", "end") =>
           IF st.x \in {arr[i].key : i \in Place}
           THEN st.result \in Place /\ arr[st.result].key = st.x
           ELSE st.result = -1
=============================================================================
