----------------------------- MODULE MCDCacheMem -----------------------------
(* One set, and more lines than it and the victim cache can hold.           *)
EXTENDS DCacheMem, TLC

CONSTANTS l1, l2, l3, l4

MCLine == {l1, l2, l3, l4}
MCSetOf == [l \in MCLine |-> 0]
MCSet == {0}
MCData == {0, 1}
MCStored == {l1}
MCNoStores == {}

\* Lines that nothing tells apart: those without stores; all, if none has any.
Lines == Permutations({l2, l3, l4})
AnyLines == Permutations(MCLine)
=============================================================================
