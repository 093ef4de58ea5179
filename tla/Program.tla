-------------------------------- MODULE Program --------------------------------
(***************************************************************************)
(* The program in the memory of the processor: one of test_progs/*.c, on   *)
(* some input.  `st' is a record of the variables of that program, under   *)
(* the names of its source, with three fields that every program has:      *)
(*   code   which program it is,                                           *)
(*   at     where it is; "end" when main has returned,                     *)
(*   ghost  history: what no line of the program reads.                    *)
(* A pointer into a list that nothing is taken out of is the rest of the   *)
(* list (TjMalloc shows that blocks that are held are apart).              *)
(***************************************************************************)
VARIABLE st

At(code, at) == st.code = code /\ st.at = at
Is(code) == st.code = code
Ended == st.at = "end"
=============================================================================
