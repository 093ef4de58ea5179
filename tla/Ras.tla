---------------------------------- MODULE Ras ----------------------------------
(***************************************************************************)
(* The return address stack (verilog/ras.sv).  It is asked in every cycle, *)
(* for the pair of instructions that is fetched, and the pair is fetched   *)
(* again while the back end refuses it.  So that a call is not pushed and  *)
(* a return not popped once per cycle, the stack remembers the last query  *)
(* and its answer.                                                         *)
(***************************************************************************)
EXTENDS Integers, Sequences, SequencesExt

CONSTANT RAS_SIZE   \* entries of the stack

ASSUME RasAssumption == RAS_SIZE \in Nat \ {0}

VARIABLES
  ras_stack, reg_empty, ras_counter, tosp, tosp_n,
  last_query_pc, last_out_pc,
  calls   \* history: the return addresses a bounded stack would hold, the
          \* youngest last

rasVars == <<ras_stack, reg_empty, ras_counter, tosp, tosp_n,
             last_query_pc, last_out_pc, calls>>

RasInit ==
  /\ ras_stack = [i \in 0 .. RAS_SIZE - 1 |-> 0]
  /\ reg_empty = 0 /\ ras_counter = 0 /\ tosp = 0 /\ tosp_n = 0
  /\ last_query_pc = 0 /\ last_out_pc = 0
  /\ calls = <<>>

ras_valid(is_return) == is_return /\ (ras_counter # 0 \/ reg_empty # 0)

PC_return(is_return, npc) ==
  IF ~is_return THEN 0
  ELSE IF ras_counter = 0 THEN reg_empty
  ELSE IF last_query_pc = npc THEN last_out_pc
  ELSE ras_stack[tosp]

\* Mutation: every cycle asks anew.
AlwaysFresh(npc) == TRUE

Fresh(npc) == last_query_pc # npc

\* Mutation: a full stack loses its youngest entry.
PushOverTop(npc) ==
  LET top == IF ras_counter = RAS_SIZE THEN tosp ELSE tosp_n
  IN  /\ ras_counter' = IF ras_counter # RAS_SIZE THEN ras_counter + 1
                        ELSE RAS_SIZE
      /\ ras_stack' = [ras_stack EXCEPT ![top] = npc]
      /\ tosp' = top
      /\ tosp_n' = (top + 1) % RAS_SIZE
      /\ reg_empty' = npc
      /\ UNCHANGED last_out_pc

\* The ring goes on over its oldest entry when it is full; the pointers of
\* the source wrap by their width.
Push(npc) ==
  /\ ras_counter' = IF ras_counter # RAS_SIZE THEN ras_counter + 1
                    ELSE RAS_SIZE
  /\ ras_stack' = [ras_stack EXCEPT ![tosp_n] = npc]
  /\ tosp' = tosp_n
  /\ tosp_n' = (tosp_n + 1) % RAS_SIZE
  /\ reg_empty' = npc
  /\ UNCHANGED last_out_pc

Pop ==
  /\ ras_counter' = ras_counter - 1
  /\ tosp_n' = tosp
  /\ tosp' = (tosp - 1) % RAS_SIZE
  /\ last_out_pc' = ras_stack[tosp]
  /\ UNCHANGED <<ras_stack, reg_empty>>

\* The last RAS_SIZE elements of s.
Youngest(s) == IF Len(s) > RAS_SIZE THEN Tail(s) ELSE s

\* A call beside a return wins.  A squash restores nothing.
RasStep(is_jump, is_return, npc) ==
  /\ last_query_pc' = npc
  /\ IF Fresh(npc) /\ is_jump
     THEN Push(npc) /\ calls' = Youngest(Append(calls, npc))
     ELSE IF Fresh(npc) /\ is_return /\ ras_counter # 0
     THEN Pop /\ calls' = IF calls = <<>> THEN <<>> ELSE Front(calls)
     ELSE UNCHANGED <<ras_stack, reg_empty, ras_counter, tosp, tosp_n,
                      last_out_pc, calls>>

\* Behind its two pointers, which move modulo the size of the ring, and its
\* count, which stops at the size, the ring is the stack of the last RAS_SIZE
\* return addresses.
RingIsBoundedStack ==
  /\ Len(calls) = ras_counter
  /\ \A k \in 0 .. ras_counter - 1 :
       ras_stack[(tosp - k) % RAS_SIZE] = calls[Len(calls) - k]
=============================================================================
