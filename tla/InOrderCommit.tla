---------------------------- MODULE InOrderCommit ----------------------------
(***************************************************************************)
(* What the reorder buffer promises to the rest of the processor, without  *)
(* indexes, wrap-around or valid bits: a bounded queue of instructions.    *)
(* Instructions enter at the back in program order, complete in any order, *)
(* and leave only from the front, at most two at a time and only when they *)
(* have completed; an instruction that turns out to have been followed by  *)
(* the wrong instructions takes everything behind it along when it leaves. *)
(***************************************************************************)
EXTENDS Integers, Sequences

CONSTANTS
  Capacity,     \* the most instructions in flight
  Width         \* instructions that enter or leave in one step

VARIABLE queue  \* the instructions in flight, oldest first

Diverting(e) == e.mis_pred \/ (e.is_branch /\ e.NPC_out # e.branch_target)

\* Completion changes the result of an instruction and nothing else of it.
SameInstruction(d, e) ==
  /\ d.PC = e.PC
  /\ d.NPC_out = e.NPC_out
  /\ d.dest_reg_idx = e.dest_reg_idx
  /\ d.store = e.store
  /\ d.is_branch = e.is_branch
  /\ d.take_branch = e.take_branch
  /\ d.halt = e.halt

\* The first n instructions may leave together.
MayLeave(n) ==
  /\ n <= Len(queue)
  /\ \A i \in 1 .. n : queue[i].ready
  /\ \A i \in 2 .. n : ~queue[i].store /\ ~queue[i].halt
  /\ n > 1 => ~queue[1].halt

Init == queue = <<>>

\* The last instruction that leaves was followed by wrong ones.
Flush ==
  \E n \in 1 .. Width :
    /\ MayLeave(n)
    /\ Diverting(queue[n])
    /\ \A i \in 1 .. n - 1 : ~Diverting(queue[i])
    /\ queue' = <<>>

Move ==
  \E n, m \in 0 .. Width :
    /\ MayLeave(n)
    /\ \A i \in 1 .. n : ~Diverting(queue[i])
    /\ Len(queue) + m <= Capacity
    /\ Len(queue') = Len(queue) - n + m
    /\ \A i \in 1 .. Len(queue) - n :
         /\ SameInstruction(queue'[i], queue[i + n])
         /\ queue'[i] # queue[i + n] => queue'[i].ready
    /\ \A i \in Len(queue) - n + 1 .. Len(queue') : ~queue'[i].ready

Next == Move \/ Flush

Spec == Init /\ [][Next]_queue
=============================================================================
