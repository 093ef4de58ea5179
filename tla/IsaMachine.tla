------------------------------ MODULE IsaMachine ------------------------------
(***************************************************************************)
(* What the whole processor promises: the sequential machine of Isa.  A    *)
(* two-way superscalar retires up to two instructions in one clock cycle,  *)
(* so a step executes one instruction or two.                              *)
(***************************************************************************)
EXTENDS Isa

VARIABLES
  program,      \* the text, fixed
  arch          \* [pc, regs, mem]: the state the programmer sees

Init ==
  /\ arch.pc = 0
  /\ arch.regs[ZERO_REG] = 0

One == Runnable(program, arch) /\ arch' = Execute(program, arch)

Two ==
  LET mid == Execute(program, arch)
  IN  /\ Runnable(program, arch)
      /\ Runnable(program, mid)
      /\ arch' = Execute(program, mid)

Next == (One \/ Two) /\ UNCHANGED program

Spec == Init /\ [][Next]_<<program, arch>>
=============================================================================
