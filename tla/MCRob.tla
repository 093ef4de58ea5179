-------------------------------- MODULE MCRob --------------------------------
(* The reorder buffer alone, in an environment that dispatches and          *)
(* completes in any order, checked against InOrderCommit.                   *)
EXTENDS Rob

MCPacket(st, br, tk, h, en) ==
  [valid |-> TRUE, dispatch_enable |-> en, dest_reg_idx |-> 1, store |-> st,
   is_branch |-> br, take_branch |-> tk, halt |-> h, NPC_out |-> 1, PC |-> 0]

\* An ALU instruction, a store, a conditional branch predicted to fall
\* through to 1, a jump predicted to go to 1, a halt, and a slot that is
\* stalled.
MCIdPacket ==
  {MCPacket(FALSE, FALSE, FALSE, FALSE, TRUE),
   MCPacket(TRUE, FALSE, FALSE, FALSE, TRUE),
   MCPacket(FALSE, TRUE, FALSE, FALSE, TRUE),
   MCPacket(FALSE, TRUE, TRUE, FALSE, TRUE),
   MCPacket(FALSE, FALSE, FALSE, TRUE, TRUE),
   MCPacket(FALSE, FALSE, FALSE, FALSE, FALSE)}

\* A result that goes on to 1, one that is taken to 2 (of the branch a wrong
\* direction, of the jump the right one to a wrong address), and no result.
MCCdbPacket ==
  {[valid |-> TRUE, tag |-> t, value |-> 1, take_branch |-> tk,
    branch_target |-> IF tk THEN 2 ELSE 1] :
      t \in 0 .. ROB_SIZE - 1, tk \in BOOLEAN}
  \cup {[valid |-> FALSE, tag |-> 0, value |-> 0, take_branch |-> FALSE,
         branch_target |-> 0]}

MCReg == {0, 1}
MCValue == {0, 1}
MCPc == 0 .. 2
=============================================================================
