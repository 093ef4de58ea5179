---------------------------------- MODULE Btb ----------------------------------
(***************************************************************************)
(* The branch target buffer (verilog/btb_2.sv): direct mapped, written     *)
(* when a unit computes a target, by up to two branches per cycle.         *)
(***************************************************************************)
EXTENDS Integers

CONSTANT BTB_SIZE   \* entries

ASSUME BtbAssumption == BTB_SIZE \in Nat \ {0}

VARIABLES btb_addr, btb_valid, btb_tags

btbVars == <<btb_addr, btb_valid, btb_tags>>

Index == 0 .. BTB_SIZE - 1

BtbInit ==
  /\ btb_addr = [i \in Index |-> 0]
  /\ btb_valid = {}
  /\ btb_tags = [i \in Index |-> 0]

current_idx(pc) == pc % BTB_SIZE
current_tag(pc) == pc \div BTB_SIZE

\* Mutation: the tag is not compared.
IndexHits(read_en, pc) == read_en /\ current_idx(pc) \in btb_valid

hit(read_en, pc) ==
  /\ read_en
  /\ current_idx(pc) \in btb_valid
  /\ btb_tags[current_idx(pc)] = current_tag(pc)

targetPC_out(pc) == btb_addr[current_idx(pc)]

\* w0 and w1: [en, PC, targetPC] of the two ports.  The second is written
\* unless it meets the index of the first, whether or not the first writes.
Written(w0, w1, i, old, v0, v1) ==
  IF w1.en /\ current_idx(w1.PC) = i /\ current_idx(w0.PC) # i THEN v1
  ELSE IF w0.en /\ current_idx(w0.PC) = i THEN v0
  ELSE old

BtbStep(w0, w1) ==
  /\ btb_addr' = [i \in Index |->
       Written(w0, w1, i, btb_addr[i], w0.targetPC, w1.targetPC)]
  /\ btb_tags' = [i \in Index |->
       Written(w0, w1, i, btb_tags[i], current_tag(w0.PC),
               current_tag(w1.PC))]
  /\ btb_valid' = {i \in Index :
       Written(w0, w1, i, i \in btb_valid, TRUE, TRUE)}
=============================================================================
