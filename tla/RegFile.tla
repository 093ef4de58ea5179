------------------------------- MODULE RegFile -------------------------------
(***************************************************************************)
(* The register file of verilog/regfile_2.sv: two write ports, fed by the  *)
(* two retiring instructions, and read ports that see the writes of the    *)
(* same cycle.  The array has no reset.                                    *)
(***************************************************************************)
EXTENDS Integers

CONSTANTS Reg, ZERO_REG, Value

VARIABLE registers

\* A write port: [dest_valid, dest_reg_idx, dest_value].
Writes(w, r) == w.dest_valid /\ w.dest_reg_idx = r

\* Mutation: a read port that does not see the writes of the cycle.
rd_array(w0, w1, r) == IF r = ZERO_REG THEN 0 ELSE registers[r]

\* A read port.  Port 1 belongs to the younger instruction and wins.
rd_out(w0, w1, r) ==
  IF r = ZERO_REG THEN 0
  ELSE IF Writes(w1, r) THEN w1.dest_value
  ELSE IF Writes(w0, r) THEN w0.dest_value
  ELSE registers[r]

RegStep(w0, w1) ==
  registers' = [r \in Reg |-> IF Writes(w1, r) THEN w1.dest_value
                              ELSE IF Writes(w0, r) THEN w0.dest_value
                              ELSE registers[r]]
=============================================================================
