------------------------------- MODULE MapTable -------------------------------
(***************************************************************************)
(* The map table of verilog/map_table_2.sv: for every register the reorder *)
(* buffer entry that will write it (ZERO_TAG when the register file is     *)
(* current), and whether that entry has its result.                        *)
(*                                                                         *)
(* A port to the reorder buffer (ROB_MT_PACKET) is a record w with the     *)
(* register write of a retiring instruction and the indexes of its entry   *)
(* and of the entry a dispatched instruction takes.                        *)
(***************************************************************************)
EXTENDS Integers

CONSTANTS
  Reg, ZERO_REG,
  ZERO_TAG      \* the tag that names no entry; as wide as ROB_SIZE

VARIABLES
  Tag,          \* register -> entry that will write it
  ready_in_ROB  \* register -> that entry holds its result

mtVars == <<Tag, ready_in_ROB>>

MtInit ==
  /\ Tag = [r \in Reg |-> ZERO_TAG]
  /\ ready_in_ROB = [r \in Reg |-> FALSE]

\* Mutation: any retiring writer makes the register file current.
clear_any(w) == w.dest_valid

\* The register a retiring instruction writes still waits for this very
\* instruction, and not for a younger one.
clear_valid(w) == w.dest_valid /\ Tag[w.dest_reg_idx] = w.rob_head

Cleared(w0, w1, r) ==
  \/ clear_valid(w0) /\ w0.dest_reg_idx = r
  \/ clear_valid(w1) /\ w1.dest_reg_idx = r

\* Where the instruction of slot 0, or of slot 1, finds register r.  d0 is
\* the register slot 0 dispatches into, ZERO_REG when there is none.
Lookup_0(w0, w1, r) ==
  IF Cleared(w0, w1, r) THEN [tag |-> ZERO_TAG, ready |-> FALSE]
  ELSE [tag |-> Tag[r], ready |-> ready_in_ROB[r]]

\* Mutation: slot 1 does not see what slot 0 renames.
Lookup_1_alone(w0, w1, d0, r) == Lookup_0(w0, w1, r)

Lookup_1(w0, w1, d0, r) ==
  IF d0 # ZERO_REG /\ d0 = r THEN [tag |-> w0.rob_tail, ready |-> FALSE]
  ELSE Lookup_0(w0, w1, r)

\* A result on the common data bus is the one register r waits for.  The
\* comparison reads the registered table, whatever retires or dispatches.
Announced(cdb, r) == cdb.valid /\ Tag[r] = cdb.tag

MtUpdate(w0, w1, d0, d1, cdb0, cdb1) ==
  /\ Tag' = [r \in Reg |->
       IF d1 # ZERO_REG /\ r = d1 THEN w1.rob_tail
       ELSE IF d0 # ZERO_REG /\ r = d0 THEN w0.rob_tail
       ELSE IF Cleared(w0, w1, r) THEN ZERO_TAG
       ELSE Tag[r]]
  /\ ready_in_ROB' = [r \in Reg |->
       /\ ~(d0 # ZERO_REG /\ r = d0)
       /\ ~(d1 # ZERO_REG /\ r = d1)
       /\ \/ Announced(cdb0, r)
          \/ Announced(cdb1, r)
          \/ ready_in_ROB[r] /\ ~Cleared(w0, w1, r)]

MtStep(squash, w0, w1, d0, d1, cdb0, cdb1) ==
  IF squash
  THEN /\ Tag' = [r \in Reg |-> ZERO_TAG]
       /\ ready_in_ROB' = [r \in Reg |-> FALSE]
  ELSE MtUpdate(w0, w1, d0, d1, cdb0, cdb1)
=============================================================================
