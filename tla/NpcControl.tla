------------------------------ MODULE NpcControl ------------------------------
(***************************************************************************)
(* Branch prediction (verilog/npc_control_2.sv): the direction predictor,  *)
(* the target buffer and the return stack behind one query per cycle, for  *)
(* the pair of instructions that dispatch_stage_2.sv fetches.  The core    *)
(* (P6Core) has any answer they could give; this is which they give.       *)
(*                                                                         *)
(* An instruction address counts instructions; a line holds two.           *)
(***************************************************************************)
EXTENDS Ras, Btb, Dirp

CONSTANTS
  PCS,     \* bound: the text lies at 0 .. PCS - 1, an even number
  Texts    \* the texts: address -> [op, to]; op is "beq" (any conditional
           \* branch), "jal", "jalr" or "add" (any other), `to' the target of
           \* a "beq" or "jal"

Pc == 0 .. PCS - 1

ASSUME NpcAssumption ==
  /\ PCS \in Nat \ {0} /\ PCS % 2 = 0
  /\ Texts \subseteq [Pc -> [op : {"beq", "jal", "jalr", "add"}, to : Pc]]

VARIABLES
  text,
  fetched,   \* history: the query of the last cycle
  answer     \* history: the answer to the return of that query, or 0

npcVars == <<text, rasVars, btbVars, dirpVars, fetched, answer>>

-----------------------------------------------------------------------------
(* The query f: the pair at f.PC, if the cache has its line (f.hit).  Slot  *)
(* 1 is empty when PC is odd and behind a branch that is predicted taken.   *)

Query == [PC : Pc, hit : BOOLEAN]

is_branch_0(f) == f.hit /\ text[f.PC].op = "beq"

branch_predict_0(f) ==
  branch_taken(is_branch_0(f), f.PC) /\ hit(is_branch_0(f), f.PC)

Is(op, f, slot) ==
  /\ f.hit
  /\ slot = 1 => f.PC % 2 = 0 /\ ~branch_predict_0(f)
  /\ text[f.PC + slot].op = op

is_jump(f) == Is("jal", f, 0) \/ Is("jal", f, 1)
is_return(f) == Is("jalr", f, 0) \/ Is("jalr", f, 1)

\* The address the stack is asked about: behind the pair, unless slot 0 is a
\* call.
AskedNPC(f) == IF Is("jal", f, 0) THEN f.PC + 1 ELSE f.PC + 2

branch_predict(f, slot) ==
  LET pc == f.PC + slot
      is_branch == Is("beq", f, slot)
  IN  branch_taken(is_branch, pc) /\ hit(is_branch, pc)

\* The one answer of the stack goes to the first slot that returns.
NPC_out(f, slot) ==
  LET pc == f.PC + slot
  IN  IF /\ Is("jalr", f, slot)
         /\ slot = 1 => ~Is("jalr", f, 0)
         /\ ras_valid(is_return(f))
      THEN PC_return(is_return(f), AskedNPC(f))
      ELSE IF hit(Is("jal", f, slot), pc) \/ branch_predict(f, slot)
      THEN targetPC_out(pc)
      ELSE pc + 1

-----------------------------------------------------------------------------
(* What the units and the reorder buffer report.  A unit reports the target *)
(* of a conditional branch, taken or not, and of a jump, but not of a       *)
(* return.  A port without a branch still has an address, of which only the *)
(* entry of the buffer matters.                                             *)

FuResult ==
  {w \in [en : BOOLEAN, PC : Pc, targetPC : Pc] :
     /\ w.targetPC = text[w.PC].to
     /\ IF w.en THEN text[w.PC].op \in {"beq", "jal"} ELSE w.PC \in Index}

NoFuResult == CHOOSE w \in FuResult : ~w.en

\* Bound: a text without a conditional branch, which asks no counter, trains
\* none.
Retired ==
  {r \in [valid : {TRUE}, result : BOOLEAN, idx : PhtIdx] :
     \E pc \in Pc : text[pc].op = "beq"}

NothingRetired == [valid |-> FALSE, result |-> FALSE, idx |-> 0]

Clocked(f, w0, w1, r0, r1) ==
  /\ RasStep(is_jump(f), is_return(f), AskedNPC(f))
  /\ BtbStep(w0, w1)
  /\ DirpStep(r0, r1)
  /\ fetched' = f
  /\ answer' = IF ~is_return(f) THEN 0
               ELSE NPC_out(f, IF Is("jalr", f, 0) THEN 0 ELSE 1)
  /\ UNCHANGED text

\* Bound: no cycle has reports of both kinds.  They go to different tables.
UnitsReport ==
  \E f \in Query, w0, w1 \in FuResult :
    Clocked(f, w0, w1, NothingRetired, NothingRetired)

BranchesRetire ==
  \E f \in Query, r0, r1 \in Retired \cup {NothingRetired} :
    Clocked(f, NoFuResult, NoFuResult, r0, r1)

NpcInit ==
  /\ text \in Texts
  /\ RasInit /\ BtbInit /\ DirpInit
  /\ fetched = [PC |-> 0, hit |-> FALSE]
  /\ answer = 0

NpcSpec == NpcInit /\ [][UnitsReport \/ BranchesRetire]_npcVars

-----------------------------------------------------------------------------
(* Properties.                                                             *)

\* What the buffer knows of an instruction is the target of that very
\* instruction, and it knows nothing of an instruction that is no branch,
\* whatever shares its entry and whatever two branches of a cycle write.
TargetsAreItsOwn ==
  \A pc \in Pc :
    hit(TRUE, pc) => /\ text[pc].op \in {"beq", "jal"}
                     /\ targetPC_out(pc) = text[pc].to

\* What the tables have learnt is of the instruction they are asked about, and
\* follows what its branches do.
PredictorsInv == TargetsAreItsOwn /\ LearnsAndForgives

\* A pair that is fetched again in the next cycle, without a branch whose
\* prediction may have changed, moves nothing in the stack, and its return,
\* unless it was the last one there or has a call beside it, is answered
\* alike: a refused return is not given the return address of its caller.
HeldFetchIsAnsweredAlike ==
  [][fetched.hit /\ fetched' = fetched =>
       LET f == fetched
       IN  (\A slot \in {0, 1} : ~Is("beq", f, slot)) =>
             /\ UNCHANGED <<ras_stack, ras_counter, tosp>>
             /\ ~is_jump(f) /\ ras_counter # 0 => answer' = answer
    ]_npcVars
=============================================================================
