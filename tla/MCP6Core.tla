------------------------------- MODULE MCP6Core -------------------------------
(* The core on a handful of programs, each written for one hazard.          *)
EXTENDS P6Core, Sequences

I(op, rd, rs1, rs2, imm) ==
  [op |-> op, rd |-> rd, rs1 |-> rs1, rs2 |-> rs2, imm |-> imm, size |-> 2]

li(rd, imm) == I("li", rd, 0, 0, imm)
add(rd, a, b) == I("add", rd, a, b, 0)
mul(rd, a, b) == I("mul", rd, a, b, 0)
beq(a, b, to) == I("beq", 0, a, b, to)
jal(rd, to) == I("jal", rd, 0, 0, to)
jalr(rd, a) == I("jalr", rd, a, 0, 0)
load(rd, a, off) == I("load", rd, a, 0, off)
store(a, off, b) == I("store", 0, a, b, off)
storeb(a, off, b) == [store(a, off, b) EXCEPT !.size = 1]
wfi == I("wfi", 0, 0, 0, 0)

\* A text is a sequence; addresses start at 0.
Text(s) == [a \in 0 .. Len(s) - 1 |-> s[a + 1]]

\* Chains of true, output and anti dependences through a slow product.
Rename == Text(<<li(1, 3), mul(2, 1, 1), add(1, 2, 1), add(2, 1, 2),
                 add(1, 1, 1), wfi>>)

\* Loads behind stores to the same and to another word.
Memory == Text(<<li(1, 2), store(0, 0, 1), load(2, 0, 0), store(1, 0, 2),
                 load(1, 0, 2), add(3, 1, 2), wfi>>)

\* A branch that depends on a product, with stores on the wrong path.
Wrong == Text(<<li(1, 1), mul(2, 1, 1), beq(1, 2, 6), store(0, 0, 1),
                li(1, 7), wfi, load(3, 0, 0), wfi>>)

\* A misprediction that is known while a product in front of it is not, so
\* that both retire in one cycle.
Early == Text(<<li(1, 1), mul(2, 1, 1), beq(1, 1, 5), store(0, 0, 1),
                li(1, 7), add(3, 2, 1), wfi>>)

\* A loop, run twice.
Loop == Text(<<li(1, 1), li(3, 1), beq(1, 2, 6), add(2, 2, 3), jal(0, 2),
               li(1, 9), wfi>>)

\* A call and a return, with no instruction behind the call.
Call == Text(<<jal(1, 4), li(3, 3), wfi, ILLEGAL, add(2, 1, 1), jalr(3, 1)>>)

\* A wrong path that meets a word that does not decode, and a valid one
\* behind it.
Phantom == Text(<<li(1, 1), mul(2, 1, 1), beq(1, 2, 6), add(3, 1, 1),
                  ILLEGAL, store(0, 0, 1), load(3, 0, 0), wfi>>)

\* A branch that waits for a product and is taken, one that is not, another
\* that waits, and a wrong path that stays at a word that does not decode
\* with a jump behind it.
Starved == Text(<<li(1, 1), mul(2, 1, 1), beq(1, 2, 8), beq(1, 0, 8),
                  beq(2, 0, 8), li(3, 1), ILLEGAL, jal(0, 0), wfi>>)

\* A byte is stored and the word around it is loaded.
Overlap == Text(<<li(1, 3), li(2, 0), storeb(2, 0, 1), load(3, 2, 0), wfi>>)

StarvedOnly == {Starved}
OverlapOnly == {Overlap}
NoTargets == {}
JoinOnly == {5}

\* Every program of four instructions between a first and a last one.
Alphabet == {add(1, 1, 1), add(2, 2, 1), mul(2, 1, 1), beq(1, 2, 5),
             jal(2, 4), store(1, 0, 1), load(2, 1, 0)}
Short == {Text(<<li(1, 2), a, b, c, d, wfi>>) :
            a, b, c, d \in Alphabet}

MCPrograms == {Rename, Memory, Wrong, Early, Loop, Call, Phantom}
MCReg == 0 .. 3
MCInitRegs == {[r \in Reg |-> 0]}
MCTargets == 0 .. 6
Always == {FALSE}
Sometimes == {FALSE, TRUE}
=============================================================================
