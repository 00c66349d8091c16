----------------------------- MODULE MCAssembler -----------------------------
(***************************************************************************)
(* Small sources for the assembler, and what its pseudoinstructions do to  *)
(* the registers of a hart (of XLEN bits) once assembled and decoded.      *)
(***************************************************************************)
EXTENDS Assembler, Rv32Alu

L(label, op, operands) == [label |-> label, op |-> op, operands |-> operands]
S(op, operands) == L("", op, operands)
R(n) == Name("x" \o ToString(n))
a0 == Name("a0")
fwd == Name("a")

(* Labels before everything a label can stand before, and what refers to   *)
(* one, with gaps that no field or just a field can span.                  *)
Layouts ==
  {L("a", "", <<>>), L("a", "li", <<R(1), Wide(74565, 2048)>>), L("a", ".byte", <<Num(255)>>),
   L("a", ".org", <<Num(2047)>>), L("4", "la", <<R(1), fwd>>), L(EmptyLabel, "nop", <<>>),
   S("beq", <<R(1), R(2), fwd>>), S("j", <<fwd>>), S("la", <<R(1), fwd>>),
   S(".word", <<fwd, Num(5)>>), S(".org", <<Num(4096)>>), S(".org", <<Num(4)>>),
   S(".space", <<Num(6)>>), S("jal", <<R(1), Num(4)>>), S("la", <<R(32), fwd>>),
   S("addi", <<R(1), R(2), Num(5000)>>), S("lw", <<R(1), Mem(-4, R(2))>>)}

(* One of each: every pseudoinstruction, literals at the edges of one      *)
(* instruction and of 32 bits, every format, and lines that are refused.   *)
Literals ==
  {Num(n) : n \in {0, -1, 2047, 2048, -2048, -2049, 4095, 4096, 6144}}
  \cup {Wide(2^19 - 1, 4095), Wide(2^19 - 1, 2047), Wide(2^19, 0), Wide(-(2^19), 0),
        Wide(2^20 - 1, 2048), Wide(2^20 - 1, 2047), Wide(2^20, 0), Wide(-(2^19) - 1, 4095)}

Singles ==
  {S("li", <<a0, n>>) : n \in Literals} \cup {S("li", <<a0, fwd>>), S("li", <<a0>>)}
  \cup {S(op, <<>>) : op \in {"nop", "ret", "ecall", "ebreak", "fence", "mv", "bogus", ".text", ".word"}}
  \cup {S(op, <<a0, R(7)>>) : op \in {"mv", "neg", "not", "seqz", "snez"}}
  \cup {S(op, <<R(7), Num(8)>>) : op \in {"beqz", "bnez"}}
  \cup {S("j", <<Num(-8)>>), S("jr", <<R(7)>>), S("jr", <<Mem(0, R(7))>>),
        S("csrr", <<a0, Name("mhartid")>>), S("csrw", <<Num(4096), a0>>),
        S("csrw", <<Num(768), a0>>), S("la", <<a0>>), S("lui", <<a0, Num(2^20)>>),
        S("add", <<a0, R(7), Num(8)>>), S("add", <<a0, R(32), R(7)>>), S("add", <<a0, a0>>),
        S("sra", <<a0, a0, a0>>), S("srai", <<a0, a0, Num(32)>>), S("srai", <<a0, a0, Num(31)>>),
        S("jalr", <<R(1), R(2), Num(4)>>), S("jalr", <<R(1)>>), S("lbu", <<a0, Mem(2048, R(2))>>),
        S("sw", <<R(2), Mem(-2048, R(1))>>), S("sh", <<R(2), Mem(4, R(40))>>), S("sb", <<R(2), R(1)>>),
        S("csrrwi", <<a0, Num(5), Num(31)>>), S("csrrs", <<a0, Num(5), Num(32)>>),
        S("fence", <<Name("iorw"), Num(0)>>), S("fence", <<Name("r"), Name("x"), Num(1)>>),
        S("fence", <<Name("w")>>), S("ecall", <<a0>>), S("jal", <<R(0), Num(3)>>),
        S(".text", <<a0>>), S(".bogus", <<>>), S(".byte", <<Num(-129)>>), S(".byte", <<Num(-128), Num(255)>>),
        S(".half", <<Num(65536)>>), S(".half", <<Num(-32768), a0>>), S(".word", <<Wide(2^20 - 1, 4095)>>),
        S(".word", <<Wide(2^20, 0)>>), S(".space", <<Num(-1)>>), S(".space", <<a0>>),
        S(".space", <<Num(2^20 + 1)>>), S(".org", <<Num(2^20 + 1)>>), S(".org", <<Num(-4)>>),
        S(".org", <<a0>>), S(".org", <<>>),
        S(".space", <<Wide(2^18, 0)>>), S("fence", <<Name("ow"), Name("ior")>>),
        L(EmptyLabel, "", <<>>), L(EmptyLabel, "li", <<a0, Wide(2^19 - 1, 4095)>>)}

(* Jumps over and up to the ends of their ranges and of the image.         *)
Far ==
  {<<S("jal", <<R(1), fwd>>), S(".org", <<Num(n)>>), L("a", "", <<>>)>> :
     n \in {2^20 - 2, 2^20 - 4, 2^20}}
  \cup {<<L("a", "nop", <<>>), S(".org", <<Num(n)>>), S("beqz", <<R(1), fwd>>), S("nop", <<>>)>> :
     n \in {4094, 4096, 4098, 2^20 - 4}}

(* What cannot be laid out, followed by what comes after all the same.     *)
Hopeless ==
  {<<S("li", <<a0, Wide(2^20, 0)>>), L(EmptyLabel, "", <<>>), S("nop", <<>>)>>,
   <<L(EmptyLabel, "li", <<a0, Num(5)>>), S(".space", <<Wide(2^20, 7)>>), S(".org", <<Num(4)>>)>>}

MCPrograms ==
  {<<>>} \cup {<<l>> : l \in Singles} \cup Far \cup Hopeless
  \cup {<<k, l>> : k \in Layouts, l \in Singles}
  \cup {<<j, k, l>> : j \in Layouts, k \in Layouts, l \in Layouts}

-----------------------------------------------------------------------------
(* Properties.                                                             *)

(* A word of the image with what the simulator makes of it when the only   *)
(* register apart from x0 that is known is x7, and holds v.                *)
Known == 7
Decoded(i) == CHOOSE d \in decode_instruction(WordAt(items[i].address)) : TRUE
Registers(v) == [r \in 0..31 |-> IF r = 0 THEN 0 ELSE IF r = Known THEN v ELSE (v + 1) % 2^XLEN]

ResultOf(d, v) ==
  LET x == Registers(v)
  IN w32(IF d.m \in OPS THEN OpResult(d.m, x[d.f.rs1], x[d.f.rs2])
         ELSE OpImmResult(d.m, x[d.f.rs1], SignExtend(d.f.imm12, 12)))

(* What the assembler's user expects of a pseudoinstruction.               *)
Meaning(op, v) ==
  CASE op = "mv" -> v
    [] op = "neg" -> w32(-v)
    [] op = "not" -> 2^XLEN - 1 - v
    [] op = "seqz" -> IF v = 0 THEN 1 ELSE 0
    [] op = "snez" -> IF v = 0 THEN 0 ELSE 1

(* The value a lui, if there is one, and an addi leave, as a number of 32  *)
(* bits: its upper 20 and its lower 12.                                    *)
Loaded(is) ==
  LET low == fields(WordAt(items[Max(is)].address)).imm12
      high == IF Cardinality(is) = 1 THEN 0 ELSE fields(WordAt(items[Min(is)].address)).imm20
  IN <<(high + (IF low >= 2048 THEN -1 ELSE 0)) % 2^20, low>>

(* Assembled, decoded and executed, a pseudoinstruction does what its name *)
(* says to every value: li for every literal, the rounding of its upper    *)
(* part included; mv, neg, not, seqz, snez and the branches for every      *)
(* value of their source.                                                  *)
PseudosMean ==
  phase = "written" =>
    \A n \in DOMAIN source :
      LET op == source[n].op
          a == source[n].operands
          is == {i \in DOMAIN items : items[i].line = n /\ Emits(i)}
          d == Decoded(Min(is))
      IN /\ op = "li" =>
              /\ \E p \in a[2].num : Loaded(is) = <<p[1] % 2^20, p[2]>>
              /\ \A i \in is : Decoded(i).f.rd \in parse_register(a[1])
         /\ op \in {"mv", "neg", "not", "seqz", "snez"} =>
              /\ d.f.rd \in parse_register(a[1])
              /\ \A v \in Word : ResultOf(d, v) = Meaning(op, v)
         /\ op \in {"beqz", "bnez"} =>
              /\ d.f.rs2 = 0 /\ d.f.rs1 \in parse_register(a[1])
              /\ \A v \in Word : Taken(d.m, v, 0) = (v = 0 <=> op = "beqz")
         /\ op \in {"jr", "ret"} =>
              /\ d.m = "jalr" /\ d.f.rd = 0 /\ d.f.imm12 = 0
              /\ d.f.rs1 \in (IF op = "ret" THEN {1} ELSE parse_register(a[1]))
         /\ op = "csrr" => d.m = "csrrs" /\ d.f.rs1 = 0 /\ d.f.imm12 \in parse_csr(a[2])
         /\ op = "csrw" => d.m = "csrrw" /\ d.f.rd = 0 /\ d.f.imm12 \in parse_csr(a[1])

=============================================================================
