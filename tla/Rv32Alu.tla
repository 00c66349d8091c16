------------------------------ MODULE Rv32Alu ------------------------------
(***************************************************************************)
(* The integer arithmetic of tools/rv32iss.py.  Python's integers have no  *)
(* width: an operation computes a number of any size, or a negative one,   *)
(* and reg_write cuts it to XLEN bits.  XLEN is 32 in the code and a       *)
(* smaller power of two here.                                              *)
(***************************************************************************)
EXTENDS Integers, Functions

CONSTANT XLEN

ASSUME XlenAssumption == XLEN \in {2^k : k \in 2..5}

Word == 0..2^XLEN - 1

w32(value) == value % 2^XLEN

s32(value) == IF value >= 2^(XLEN - 1) THEN value - 2^XLEN ELSE value
sign_extend(value, bits) ==
  IF value >= 2^(bits - 1) THEN value - 2^bits ELSE value

(* Python's bitwise operators on two words.                                *)
Bit(value, i) == (value \div 2^i) % 2
Bitwise2(F(_, _), a, b) ==
  SumFunction([i \in 0..XLEN - 1 |-> F(Bit(a, i), Bit(b, i)) * 2^i])
And(a, b) == Bitwise2(LAMBDA p, q : p * q, a, b)
Or(a, b)  == Bitwise2(LAMBDA p, q : IF p + q > 0 THEN 1 ELSE 0, a, b)
Xor(a, b) == Bitwise2(LAMBDA p, q : (p + q) % 2, a, b)

Int01(holds) == IF holds THEN 1 ELSE 0

OPS   == {"add", "sub", "sll", "slt", "sltu", "xor", "srl", "sra", "or", "and"}
OPIMM == {"addi", "slli", "slti", "sltiu", "xori", "srli", "srai", "ori", "andi"}

(* The OP table: rs1 and rs2 are words, the result any integer.  Shifting  *)
(* a negative number right rounds down.                                    *)
OpResult(mnemonic, rs1, rs2) ==
  LET shift == rs2 % XLEN
  IN CASE mnemonic = "add"  -> rs1 + rs2
       [] mnemonic = "sub"  -> rs1 - rs2
       [] mnemonic = "sll"  -> rs1 * 2^shift
       [] mnemonic = "slt"  -> Int01(s32(rs1) < s32(rs2))
       [] mnemonic = "sltu" -> Int01(rs1 < rs2)
       [] mnemonic = "xor"  -> Xor(rs1, rs2)
       [] mnemonic = "srl"  -> rs1 \div 2^shift
       [] mnemonic = "sra"  -> s32(rs1) \div 2^shift
       [] mnemonic = "or"   -> Or(rs1, rs2)
       [] mnemonic = "and"  -> And(rs1, rs2)

(* The OP-IMM table: immediate is the sign-extended field, whose low bits  *)
(* are the shift amount.                                                   *)
OpImmResult(mnemonic, rs1, immediate) ==
  LET shift == immediate % XLEN
  IN CASE mnemonic = "addi"  -> rs1 + immediate
       [] mnemonic = "slli"  -> rs1 * 2^shift
       [] mnemonic = "slti"  -> Int01(s32(rs1) < immediate)
       [] mnemonic = "sltiu" -> Int01(rs1 < w32(immediate))
       [] mnemonic = "xori"  -> Xor(rs1, w32(immediate))
       [] mnemonic = "srli"  -> rs1 \div 2^shift
       [] mnemonic = "srai"  -> s32(rs1) \div 2^shift
       [] mnemonic = "ori"   -> Or(rs1, w32(immediate))
       [] mnemonic = "andi"  -> And(rs1, w32(immediate))

BRANCHES == {"beq", "bne", "blt", "bge", "bltu", "bgeu"}

Taken(mnemonic, rs1, rs2) ==
  \/ mnemonic = "beq"  /\ rs1 = rs2
  \/ mnemonic = "bne"  /\ rs1 # rs2
  \/ mnemonic = "blt"  /\ s32(rs1) < s32(rs2)
  \/ mnemonic = "bge"  /\ s32(rs1) >= s32(rs2)
  \/ mnemonic = "bltu" /\ rs1 < rs2
  \/ mnemonic = "bgeu" /\ rs1 >= rs2

=============================================================================
