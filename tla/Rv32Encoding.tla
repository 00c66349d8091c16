--------------------------- MODULE Rv32Encoding ---------------------------
(***************************************************************************)
(* tools/rv32enc.py: packing operands into 32-bit instruction words, and   *)
(* decoding words to a mnemonic and its fields.  A word is the set of its  *)
(* one bits, so that a field in the wrong place, or two that overlap, are  *)
(* as visible as in the code.                                              *)
(***************************************************************************)
EXTENDS Integers, FiniteSetsExt, Functions, TLC

Unset == -1      \* Python's None in a table

(* [rows of one opcode: mnemonic -> funct3]                                *)
Family(fmt, opcode, f7, f3s) ==
  [m \in DOMAIN f3s |-> [fmt |-> fmt, opcode |-> opcode, f3 |-> f3s[m], f7 |-> f7]]

OP_LUI == 55
OP_AUIPC == 23
OP_JAL == 111
OP_JALR == 103
OP_BRANCH == 99
OP_LOAD == 3
OP_STORE == 35
OP_OPIMM == 19
OP_OP == 51
OP_MISC == 15
OP_SYSTEM == 115
F7_NORM == 0
F7_ALT == 32

Tables ==
  {Family("R", OP_OP, F7_NORM, [add |-> 0, sll |-> 1, slt |-> 2, sltu |-> 3,
                                xor |-> 4, srl |-> 5, or |-> 6, and |-> 7]),
   Family("R", OP_OP, F7_ALT, [sub |-> 0, sra |-> 5]),
   Family("I", OP_OPIMM, Unset, [addi |-> 0, slti |-> 2, sltiu |-> 3,
                                 xori |-> 4, ori |-> 6, andi |-> 7]),
   Family("I", OP_OPIMM, F7_NORM, [slli |-> 1, srli |-> 5]),
   Family("I", OP_OPIMM, F7_ALT, [srai |-> 5]),
   Family("B", OP_BRANCH, Unset, [beq |-> 0, bne |-> 1, blt |-> 4,
                                  bge |-> 5, bltu |-> 6, bgeu |-> 7]),
   Family("I", OP_LOAD, Unset, [lb |-> 0, lh |-> 1, lw |-> 2, lbu |-> 4, lhu |-> 5]),
   Family("S", OP_STORE, Unset, [sb |-> 0, sh |-> 1, sw |-> 2]),
   Family("I", OP_JALR, Unset, [jalr |-> 0]),
   Family("J", OP_JAL, Unset, [jal |-> Unset]),
   Family("U", OP_LUI, Unset, [lui |-> Unset]),
   Family("U", OP_AUIPC, Unset, [auipc |-> Unset]),
   Family("SYS0", OP_SYSTEM, Unset, [ecall |-> 0, ebreak |-> 0]),
   Family("FENCE", OP_MISC, Unset, [fence |-> 0]),
   Family("Z", OP_SYSTEM, Unset, [csrrw |-> 1, csrrs |-> 2, csrrc |-> 3,
                                  csrrwi |-> 5, csrrsi |-> 6, csrrci |-> 7])}

ENC ==
  [m \in UNION {DOMAIN T : T \in Tables} |-> (CHOOSE T \in Tables : m \in DOMAIN T)[m]]

IMM_RANGES ==
  [I |-> -2048..2047, S |-> -2048..2047, B |-> -4096..4094,
   U |-> -(2^19)..2^20 - 1, J |-> -(2^20)..2^20 - 2, SHAMT |-> 0..31,
   CSR |-> 0..4095, ZIMM |-> 0..31, FENCE |-> 0..15]

-----------------------------------------------------------------------------
(* Packing.  Python shifts and masks negative numbers as two's complement, *)
(* which is what \div and % do.  The result is the set of words a call     *)
(* returns: empty when it raises ValueError.                               *)

(* Bits from..from+width-1 of value, put at position at.                   *)
Place(value, from, width, at) ==
  {at + i : i \in {j \in 0..width - 1 : (value \div 2^(from + j)) % 2 = 1}}

Field(value, width, at) == Place(value, 0, width, at)

_check_range(name, value) == value \in IMM_RANGES[name]
Reg(n) == n \in 0..31
Encode(opcode, rd, f3, rs1, rs2, f7) ==
  Field(f7, 7, 25) \cup Field(rs2, 5, 20) \cup Field(rs1, 5, 15)
    \cup Field(f3, 3, 12) \cup Field(rd, 5, 7) \cup Field(opcode, 7, 0)

pack_r(rd, rs1, rs2, f3, f7, opcode) ==
  IF Reg(rd) /\ Reg(rs1) /\ Reg(rs2)
  THEN {Encode(opcode, rd, f3, rs1, rs2, f7)} ELSE {}

pack_i(rd, rs1, f3, imm12, opcode) ==
  IF Reg(rd) /\ Reg(rs1) /\ _check_range("I", imm12)
  THEN {Field(imm12, 12, 20) \cup Encode(opcode, rd, f3, rs1, 0, 0)} ELSE {}

pack_shift_i(rd, rs1, shamt, f3, f7, opcode) ==
  IF /\ Reg(rd) /\ Reg(rs1) /\ _check_range("SHAMT", shamt)
     /\ <<f3, f7>> \in {<<1, F7_NORM>>, <<5, F7_NORM>>, <<5, F7_ALT>>}
  THEN {Encode(opcode, rd, f3, rs1, shamt, f7)} ELSE {}

pack_s(rs1, rs2, f3, off, opcode) ==
  IF Reg(rs1) /\ Reg(rs2) /\ _check_range("S", off)
  THEN {Place(off, 5, 7, 25) \cup Place(off, 0, 5, 7)
          \cup Encode(opcode, 0, f3, rs1, rs2, 0)} ELSE {}

(* Mutant: bits 11 and 12 of the displacement change places.               *)
pack_b_Swapped(rs1, rs2, f3, off, opcode) ==
  IF Reg(rs1) /\ Reg(rs2) /\ _check_range("B", off) /\ off % 2 = 0
  THEN {Place(off, 11, 1, 31) \cup Place(off, 5, 6, 25) \cup Place(off, 1, 4, 8)
          \cup Place(off, 12, 1, 7) \cup Encode(opcode, 0, f3, rs1, rs2, 0)} ELSE {}

pack_b(rs1, rs2, f3, off, opcode) ==
  IF Reg(rs1) /\ Reg(rs2) /\ _check_range("B", off) /\ off % 2 = 0
  THEN {Place(off, 12, 1, 31) \cup Place(off, 5, 6, 25) \cup Place(off, 1, 4, 8)
          \cup Place(off, 11, 1, 7) \cup Encode(opcode, 0, f3, rs1, rs2, 0)} ELSE {}

pack_u(rd, imm20, opcode) ==
  IF Reg(rd) /\ _check_range("U", imm20)
  THEN {Field(imm20, 20, 12) \cup Encode(opcode, rd, 0, 0, 0, 0)} ELSE {}

(* Mutant: an odd displacement is accepted, and its low bit lost.          *)
pack_j_Odd(rd, off, opcode) ==
  IF Reg(rd) /\ _check_range("J", off)
  THEN {Place(off, 20, 1, 31) \cup Place(off, 1, 10, 21) \cup Place(off, 11, 1, 20)
          \cup Place(off, 12, 8, 12) \cup Encode(opcode, rd, 0, 0, 0, 0)} ELSE {}

pack_j(rd, off, opcode) ==
  IF Reg(rd) /\ _check_range("J", off) /\ off % 2 = 0
  THEN {Place(off, 20, 1, 31) \cup Place(off, 1, 10, 21) \cup Place(off, 11, 1, 20)
          \cup Place(off, 12, 8, 12) \cup Encode(opcode, rd, 0, 0, 0, 0)} ELSE {}

pack_z(rd, csr, f3, source, opcode) ==
  IF Reg(rd) /\ _check_range("CSR", csr) /\ _check_range("ZIMM", source)
  THEN {Field(csr, 12, 20) \cup Encode(opcode, rd, f3, source, 0, 0)} ELSE {}

pack_fence(fm, pred, succ, opcode) ==
  IF \A value \in {fm, pred, succ} : _check_range("FENCE", value)
  THEN {Field(fm, 4, 28) \cup Field(pred, 4, 24) \cup Field(succ, 4, 20)
          \cup Field(opcode, 7, 0)} ELSE {}

(* tools/rv32asm.py, instruction_handler: the packing a mnemonic calls     *)
(* for.  a has the operands: rd, rs1, rs2, and the number imm.  A fence    *)
(* has its masks in rs1 and rs2, a CSR instruction its source in rs1.      *)
instruction_handler(m, a) ==
  LET e == ENC[m]
  IN CASE e.fmt = "R" -> pack_r(a.rd, a.rs1, a.rs2, e.f3, e.f7, e.opcode)
       [] e.fmt = "I" /\ e.f7 = Unset -> pack_i(a.rd, a.rs1, e.f3, a.imm, e.opcode)
       [] e.fmt = "I" /\ e.f7 # Unset ->
            pack_shift_i(a.rd, a.rs1, a.imm, e.f3, e.f7, e.opcode)
       [] e.fmt = "S" -> pack_s(a.rs1, a.rs2, e.f3, a.imm, e.opcode)
       [] e.fmt = "B" -> pack_b(a.rs1, a.rs2, e.f3, a.imm, e.opcode)
       [] e.fmt = "U" -> pack_u(a.rd, a.imm, e.opcode)
       [] e.fmt = "J" -> pack_j(a.rd, a.imm, e.opcode)
       [] e.fmt = "Z" -> pack_z(a.rd, a.imm, e.f3, a.rs1, e.opcode)
       [] e.fmt = "FENCE" -> pack_fence(a.imm, a.rs1, a.rs2, e.opcode)
       [] e.fmt = "SYS0" -> {Field(115, 7, 0) \cup Field(IF m = "ecall" THEN 0 ELSE 1, 1, 20)}

-----------------------------------------------------------------------------
(* Unpacking.                                                              *)

Slice(word, at, width) ==
  SumFunction([i \in 0..width - 1 |-> IF at + i \in word THEN 2^i ELSE 0])

fields(word) ==
  [opcode |-> Slice(word, 0, 7), rd |-> Slice(word, 7, 5), funct3 |-> Slice(word, 12, 3),
   rs1 |-> Slice(word, 15, 5), rs2 |-> Slice(word, 20, 5), funct7 |-> Slice(word, 25, 7),
   imm12 |-> Slice(word, 20, 12), imm20 |-> Slice(word, 12, 20)]

SignExtend(value, bits) == IF value >= 2^(bits - 1) THEN value - 2^bits ELSE value

unpack_b(word) ==
  SignExtend(Slice(word, 31, 1) * 2^12 + Slice(word, 7, 1) * 2^11
               + Slice(word, 25, 6) * 2^5 + Slice(word, 8, 4) * 2, 13)

unpack_j(word) ==
  SignExtend(Slice(word, 31, 1) * 2^20 + Slice(word, 12, 8) * 2^12
               + Slice(word, 20, 1) * 2^11 + Slice(word, 21, 10) * 2, 21)

unpack_s(word) == SignExtend(Slice(word, 25, 7) * 2^5 + Slice(word, 7, 5), 12)

(* The mnemonics that share a key, and the only ones that may: the two     *)
(* that the immediate tells apart.                                         *)
_table_key(row) == <<row.opcode, row.f3, row.f7>>
_collision_groups ==
  {{m \in DOMAIN ENC : _table_key(ENC[m]) = key} : key \in {_table_key(ENC[n]) : n \in DOMAIN ENC}}
validate_decode_uniqueness ==
  {g \in _collision_groups : Cardinality(g) > 1} = {{"ecall", "ebreak"}}
SYS0_IMMEDIATES == [n \in {0, 1} |-> IF n = 0 THEN "ecall" ELSE "ebreak"]

(* DECODE: the mnemonics of a key, without the SYS0 rows.                  *)
DECODE(opcode, f3, f7) ==
  {m \in DOMAIN ENC : /\ ENC[m].fmt # "SYS0"
                      /\ _table_key(ENC[m]) = <<opcode, f3, f7>>}

(* Mutant: funct7 is looked at only to tell srai from srli.                *)
Lookup_Lenient(f) ==
  LET f7 == IF f.funct7 = F7_ALT THEN F7_ALT ELSE F7_NORM
      exact == DECODE(f.opcode, f.funct3, f7)
      generic == DECODE(f.opcode, f.funct3, Unset)
  IN IF exact # {} THEN exact
     ELSE IF generic # {} THEN generic
     ELSE DECODE(f.opcode, Unset, Unset)

Lookup(f) ==
  LET exact == DECODE(f.opcode, f.funct3, f.funct7)
      generic == DECODE(f.opcode, f.funct3, Unset)
  IN IF exact # {} THEN exact
     ELSE IF generic # {} THEN generic
     ELSE DECODE(f.opcode, Unset, Unset)

(* The mnemonic of a word: the empty set if it is illegal.                 *)
decode_mnemonic(word) ==
  LET f == fields(word)
  IN IF f.opcode = OP_SYSTEM /\ f.funct3 = 0
     THEN {SYS0_IMMEDIATES[n] : n \in {f.imm12} \cap DOMAIN SYS0_IMMEDIATES}
     ELSE Lookup(f)

(* tools/rv32iss.py: the mnemonic and the fields of a word.                *)
decode_instruction(word) == {[m |-> m, f |-> fields(word)] : m \in decode_mnemonic(word)}

=============================================================================
