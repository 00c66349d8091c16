----------------------------- MODULE Rv32Codec -----------------------------
(***************************************************************************)
(* The encoder and the decoder against each other and against the table: a *)
(* word that the assembler makes of a request, or that is read from a      *)
(* memory and may be one no encoder makes.                                 *)
(***************************************************************************)
EXTENDS Rv32Encoding

CONSTANTS
  Regs,    \* register numbers to ask for, some of which are none
  Imms     \* the immediates to ask for with each mnemonic

ASSUME CodecAssumption ==
  /\ Regs \subseteq Int
  /\ DOMAIN Imms = DOMAIN ENC /\ \A m \in DOMAIN ENC : Imms[m] \subseteq Int

(* Said by the tests, and by nothing the tools do when they start.         *)
ASSUME DecodeUnique == validate_decode_uniqueness

VARIABLES request, word

none == [m |-> "none", rd |-> 0, rs1 |-> 0, rs2 |-> 0, imm |-> 0]

UsesRd(m)  == ENC[m].fmt \in {"R", "I", "U", "J", "Z"}
UsesRs1(m) == ENC[m].fmt \in {"R", "I", "S", "B", "Z"}
UsesRs2(m) == ENC[m].fmt \in {"R", "S", "B"}
UsesImm(m) == ENC[m].fmt \notin {"R", "SYS0"}

NoRequest == request = none /\ word = {}

Assemble ==
  /\ request = none
  /\ \E m \in DOMAIN ENC :
     \E rd \in (IF UsesRd(m) THEN Regs ELSE {0}),
        rs1 \in (IF UsesRs1(m) THEN Regs ELSE IF m = "fence" THEN 0..15 ELSE {0}),
        rs2 \in (IF UsesRs2(m) THEN Regs ELSE IF m = "fence" THEN 0..15 ELSE {0}),
        imm \in (IF UsesImm(m) THEN Imms[m] ELSE {0}) :
       /\ request' = [m |-> m, rd |-> rd, rs1 |-> rs1, rs2 |-> rs2, imm |-> imm]
       /\ word' \in instruction_handler(m, request') \cup
            (IF instruction_handler(m, request') = {} THEN {{}} ELSE {})

(* A word as memory may hold it: any opcode with the low bits of one, any  *)
(* funct3, any funct7, and three values of the bits between.               *)
Read ==
  /\ request = none
  /\ \E opcode \in {4 * k + 3 : k \in 0..31}, f3 \in 0..7, f7 \in 0..127, rs2 \in 0..2 :
       word' = Encode(opcode, 0, f3, 0, rs2, f7)
  /\ request' = [none EXCEPT !.m = "read"]

Codec == NoRequest /\ [][Assemble \/ Read]_<<request, word>>

-----------------------------------------------------------------------------
(* Properties.                                                             *)

Assembled == request.m \in DOMAIN ENC /\ word # {}
fmt == ENC[request.m].fmt

(* What the simulator takes for the immediate of a word.                   *)
Immediate(w) ==
  CASE fmt = "S" -> unpack_s(w)
    [] fmt = "B" -> unpack_b(w)
    [] fmt = "J" -> unpack_j(w)
    [] fmt = "U" -> fields(w).imm20
    [] fmt = "I" /\ ENC[request.m].f7 # Unset -> fields(w).imm12 % 32
    [] fmt = "I" /\ ENC[request.m].f7 = Unset -> SignExtend(fields(w).imm12, 12)
    [] fmt = "Z" -> fields(w).imm12
    [] fmt = "FENCE" -> Slice(w, 28, 4)
    [] OTHER -> 0

(* Every word the assembler emits decodes to the mnemonic and the operands *)
(* it was given, whatever their bits.                                      *)
RoundTrips ==
  Assembled =>
    LET f == fields(word)
    IN /\ decode_mnemonic(word) = {request.m}
       /\ UsesRd(request.m) => f.rd = request.rd
       /\ UsesRs1(request.m) => f.rs1 = request.rs1
       /\ UsesRs2(request.m) => f.rs2 = request.rs2
       /\ Immediate(word) = IF fmt = "U" THEN request.imm % 2^20 ELSE request.imm

(* An operand is refused exactly when its field cannot hold it: a range in *)
(* IMM_RANGES that is off by one, or an odd displacement let through,      *)
(* would lose a bit or refuse a legal instruction.                         *)
RefusedIffLost ==
  LET Signed(n) == SignExtend(request.imm % 2^n, n) = request.imm
      Unsigned(n) == request.imm % 2^n = request.imm
      Holds == CASE fmt = "I" /\ ENC[request.m].f7 # Unset -> Unsigned(5)
                 [] fmt \in {"I", "S"} /\ ENC[request.m].f7 = Unset -> Signed(12)
                 [] fmt = "B" -> Signed(13) /\ request.imm % 2 = 0
                 [] fmt = "J" -> Signed(21) /\ request.imm % 2 = 0
                 [] fmt = "U" -> Signed(20) \/ Unsigned(20)
                 [] fmt = "Z" -> Unsigned(12)
                 [] fmt = "FENCE" -> Unsigned(4)
                 [] OTHER -> TRUE
  IN request.m \in DOMAIN ENC =>
       (word # {} <=> Holds /\ {request.rd, request.rs1, request.rs2} \subseteq 0..31)

(* The mnemonics whose row a word satisfies: every fixed field it names.   *)
Satisfied(w) ==
  LET f == fields(w)
  IN {m \in DOMAIN ENC :
        /\ ENC[m].opcode = f.opcode
        /\ ENC[m].f3 \in {f.funct3, Unset}
        /\ ENC[m].f7 \in {f.funct7, Unset}
        /\ m = "ecall" => f.imm12 = 0
        /\ m = "ebreak" => f.imm12 = 1}

(* The decoder's three lookups find exactly the row a word satisfies, and  *)
(* nothing for a reserved word: no shift with a stray funct7, no second    *)
(* mnemonic for the same word.  Of ecall and ebreak the table, and so the  *)
(* decoder, asks nothing about rd and rs1.                                 *)
DecodesTheTable == word # {} => decode_mnemonic(word) = Satisfied(word)

=============================================================================
