-------------------------- MODULE Rv32AluReference --------------------------
(***************************************************************************)
(* What the instruction set defines of the arithmetic, bit by bit: adders, *)
(* flags and shifts, with no number in them.                               *)
(***************************************************************************)
EXTENDS Rv32Alu

Top == XLEN - 1
Bits(w) == [i \in 0..Top |-> Bit(w, i)]
Ones(b) == [i \in 0..Top |-> 1 - b[i]]

(* A ripple-carry adder: its sum bits, and the carry out of the top.       *)
Carry(a, b, c0) ==
  LET c[i \in 0..XLEN] ==
        IF i = 0 THEN c0 ELSE IF a[i-1] + b[i-1] + c[i-1] > 1 THEN 1 ELSE 0
  IN c
Sum(a, b, c0) ==
  LET c == Carry(a, b, c0) IN [i \in 0..Top |-> (a[i] + b[i] + c[i]) % 2]

(* Comparisons as a subtractor's flags.                                    *)
Below(a, b) == Carry(a, Ones(b), 1)[XLEN] = 0
SignedBelow(a, b) == IF a[Top] # b[Top] THEN a[Top] = 1 ELSE Below(a, b)
Flag(holds) == [i \in 0..Top |-> IF i = 0 /\ holds THEN 1 ELSE 0]

ReferenceBits(m, a, b) ==
  LET shift == CHOOSE n \in 0..Top : \A i \in 0..Top : 2^i < XLEN => Bit(n, i) = b[i]
      At(i) == IF i \in 0..Top THEN a[i] ELSE 0
  IN CASE m = "add"  -> Sum(a, b, 0)
       [] m = "sub"  -> Sum(a, Ones(b), 1)
       [] m = "sll"  -> [i \in 0..Top |-> At(i - shift)]
       [] m = "srl"  -> [i \in 0..Top |-> At(i + shift)]
       [] m = "sra"  -> [i \in 0..Top |-> IF i + shift > Top THEN a[Top] ELSE At(i + shift)]
       [] m = "slt"  -> Flag(SignedBelow(a, b))
       [] m = "sltu" -> Flag(Below(a, b))
       [] m = "xor"  -> [i \in 0..Top |-> IF a[i] # b[i] THEN 1 ELSE 0]
       [] m = "or"   -> [i \in 0..Top |-> IF a[i] = 1 \/ b[i] = 1 THEN 1 ELSE 0]
       [] m = "and"  -> [i \in 0..Top |-> IF a[i] = 1 /\ b[i] = 1 THEN 1 ELSE 0]

Register ==
  [addi |-> "add", slli |-> "sll", slti |-> "slt", sltiu |-> "sltu", xori |-> "xor",
   srli |-> "srl", srai |-> "sra", ori |-> "or", andi |-> "and"]

ReferenceTaken(m, a, b) ==
  CASE m = "beq"  -> a = b
    [] m = "bne"  -> a # b
    [] m = "blt"  -> SignedBelow(a, b)
    [] m = "bge"  -> ~SignedBelow(a, b)
    [] m = "bltu" -> Below(a, b)
    [] m = "bgeu" -> ~Below(a, b)

-----------------------------------------------------------------------------
(* The words at which signs, carries, lanes and shift amounts turn over.   *)
Corners ==
  {w32(p + d) : p \in {0, 2^(XLEN \div 4), 2^(XLEN - 1)}, d \in -2..2}
    \cup {n \in Word : n <= XLEN + 1} \cup {(2^XLEN - 1) \div 3, 2 * ((2^XLEN - 1) \div 3)}

(* What the OP table gives, cut to a word, is bit for bit what the         *)
(* instruction set defines: signs, carries, shifts beyond the width.       *)
ASSUME OpAgrees ==
  \A m \in OPS, a, b \in Corners :
    Bits(w32(OpResult(m, a, b))) = ReferenceBits(m, Bits(a), Bits(b))

(* So is what the OP-IMM table gives, for immediates of half a word:       *)
(* sltiu compares the sign-extended field as unsigned.                     *)
Half == XLEN \div 2
ASSUME OpImmAgrees ==
  \A m \in OPIMM, a \in Corners, field \in 0..2^Half - 1 :
    Bits(w32(OpImmResult(m, a, sign_extend(field, Half)))) =
      ReferenceBits(Register[m], Bits(a),
                    [i \in 0..Top |-> Bit(field, IF i < Half THEN i ELSE Half - 1)])

(* A branch is taken on the flags the instruction set names.               *)
ASSUME BranchAgrees ==
  \A m \in BRANCHES, a, b \in Corners :
    Taken(m, a, b) <=> ReferenceTaken(m, Bits(a), Bits(b))

=============================================================================
