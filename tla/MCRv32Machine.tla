--------------------------- MODULE MCRv32Machine ---------------------------
(***************************************************************************)
(* Small programs for the machine at 8 bits: words 0 to 255, bytes of two  *)
(* bits, RAM of 12 words at 0, devices from 128 on, U-type immediates in   *)
(* units of 8.  A word tells the program and the place in it of the        *)
(* instruction it stands for.                                              *)
(***************************************************************************)
EXTENDS Rv32Machine, Rv32AluReference

I(op, rd, rs1, rs2, imm) ==
  [op |-> op, rd |-> rd, rs1 |-> rs1, rs2 |-> rs2, imm |-> imm]

ToData   == I("lui", 1, 0, 0, 5)       \* x1 = 40, the tenth word of RAM
ToDevice == I("lui", 1, 0, 0, 16)      \* x1 = 128, DEVICE_BASE
ToGap    == I("lui", 1, 0, 0, 8)       \* x1 = 64, neither RAM nor device
Break    == I("ebreak", 0, 0, 0, 0)
Minus1   == I("addi", 2, 0, 0, -1)     \* x2 = 255

R(op) == I(op, 3, 1, 2, 0)
Imm(op, imm) == I(op, 3, 1, 0, imm)
Over(op) == I(op, 0, 1, 2, 8)          \* passes over one instruction if it is taken
Word1 == I("lw", 1, 0, 0, 40)
Word2 == I("lw", 2, 0, 0, 44)

MCPrograms == [
  (* Every width into RAM and back, from a register with dirty high bytes. *)
  ram      |-> <<ToData, Minus1, I("sb", 0, 1, 2, 1), I("sh", 0, 1, 2, 6),
                 I("lb", 3, 1, 0, 1), I("lhu", 3, 1, 0, 2), Break>>,
  (* A loop whose branch is taken twice, with x0 as a destination.         *)
  loop     |-> <<I("addi", 2, 0, 0, 2), I("addi", 2, 2, 0, -1),
                 I("bne", 0, 2, 0, -4), I("add", 0, 2, 2, 0), I("ecall", 0, 0, 0, 0)>>,
  forever  |-> <<I("auipc", 1, 0, 0, 1), I("jal", 0, 0, 0, 0)>>,
  (* Device accesses; a load to x0 reaches its device too.                 *)
  device   |-> <<ToDevice, Minus1, I("sb", 0, 1, 2, 1), I("lh", 2, 1, 0, 2),
                 I("lb", 0, 1, 0, 1), Break>>,
  (* Misaligned at a device, and between RAM and the devices.              *)
  crooked  |-> <<ToDevice, I("lh", 0, 1, 0, 1)>>,
  crookedW |-> <<ToDevice, I("sw", 0, 1, 0, 2)>>,
  gap      |-> <<ToGap, I("fence", 0, 0, 0, 0), I("sw", 0, 1, 0, 0)>>,
  (* jalr through its own link register, to an address off a word.         *)
  links    |-> <<I("jal", 1, 0, 0, 8), I("fence", 0, 0, 0, 0),
                 I("jalr", 1, 1, 0, 7)>>,
  (* Runs off the end of RAM.                                              *)
  away     |-> <<I("jal", 2, 0, 0, 44)>>,
  (* Overwrites the instruction it then executes with the word at 40.      *)
  rewrites |-> <<ToData, I("lw", 2, 1, 0, 0), I("sw", 0, 0, 2, 12),
                 I("fence", 0, 0, 0, 0), I("sltu", 3, 0, 2, 0), Break>>,
  csr      |-> <<I("fence", 0, 0, 0, 0), I("csrrs", 2, 0, 0, 0)>>,
  (* Two words are loaded, and computed and branched with.                 *)
  sums     |-> <<Word1, Word2, R("add"), R("sub"), R("slt"), R("sltu"), R("sra"),
                 R("srl"), R("sll"), Break>>,
  signed   |-> <<Word1, Word2, Over("blt"), R("xor"), Over("bge"), R("or"),
                 Over("bltu"), R("and"), Imm("slli", 7), Break>>,
  equal    |-> <<Word1, Word2, Over("beq"), Imm("srli", 7), Over("bne"),
                 Imm("srai", 7), Over("bgeu"), Imm("slli", 1), Imm("srai", 1), Break>>,
  negative |-> <<Word1, Imm("addi", -1), Imm("slti", -1), Imm("sltiu", -1),
                 Imm("xori", -1), Imm("ori", -8), Imm("andi", -8), Imm("sltiu", 1), Break>>,
  positive |-> <<Word1, Imm("addi", 7), Imm("slti", 1), Imm("sltiu", -8),
                 Imm("xori", 7), Imm("ori", 1), Imm("andi", 7), Imm("slti", -8), Break>>
]

Names == <<"ram", "loop", "forever", "device", "crooked", "crookedW", "gap", "links",
           "away", "rewrites", "csr", "sums", "signed", "equal", "negative", "positive">>
Number(n, k) == 11 * n + k
MCDecoded ==
  LET At(w) == MCPrograms[Names[(w - 1) \div 11]]
      Place(w) == ((w - 1) % 11) + 1
  IN [w \in {v \in Number(1, 1)..Number(Len(Names), 10) : Place(v) \in DOMAIN At(v)} |->
        At(w)[Place(w)]]

(* A program and the two words behind it.                                  *)
ImageOf(name, words) ==
  LET n == CHOOSE m \in DOMAIN Names : Names[m] = name
      WordAt(k) == IF k < Len(MCPrograms[name]) THEN Number(n, k + 1)
                   ELSE IF k >= 10 THEN words[k - 9] ELSE 0
  IN [a \in 0..RAM_BYTES - 1 |-> (WordAt(a \div 4) \div BYTE^(a % 4)) % BYTE]

(* The words at 40 and 44 are data that happen to decode, as an ebreak.    *)
Loaded(name) == ImageOf(name, <<Number(1, 7), Number(1, 7)>>)

(* One hart at a time, taking turns, one that stops early, and one that    *)
(* names a hart there is not.                                              *)
Scripts ==
  {[k \in 1..20 |-> IF k <= 10 THEN 0 ELSE 1],
   [k \in 1..20 |-> k % 2], <<1, 0, 1>>, <<0, 2, 0>>}

Setup(images, budget, schedule, ids) ==
  [images |-> images, max_steps |-> budget, mode |-> schedule, script |-> ids]

(* Longer programs: every two of them taking turns to their end, and at    *)
(* every interleaving for six steps; each with the one that rewrites       *)
(* itself at every interleaving to their end.  Neither hart comes first in *)
(* a random choice.                                                        *)
LongLoads ==
  {Loaded(p) : p \in {"ram", "device", "rewrites", "crooked", "crookedW", "links", "away"}}
Turns == {Setup(images, 20, "rr", <<>>) : images \in [Harts -> LongLoads]}
Interleaved ==
  LET Both(two) == CHOOSE images \in [Harts -> two] : Range(images) = two
  IN {Setup(Both(two), 6, "random", <<>>) : two \in {{p, q} : p, q \in LongLoads}}
     \cup {Setup(Both(two), 20, "random", <<>>) :
             two \in {{p, Loaded("rewrites")} : p \in LongLoads}}

(* Short programs, one of each kind of end, under all schedules and with   *)
(* budgets that end them before, in and after their course.                *)
ShortLoads == {Loaded(p) : p \in {"loop", "forever", "crooked", "gap", "links", "csr"}}
Scheduled ==
  {Setup(images, budget, schedule, <<>>) :
     images \in [Harts -> ShortLoads], budget \in {0, 3, 7},
     schedule \in {"rr", "random", "client"}}
    \cup {Setup(images, budget, "script", ids) :
            images \in [Harts -> ShortLoads], budget \in {0, 3, 7}, ids \in Scripts}

(* The computations on words at which signs and carries turn over, on one  *)
(* hart, and after run() has returned on the other.                        *)
ComputingLoads ==
  {ImageOf(p, <<a, b>>) : p \in {"sums", "signed", "equal", "negative", "positive"},
                          a, b \in {1, 127, 128, 255}}
Computed ==
  {Setup(images, 20, "script", [k \in 1..11 |-> 0]) :
     images \in {f \in [Harts -> ComputingLoads] : f[0] = f[1]}}

MCSetups == Turns \cup Interleaved \cup Scheduled \cup Computed
MCDeviceSetups ==
  {Setup([h \in Harts |-> Loaded(p)], 20, "rr", <<>>) : p \in {"device", "gap"}}

(* A mapped register answers with a word of distinct bytes or not at all.  *)
MCAnswers == {27, None}
MCNoDevice == {}

-----------------------------------------------------------------------------
(* The register file of a program's trace holds what the instruction set   *)
(* defines (rv32iss.py:36-49 and 171-199 make it from numbers without a    *)
(* width): with the registers replayed up to a row, what the row leaves in *)
(* rd is bit for bit the sum, flag or shift of its sources, an immediate   *)
(* being extended by its sign before sltiu compares it as unsigned; and a  *)
(* branch leads away exactly on the flags it names.                        *)
ResultsAsDefined ==
  \A h \in Harts :
    LET rows == RowsOf(h)
    IN \A k \in DOMAIN rows : Retired(rows[k]) =>
         LET r == rows[k]
             i == Decoded[r.word]
             x == Replayed(SubSeq(rows, 1, k - 1))
             a == Bits(x[i.rs1])
             b == Bits(IF i.op \in OPIMM THEN w32(i.imm) ELSE x[i.rs2])
             next == IF k < Len(rows) THEN rows[k + 1].pc ELSE harts[h].pc
         IN /\ i.op \in OPS /\ i.rd # 0 => Bits(r.rd_value) = ReferenceBits(i.op, a, b)
            /\ i.op \in OPIMM /\ i.rd # 0 =>
                 Bits(r.rd_value) = ReferenceBits(Register[i.op], a, b)
            /\ i.op \in BRANCHES =>
                 next = w32(r.pc + (IF ReferenceTaken(i.op, a, b) THEN i.imm ELSE 4))
=============================================================================
