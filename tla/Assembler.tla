------------------------------ MODULE Assembler ------------------------------
(***************************************************************************)
(* tools/rv32asm.py, assemble(): pseudoinstructions are expanded, a first  *)
(* pass gives every statement its address and its size, a second one       *)
(* encodes it into the bytes that were reserved for it.                    *)
(*                                                                         *)
(* A source line is a label, an operation and operands; "" stands for what *)
(* is not there, and the operation of a directive keeps its dot.  Spelling *)
(* (case, spaces, comments, the base of a number) is left out.  What may   *)
(* raise ValueError is a set of results, empty when it does.               *)
(***************************************************************************)
EXTENDS Rv32Encoding, Sequences

CONSTANTS
  Programs,          \* sources: sequences of lines
  MAX_IMAGE_BYTES    \* 2^20 in the code

(* An operand: its spelling, its value if it is a number, and its parts if *)
(* it is offset(base).  A number is a pair, 4096 times the first and the   *)
(* second, so that 32-bit ones fit TLC.  What is left out is no number.    *)
Numbers == SUBSET (Int \X Int)
Operand ==
  {t \in [text : STRING, num : Numbers,
          mem : SUBSET [offset : Int, base : [text : STRING, num : Numbers, mem : {{}}]]] :
     t.text = "" => t.num = {}}
Line == [label : STRING, op : STRING, operands : Seq(Operand)]

ASSUME AssemblerAssumption == MAX_IMAGE_BYTES \in Nat /\ Programs \subseteq Seq(Line)

(* No further than auipc and addi can go.                                  *)
ASSUME ImageAssumption == MAX_IMAGE_BYTES < 2^30

VARIABLES
  source,
  phase,          \* "expand", "layout", "emit"; "written", or which pass raised:
                  \* "layout_failed", "emit_failed"; "aborted", when another
                  \* exception than its own ended it
  at,             \* index of the line or item that is next in this phase
  expanded,       \* lines with pseudoinstructions replaced, each with its number
  pc, items, symbol_table,
  errors,         \* line numbers, one for each diagnostic
  image           \* [size, bytes: address -> bits]; bytes not there are zero
vars == <<source, phase, at, expanded, pc, items, symbol_table, errors, image>>

-----------------------------------------------------------------------------
(* Operands.                                                               *)

Pair(n) == <<n \div 4096, n % 4096>>

Token(text, num, mem) == [text |-> text, num |-> num, mem |-> mem]
Wide(high, low) == Token("wide", {<<high, low>>}, {})
Num(n) == Token(ToString(n), {Pair(n)}, {})
Name(text) == Token(text, {}, {})
Mem(offset, base) == Token("mem", {}, {[offset |-> offset, base |-> base]})

ABI_REGISTERS ==
  [zero |-> 0, ra |-> 1, sp |-> 2, gp |-> 3, tp |-> 4, t0 |-> 5, t1 |-> 6, t2 |-> 7,
   s0 |-> 8, fp |-> 8, s1 |-> 9, a0 |-> 10, a1 |-> 11, a2 |-> 12, a3 |-> 13,
   a4 |-> 14, a5 |-> 15, a6 |-> 16, a7 |-> 17, s2 |-> 18, s3 |-> 19, s4 |-> 20,
   s5 |-> 21, s6 |-> 22, s7 |-> 23, s8 |-> 24, s9 |-> 25, s10 |-> 26, s11 |-> 27,
   t3 |-> 28, t4 |-> 29, t5 |-> 30, t6 |-> 31]

(* A number beyond 2^30 is as good as none, except to 32-bit fields and to *)
(* the sizes of .space.                                                    *)
parse_integer(t) == {p[1] * 4096 + p[2] : p \in {q \in t.num : q[1] \in -(2^18)..2^18 - 1}}

(* A bare number is a register, too.                                       *)
parse_register(t) ==
  {n \in 0..31 : \/ t.text = "x" \o ToString(n)
                 \/ n \in parse_integer(t)
                 \/ t.text \in DOMAIN ABI_REGISTERS /\ ABI_REGISTERS[t.text] = n}

parse_csr(t) == IF t.text = "mhartid" THEN {3860} ELSE parse_integer(t)

(* The order of the letters, and writing one twice, is spelling.           *)
FENCE_BITS ==
  [i |-> 8, o |-> 4, r |-> 2, w |-> 1, io |-> 12, ir |-> 10, iw |-> 9, or |-> 6,
   ow |-> 5, rw |-> 3, ior |-> 14, iow |-> 13, irw |-> 11, orw |-> 7, iorw |-> 15]
parse_fence_mask(t) ==
  IF t.text = "0" THEN {0}
  ELSE IF t.text \in DOMAIN FENCE_BITS THEN {FENCE_BITS[t.text]} ELSE {}

Offset(t) == {m.offset : m \in t.mem}
Base(t) == UNION {parse_register(m.base) : m \in t.mem}

(* "integer targets are relative offsets, symbols absolute"; a label that  *)
(* is spelled like a number is a symbol.                                   *)
resolve_pc_relative(t, address, symbols) ==
  IF t.text \in DOMAIN symbols THEN {symbols[t.text] - address} ELSE parse_integer(t)

-----------------------------------------------------------------------------
(* expand_pseudoinstructions.                                              *)

Statement(op, operands) == [op |-> op, operands |-> operands]
x0 == Name("x0")

Plain(op, a) ==
  CASE op = "nop"  -> Statement("addi", <<x0, x0, Num(0)>>)
    [] op = "ret"  -> Statement("jalr", <<x0, Mem(0, Name("x1"))>>)
    [] op = "mv"   -> Statement("addi", <<a[1], a[2], Num(0)>>)
    [] op = "j"    -> Statement("jal", <<x0, a[1]>>)
    [] op = "jr"   -> Statement("jalr", <<x0, Mem(0, a[1])>>)
    [] op = "beqz" -> Statement("beq", <<a[1], x0, a[2]>>)
    [] op = "bnez" -> Statement("bne", <<a[1], x0, a[2]>>)
    [] op = "neg"  -> Statement("sub", <<a[1], x0, a[2]>>)
    [] op = "not"  -> Statement("xori", <<a[1], a[2], Num(-1)>>)
    [] op = "seqz" -> Statement("sltiu", <<a[1], a[2], Num(1)>>)
    [] op = "snez" -> Statement("sltu", <<a[1], x0, a[2]>>)
    [] op = "csrr" -> Statement("csrrs", <<a[1], a[2], x0>>)
    [] op = "csrw" -> Statement("csrrw", <<x0, a[1], a[2]>>)

Arity ==
  [nop |-> 0, ret |-> 0, mv |-> 2, j |-> 1, jr |-> 1, beqz |-> 2, bnez |-> 2, neg |-> 2,
   not |-> 2, seqz |-> 2, snez |-> 2, csrr |-> 2, csrw |-> 2, li |-> 2]

(* Python's upper and lower of a 32-bit value p: lower is signed, so upper *)
(* is rounded.  Mutant: it is not.                                         *)
Split_Floor(p) == [upper |-> p[1], lower |-> SignExtend(p[2], 12)]
Split(p) ==
  [upper |-> p[1] + (IF p[2] >= 2048 THEN 1 ELSE 0), lower |-> SignExtend(p[2], 12)]

(* The signed value of a literal: unsigned ones with the top bit are       *)
(* negative, what needs more bits is refused.                              *)
Signed32(p) ==
  {q \in {IF p[1] \in 2^19..2^20 - 1 THEN <<p[1] - 2^20, p[2]>> ELSE p} :
     q[1] \in -(2^19)..2^19 - 1}

LoadImmediate(rd, p) ==
  IF p \in {Pair(n) : n \in -2048..2047}
  THEN <<Statement("addi", <<rd, x0, Num(p[1] * 4096 + p[2])>>)>>
  ELSE <<Statement("lui", <<rd, Num(Split(p).upper)>>),
         Statement("addi", <<rd, rd, Num(Split(p).lower)>>)>>

(* What stands before the colon of a line; the colon alone is EmptyLabel,  *)
(* and what follows it is not taken for a pseudoinstruction.               *)
EmptyLabel == ":"
IsPseudo(l) ==
  l.label # EmptyLabel /\ l.op \in DOMAIN Arity /\ Len(l.operands) = Arity[l.op]

Replacements(l) ==
  IF ~IsPseudo(l) THEN {<<Statement(l.op, l.operands)>>}
  ELSE IF l.op = "li"
  THEN {LoadImmediate(l.operands[1], p) : p \in UNION {Signed32(q) : q \in l.operands[2].num}}
  ELSE {<<Plain(l.op, l.operands)>>}

(* Mutant: the label goes to the last instruction.                         *)
Numbered_LabelLast(n, label, statements) ==
  [k \in DOMAIN statements |->
     [line |-> n, label |-> IF k = Len(statements) THEN label ELSE "",
      op |-> statements[k].op, operands |-> statements[k].operands]]

(* The first replacement inherits the label.                               *)
Numbered(n, label, statements) ==
  [k \in DOMAIN statements |->
     [line |-> n, label |-> IF k = 1 THEN label ELSE "",
      op |-> statements[k].op, operands |-> statements[k].operands]]

(* A literal that is refused takes the line with it, its label too.        *)
ExpandLine ==
  /\ phase = "expand" /\ at <= Len(source)
  /\ LET l == source[at]
     IN \/ \E s \in Replacements(l) :
             /\ expanded' = expanded \o Numbered(at, l.label, s)
             /\ UNCHANGED errors
        \/ /\ Replacements(l) = {}
           /\ errors' = Append(errors, at)
           /\ UNCHANGED expanded
  /\ at' = at + 1
  /\ UNCHANGED <<source, phase, pc, items, symbol_table, image>>

StartLayout ==
  /\ phase = "expand" /\ at > Len(source)
  /\ phase' = "layout" /\ at' = 1
  /\ UNCHANGED <<source, expanded, pc, items, symbol_table, errors, image>>

-----------------------------------------------------------------------------
(* layout_source.                                                          *)

WIDTH ==
  [op \in {".byte", ".half", ".word"} |-> IF op = ".byte" THEN 1 ELSE IF op = ".half" THEN 2 ELSE 4]
Directives == {".text", ".space", ".org", ".bogus"} \cup DOMAIN WIDTH

(* A size beyond 2^30 is past every image, and one byte past is enough.    *)
Huge(t) == {q \in t.num : q[1] >= 2^18}
Sizes(t) == (parse_integer(t) \cap Nat) \cup {MAX_IMAGE_BYTES + 1 : q \in Huge(t)}

directive_reservation(op, operands) ==
  IF op \in DOMAIN WIDTH THEN WIDTH[op] * Len(operands)
  ELSE LET counts == IF op = ".space" /\ Len(operands) = 1 THEN Sizes(operands[1]) ELSE {}
       IN IF counts = {} THEN 0 ELSE CHOOSE n \in counts : TRUE

(* Mutant: la is taken for one instruction.                                *)
Size_LaIsOne(op, operands) ==
  IF op \in Directives THEN directive_reservation(op, operands) ELSE 4
Size(op, operands) ==
  IF op \in Directives THEN directive_reservation(op, operands)
  ELSE IF op = "la" THEN 8 ELSE 4

Item(kind, l, size) ==
  [kind |-> kind, line |-> l.line, address |-> pc, op |-> l.op,
   operands |-> l.operands, size |-> size]

Labels(l) == l.label \notin {"", EmptyLabel}

(* Not backward, and not past the largest image.                           *)
Origin(operands) ==
  IF Len(operands) # 1 THEN {}
  ELSE {n \in parse_integer(operands[1]) : n \in pc..MAX_IMAGE_BYTES}

(* The label part of a line: only the first of a name counts.              *)
LabelErrors(l) ==
  IF l.label = EmptyLabel \/ (Labels(l) /\ l.label \in DOMAIN symbol_table)
  THEN <<l.line>> ELSE <<>>
LabelItems(l) == IF Labels(l) THEN <<Item("label", [l EXCEPT !.op = ""], 0)>> ELSE <<>>
Defined(l) ==
  [s \in DOMAIN symbol_table \cup (IF Labels(l) THEN {l.label} ELSE {}) |->
     IF s \in DOMAIN symbol_table THEN symbol_table[s] ELSE pc]

LayLine ==
  /\ phase = "layout" /\ at <= Len(expanded)
  /\ symbol_table' = Defined(expanded[at])
  /\ at' = at + 1
  /\ UNCHANGED <<source, phase, expanded, image>>

LayBlank ==
  /\ LayLine
  /\ LET l == expanded[at]
     IN /\ l.op = "" /\ l.label # EmptyLabel
        /\ items' = items \o LabelItems(l)
        /\ errors' = errors \o LabelErrors(l)
  /\ UNCHANGED pc

(* A colon with nothing before it is noted, and with nothing after it the  *)
(* mnemonic is looked for all the same: the IndexError is caught nowhere,  *)
(* and what was noted is not reported.                                     *)
LayBareColon ==
  /\ phase = "layout" /\ at <= Len(expanded)
  /\ expanded[at].op = "" /\ expanded[at].label = EmptyLabel
  /\ errors' = Append(errors, expanded[at].line)
  /\ phase' = "aborted"
  /\ UNCHANGED <<source, at, expanded, pc, items, symbol_table, image>>

(* .org that is refused leaves the counter where it is.                    *)
LayOrg ==
  /\ LayLine
  /\ LET l == expanded[at]
     IN /\ l.op = ".org"
        /\ items' = items \o LabelItems(l) \o <<Item("org", l, 0)>>
        /\ \/ /\ pc' \in Origin(l.operands)
              /\ errors' = errors \o LabelErrors(l)
           \/ /\ Origin(l.operands) = {}
              /\ errors' = errors \o LabelErrors(l) \o <<l.line>>
              /\ UNCHANGED pc

(* Past the end of the largest image the counter goes on.                  *)
LayStatement ==
  /\ LayLine
  /\ LET l == expanded[at]
         kind == IF l.op \in Directives THEN "directive" ELSE "instruction"
         size == Size(l.op, l.operands)
     IN /\ l.op \notin {"", ".org"}
        /\ items' = items \o LabelItems(l) \o <<Item(kind, l, size)>>
        /\ pc' = pc + size
        /\ errors' = errors \o LabelErrors(l)
                       \o (IF pc' > MAX_IMAGE_BYTES THEN <<l.line>> ELSE <<>>)

(* Errors up to here end it: nothing is emitted.                           *)
EndLayout ==
  /\ phase = "layout" /\ at > Len(expanded)
  /\ at' = 1
  /\ phase' = IF errors = <<>> THEN "emit" ELSE "layout_failed"
  /\ image' = IF errors = <<>> THEN [image EXCEPT !.size = pc] ELSE image
  /\ UNCHANGED <<source, expanded, pc, items, symbol_table, errors>>

-----------------------------------------------------------------------------
(* Emission.  Data is a function from 0..size-1 to bytes, a byte the set   *)
(* of its one bits.                                                        *)

Byte(bits, k) == {b \in 0..7 : 8 * k + b \in bits}
Little4(word) == [k \in 0..3 |-> Byte(word, k)]

(* What the value of an operand is, and whether width bytes hold it.  A    *)
(* label is only known to .word.                                           *)
DataValue(t, width, symbols) ==
  IF width = 4 /\ t.text \in DOMAIN symbols THEN {Pair(symbols[t.text])} ELSE t.num
Holds(p, width) ==
  IF width = 4 THEN p[1] \in -(2^19)..2^20 - 1
  ELSE /\ p[1] \in -8..15
       /\ p[1] * 4096 + p[2] \in -(2^(8 * width - 1))..2^(8 * width) - 1
DataBits(t, width, symbols) ==
  UNION {Field(p[1], 20, 12) \cup Field(p[2], 12, 0) : p \in DataValue(t, width, symbols)}

encode_data_values(operands, width, symbols) ==
  IF /\ operands # <<>>
     /\ \A i \in DOMAIN operands : \E p \in DataValue(operands[i], width, symbols) : Holds(p, width)
  THEN {[k \in 0..width * Len(operands) - 1 |->
           Byte(DataBits(operands[(k \div width) + 1], width, symbols), k % width)]}
  ELSE {}

directive_handler(op, operands, symbols) ==
  IF op \in DOMAIN WIDTH THEN encode_data_values(operands, WIDTH[op], symbols)
  ELSE IF op = ".space" /\ Len(operands) = 1
  THEN {[k \in 0..n - 1 |-> {}] : n \in {m \in parse_integer(operands[1]) : m >= 0}}
  ELSE IF op = ".text" /\ operands = <<>> THEN {[k \in 0..-1 |-> {}]}
  ELSE {}

(* auipc and addi, from the address of the auipc.                          *)
encode_la(operands, address, symbols) ==
  IF Len(operands) < 2 \/ operands[2].text \notin DOMAIN symbols THEN {}
  ELSE LET s == Split(Pair(symbols[operands[2].text] - address))
       IN {[k \in 0..7 |-> IF k < 4 THEN Byte(w[1], k) ELSE Byte(w[2], k - 4)] :
             w \in UNION {pack_u(rd, s.upper, OP_AUIPC)
                            \X pack_i(rd, rd, 0, s.lower, OP_OPIMM)
                          : rd \in parse_register(operands[1])}}

(* instruction_handler, its first half: what the operands of each format   *)
(* are parsed to.                                                          *)
Operands(rds, rs1s, rs2s, imms) == [rd : rds, rs1 : rs1s, rs2 : rs2s, imm : imms]

Parsed(m, a, address, symbols) ==
  LET fmt == ENC[m].fmt
      n == Len(a)
      Target(t) == resolve_pc_relative(t, address, symbols)
      memory == fmt = "I" /\ n = 2 /\ ENC[m].opcode \in {OP_LOAD, OP_JALR}
  IN CASE fmt = "R" /\ n = 3 ->
            Operands(parse_register(a[1]), parse_register(a[2]), parse_register(a[3]), {0})
       [] memory -> Operands(parse_register(a[1]), Base(a[2]), {0}, Offset(a[2]))
       [] fmt = "I" /\ n = 3 /\ ENC[m].opcode # OP_LOAD ->
            Operands(parse_register(a[1]), parse_register(a[2]), {0}, parse_integer(a[3]))
       [] fmt = "S" /\ n = 2 -> Operands({0}, Base(a[2]), parse_register(a[1]), Offset(a[2]))
       [] fmt = "B" /\ n = 3 ->
            Operands({0}, parse_register(a[1]), parse_register(a[2]), Target(a[3]))
       [] fmt = "U" /\ n = 2 -> Operands(parse_register(a[1]), {0}, {0}, parse_integer(a[2]))
       [] fmt = "J" /\ n = 2 -> Operands(parse_register(a[1]), {0}, {0}, Target(a[2]))
       [] fmt = "SYS0" /\ n = 0 -> Operands({0}, {0}, {0}, {0})
       [] fmt = "FENCE" /\ n = 0 -> Operands({0}, {3}, {3}, {0})
       [] fmt = "FENCE" /\ n \in {2, 3} ->
            Operands({0}, parse_fence_mask(a[1]), parse_fence_mask(a[2]),
                     IF n = 3 THEN parse_integer(a[3]) ELSE {0})
       [] fmt = "Z" /\ n = 3 ->
            Operands(parse_register(a[1]),
                     IF m \in {"csrrwi", "csrrsi", "csrrci"} THEN parse_integer(a[3])
                     ELSE parse_register(a[3]),
                     {0}, parse_csr(a[2]))
       [] OTHER -> {}

Words(m, operands, address, symbols) ==
  IF m \notin DOMAIN ENC THEN {}
  ELSE UNION {instruction_handler(m, a) : a \in Parsed(m, operands, address, symbols)}

(* The bytes of an item: none if it is in error.                           *)
Data(item, symbols) ==
  IF item.kind = "directive"
  THEN {d \in directive_handler(item.op, item.operands, symbols) : DOMAIN d = 0..item.size - 1}
  ELSE IF item.op = "la" THEN encode_la(item.operands, item.address, symbols)
  ELSE {Little4(w) : w \in Words(item.op, item.operands, item.address, symbols)}

(* bytearray's slice assignment.                                           *)
Length(d) == IF DOMAIN d = {} THEN 0 ELSE Max(DOMAIN d) + 1
Written(old, address, d) ==
  [size |-> Max({old.size, address + Length(d)}),
   bytes |-> [a \in DOMAIN old.bytes \cup {address + k : k \in DOMAIN d} |->
                IF a - address \in DOMAIN d THEN d[a - address] ELSE old.bytes[a]]]

EmitNothing ==
  /\ phase = "emit" /\ at <= Len(items)
  /\ items[at].kind \in {"label", "org"}
  /\ at' = at + 1
  /\ UNCHANGED <<source, phase, expanded, pc, items, symbol_table, errors, image>>

EmitData ==
  /\ phase = "emit" /\ at <= Len(items)
  /\ items[at].kind \in {"directive", "instruction"}
  /\ \E d \in Data(items[at], symbol_table) : image' = Written(image, items[at].address, d)
  /\ at' = at + 1
  /\ UNCHANGED <<source, phase, expanded, pc, items, symbol_table, errors>>

(* An error is noted, and the pass goes on.                                *)
(* Mutant: it ends the pass.                                               *)
EmitError_Stops ==
  /\ phase = "emit" /\ at <= Len(items)
  /\ items[at].kind \in {"directive", "instruction"}
  /\ Data(items[at], symbol_table) = {}
  /\ errors' = Append(errors, items[at].line)
  /\ at' = Len(items) + 1
  /\ UNCHANGED <<source, phase, expanded, pc, items, symbol_table, image>>

EmitError ==
  /\ phase = "emit" /\ at <= Len(items)
  /\ items[at].kind \in {"directive", "instruction"}
  /\ Data(items[at], symbol_table) = {}
  /\ errors' = Append(errors, items[at].line)
  /\ at' = at + 1
  /\ UNCHANGED <<source, phase, expanded, pc, items, symbol_table, image>>

(* The file is written whole, in words, or not at all.                     *)
Finish ==
  /\ phase = "emit" /\ at > Len(items)
  /\ phase' = IF errors = <<>> THEN "written" ELSE "emit_failed"
  /\ image' = IF errors = <<>> THEN [image EXCEPT !.size = 4 * ((@ + 3) \div 4)] ELSE image
  /\ UNCHANGED <<source, at, expanded, pc, items, symbol_table, errors>>

-----------------------------------------------------------------------------
Init ==
  /\ source \in Programs
  /\ phase = "expand" /\ at = 1
  /\ expanded = <<>> /\ items = <<>> /\ errors = <<>>
  /\ pc = 0
  /\ symbol_table = [s \in {} |-> 0]
  /\ image = [size |-> 0, bytes |-> [a \in {} |-> {}]]

Next ==
  \/ ExpandLine \/ StartLayout
  \/ LayBlank \/ LayBareColon \/ LayOrg \/ LayStatement \/ EndLayout
  \/ EmitNothing \/ EmitData \/ EmitError \/ Finish

Spec == Init /\ [][Next]_vars

-----------------------------------------------------------------------------
(* Properties.                                                             *)

Reserved(i) == items[i].address..items[i].address + items[i].size - 1
Emits(i) == items[i].kind \in {"directive", "instruction"}
Faulty(i) == Emits(i) /\ Data(items[i], symbol_table) = {}
Emitting == phase \in {"emit", "written", "emit_failed"}

(* Both passes agree on every address: what the first reserved is in order *)
(* and does not overlap, the second fills exactly that, and the image      *)
(* never grows or shrinks on the way (assemble's slice assignment would    *)
(* do it silently).                                                        *)
PassesAgree ==
  /\ \A i, j \in DOMAIN items :
       i < j => items[i].address + items[i].size <= items[j].address
  /\ \A i \in DOMAIN items : items[i].address + items[i].size <= pc
  /\ phase = "emit" => image.size = pc
  /\ phase = "written" => image.size \in pc..pc + 3 /\ image.size % 4 = 0
  /\ Emitting => DOMAIN image.bytes = UNION {Reserved(i) : i \in {j \in 1..at - 1 : ~Faulty(j)}}

(* A failing line neither stops the pass nor leaves half of itself in the  *)
(* image (tests: "assembly reports both invalid lines"), no line is        *)
(* dropped, and no file is written with a hole: after the second pass a    *)
(* line has all its bytes, or it is reported, for a fault of its own, and  *)
(* there is no file.                                                       *)
Of(n) == {i \in DOMAIN items : items[i].line = n /\ Emits(i)}
Whole(n) ==
  /\ source[n].op \in {"", ".org"} \/ Of(n) # {}
  /\ \A i \in Of(n) : Reserved(i) \subseteq DOMAIN image.bytes
Diagnosed == {errors[k] : k \in DOMAIN errors}

NoLineLost ==
  phase \in {"written", "emit_failed"} =>
    \A n \in DOMAIN source :
      /\ Whole(n) \/ (n \in Diagnosed /\ phase = "emit_failed")
      /\ n \in Diagnosed => \E i \in Of(n) : Faulty(i)

(* What is wrong with a source is reported, with the lines it is wrong at, *)
(* however many there are (tests: "assembly reports all errors instead of  *)
(* aborting early", "all errors carry source line numbers"): no diagnostic *)
(* is noted and then lost with the exception that ends the assembler.      *)
ErrorsAreReported == phase = "aborted" => errors = <<>>

(* The word of the image at an address, which need not be aligned.         *)
WordAt(a) == UNION {{8 * k + b : b \in image.bytes[a + k]} : k \in 0..3}

Relative == {m \in DOMAIN ENC : ENC[m].fmt \in {"B", "J"}}

(* The token an item names its target by, and where its bytes lead.        *)
TargetOf(i) ==
  LET a == items[i].operands
  IN IF items[i].op = "la" THEN a[2] ELSE a[Len(a)]
LeadsTo(i) ==
  LET a == items[i].address
      word == WordAt(a)
  IN CASE items[i].op = "la" ->
            a + SignExtend(fields(word).imm20, 20) * 4096
              + SignExtend(fields(WordAt(a + 4)).imm12, 12)
       [] items[i].op = "jal" -> a + unpack_j(word)
       [] OTHER -> a + unpack_b(word)

(* Where a label stands in the source: at the statement that comes next.   *)
PlaceOf(label) ==
  LET line == Min({n \in DOMAIN source : source[n].label = label})
      next == {i \in DOMAIN items : items[i].line >= line /\ items[i].kind # "label"}
  IN IF next = {} THEN pc ELSE items[Min(next)].address

(* Decoded from the image, every branch, jump and la leads to the first    *)
(* byte of the statement its label stands before, whatever was expanded or *)
(* skipped between; an integer target leads that far from the instruction. *)
TargetsReached ==
  Emitting =>
    \A i \in 1..at - 1 :
      items[i].op \in Relative \cup {"la"} /\ ~Faulty(i) =>
        LET t == TargetOf(i)
        IN IF \E n \in DOMAIN source : source[n].label = t.text
           THEN LeadsTo(i) = PlaceOf(t.text)
           ELSE LeadsTo(i) - items[i].address \in parse_integer(t)

=============================================================================
