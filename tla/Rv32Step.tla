------------------------------ MODULE Rv32Step ------------------------------
(***************************************************************************)
(* One instruction of one hart (tools/rv32iss.py, Machine.step from the    *)
(* fetch on): the outcomes it may have, each with the hart after it, the   *)
(* row it appends to the trace and the device calls it made.               *)
(*                                                                         *)
(* The machine is scaled down, not simplified: XLEN bits per register and  *)
(* four bytes of XLEN/4 bits per word.  A program is a memory image, and a *)
(* word executes as the instruction that Decoded gives it; one outside     *)
(* Decoded's domain is illegal.                                            *)
(***************************************************************************)
EXTENDS Rv32Alu, Sequences

CONSTANTS
  NREGS,           \* 32 in the code
  RAM_BYTES,       \* bytes of RAM per hart
  DEVICE_BASE,     \* first device address
  U_SHIFT,         \* 12 in the code: where a U-type immediate starts
  Decoded,         \* word -> [op, rd, rs1, rs2, imm]
  DeviceAnswers    \* words a device may return; None: unmapped.  Empty: no callback

ASSUME RegionsAssumption ==
  /\ RAM_BYTES \in Nat /\ RAM_BYTES % 4 = 0 /\ 0 < RAM_BYTES
  /\ DEVICE_BASE \in Nat /\ RAM_BYTES <= DEVICE_BASE /\ DEVICE_BASE < 2^XLEN

(* An absent value, and an empty field of a trace row.                     *)
None == -1

BYTE == 2^(XLEN \div 4)
Registers == 0..NREGS - 1
Memories == [0..RAM_BYTES - 1 -> 0..BYTE - 1]

(* A decoded instruction names registers there are.                        *)
ASSUME InstructionsAssumption ==
  /\ NREGS \in Nat \ {0} /\ U_SHIFT \in 0..XLEN - 1
  /\ DeviceAnswers \subseteq Int
  /\ \A i \in {Decoded[word] : word \in DOMAIN Decoded} :
       i.rd \in Registers /\ i.rs1 \in Registers /\ i.rs2 \in Registers /\ i.imm \in Int

LOADS  == [lb |-> 1, lbu |-> 1, lh |-> 2, lhu |-> 2, lw |-> 4]
STORES == [sb |-> 1, sh |-> 2, sw |-> 4]

HartWith(image) ==
  [x |-> [n \in Registers |-> 0], pc |-> 0, halted |-> "no", mem |-> image]

reg_read(h, n) == IF n = 0 THEN 0 ELSE h.x[n]
(* Mutant: x0 is written like any register.                                *)
reg_write_X0(h, n, value) == [h EXCEPT !.x[n] = w32(value)]
reg_write(h, n, value) == IF n = 0 THEN h ELSE [h EXCEPT !.x[n] = w32(value)]

(* size bytes, the first the least significant.                            *)
BytesAt(mem, addr, size) == SumFunction([i \in 0..size - 1 |-> mem[addr + i] * BYTE^i])

-----------------------------------------------------------------------------
(* Trace rows.                                                             *)

Row(id, pc, word, rd, rd_value, mem_op, addr, size, value, halt) ==
  [hart |-> id, pc |-> pc, word |-> word, rd |-> rd, rd_value |-> rd_value,
   mem_op |-> mem_op, addr |-> addr, size |-> size, value |-> value,
   halt |-> halt]

HaltRow(id, reason, pc, word) ==
  Row(id, pc, word, None, None, "", None, None, None, reason)

Outcome(h, row, calls) == [hart |-> h, row |-> row, calls |-> calls]

(* The hart stops where it is.                                             *)
RecordHalt(id, h, reason, word, calls) ==
  Outcome([h EXCEPT !.halted = reason], HaltRow(id, reason, h.pc, word), calls)

(* The hart moves on, after an instruction that touches no memory.         *)
Retire(id, h, next, word, rd, value) ==
  Outcome(next, Row(id, h.pc, word, rd, value, "", None, None, None, "no"), <<>>)

-----------------------------------------------------------------------------
(* Memory.                                                                 *)

Fault(reason, word, calls) ==
  [fault |-> reason, word |-> word, value |-> None, calls |-> calls]
Transfer(value, calls) ==
  [fault |-> "no", word |-> None, value |-> value, calls |-> calls]

Call(id, addr, is_write, value, size, answer) ==
  [hart |-> id, addr |-> addr, is_write |-> is_write, value |-> value,
   size |-> size, answer |-> answer]

(* A device that is not there, or does not answer, is a bus fault recorded *)
(* without the instruction word.                                           *)
DispatchDevice(id, addr, is_write, value, size) ==
  IF DeviceAnswers = {}
  THEN {Fault("bus", None, <<>>)}
  ELSE {LET call == Call(id, addr, is_write,
                         IF is_write THEN value % BYTE^size ELSE w32(value),
                         size, answer)
        IN IF answer = None THEN Fault("bus", None, <<call>>)
                            ELSE Transfer(w32(answer), <<call>>)
          : answer \in DeviceAnswers}

(* Alignment before region: "Check order is load-bearing".  done(m) is the *)
(* transfer inside RAM, device what the callback makes of it.              *)
Checked(addr, size, word, ram, device) ==
  IF addr % size # 0 THEN {Fault("illegal", word, <<>>)}
  ELSE IF addr + size <= RAM_BYTES THEN {ram}
  ELSE IF addr >= DEVICE_BASE THEN device
  ELSE {Fault("bus", word, <<>>)}

(* The addressed lane of a device's word.                                  *)
Lane(device_word, addr, size) == (device_word \div BYTE^(addr % 4)) % BYTE^size

MemRead(id, h, addr, size, word) ==
  Checked(addr, size, word,
    Transfer(IF addr + size <= RAM_BYTES THEN BytesAt(h.mem, addr, size) ELSE None, <<>>),
    {IF t.fault = "no" THEN [t EXCEPT !.value = Lane(@, addr, size)] ELSE t
       : t \in DispatchDevice(id, addr, FALSE, 0, size)})

MemWrite(id, addr, size, value, word) ==
  Checked(addr, size, word, Transfer(value, <<>>),
          DispatchDevice(id, addr, TRUE, value, size))

(* Mutant: the whole word is written, whatever the width.                  *)
Merged_NoMask(mem, addr, size, value) ==
  [a \in DOMAIN mem |-> IF a \in addr..addr - (addr % 4) + 3
                        THEN (value \div BYTE^(a - addr)) % BYTE
                        ELSE mem[a]]

(* RAM after the low size bytes of value went into their lanes.            *)
Merged(mem, addr, size, value) ==
  [a \in DOMAIN mem |-> IF a \in addr..addr + size - 1
                        THEN (value \div BYTE^(a - addr)) % BYTE
                        ELSE mem[a]]
-----------------------------------------------------------------------------
(* The instruction families.  i is the decoded instruction, word its word. *)

Advance(h) == [h EXCEPT !.pc = w32(@ + 4)]
Source1(h, i) == reg_read(h, i.rs1)
Source2(h, i) == reg_read(h, i.rs2)

(* Mutant: the row shows the result before it is cut to a word.            *)
WriteBack_Uncut(id, h, i, word, result) ==
  {Retire(id, h, Advance(reg_write(h, i.rd, result)), word, i.rd, result)}

(* Writes rd and falls through; the row shows rd as it reads afterwards.   *)
WriteBack(id, h, i, word, result) ==
  LET next == Advance(reg_write(h, i.rd, result))
  IN {Retire(id, h, next, word, i.rd, reg_read(next, i.rd))}

(* Mutant: the immediate reaches the operation as an unsigned word.        *)
Compute_Unsigned(id, h, i, word) ==
  WriteBack(id, h, i, word,
    IF i.op \in OPS THEN OpResult(i.op, Source1(h, i), Source2(h, i))
    ELSE IF i.op \in OPIMM THEN OpImmResult(i.op, Source1(h, i), w32(i.imm))
    ELSE IF i.op = "lui" THEN i.imm * 2^U_SHIFT
    ELSE h.pc + i.imm * 2^U_SHIFT)

Compute(id, h, i, word) ==
  WriteBack(id, h, i, word,
    IF i.op \in OPS THEN OpResult(i.op, Source1(h, i), Source2(h, i))
    ELSE IF i.op \in OPIMM THEN OpImmResult(i.op, Source1(h, i), i.imm)
    ELSE IF i.op = "lui" THEN i.imm * 2^U_SHIFT
    ELSE h.pc + i.imm * 2^U_SHIFT)

(* A load reaches its device even when rd is x0.                           *)
Load(id, h, i, word) ==
  LET size == LOADS[i.op]
      addr == w32(Source1(h, i) + i.imm)
      Loaded(raw) == IF i.op \in {"lb", "lh"}
                     THEN sign_extend(raw, size * (XLEN \div 4)) ELSE raw
      After(raw) == Advance(reg_write(h, i.rd, Loaded(raw)))
  IN {IF t.fault # "no"
      THEN RecordHalt(id, h, t.fault, t.word, t.calls)
      ELSE Outcome(After(t.value),
                   Row(id, h.pc, word, i.rd, reg_read(After(t.value), i.rd),
                       i.op, addr, size, t.value, "no"), t.calls)
        : t \in MemRead(id, h, addr, size, word)}

(* The lanes of a row: the low size bytes, shifted to where addr puts them. *)
(* Mutant: the bytes above the width show.                                 *)
Lanes_Dirty(addr, size, value) == w32(value * BYTE^(addr % 4))
Lanes(addr, size, value) == w32((value % BYTE^size) * BYTE^(addr % 4))

Store(id, h, i, word) ==
  LET size == STORES[i.op]
      addr == w32(Source1(h, i) + i.imm)
      value == Source2(h, i)
      Stored == IF addr < RAM_BYTES
                THEN [h EXCEPT !.mem = Merged(@, addr, size, value)] ELSE h
  IN {IF t.fault # "no"
      THEN RecordHalt(id, h, t.fault, t.word, t.calls)
      ELSE Outcome(Advance(Stored),
                   Row(id, h.pc, word, None, None, i.op, addr, size,
                       Lanes(addr, size, value), "no"), t.calls)
        : t \in MemWrite(id, addr, size, value, word)}

Branch(id, h, i, word) ==
  LET next == IF Taken(i.op, Source1(h, i), Source2(h, i))
              THEN [h EXCEPT !.pc = w32(@ + i.imm)] ELSE Advance(h)
  IN {Retire(id, h, next, word, 0, 0)}

(* Mutant: the link is written first, and the target read after it.        *)
Jump_LinkFirst(id, h, i, word) ==
  LET linked == reg_write(h, i.rd, h.pc + 4)
      sum == Source1(linked, i) + i.imm
      target == IF i.op = "jal" THEN w32(h.pc + i.imm)
                ELSE w32(sum - (sum % 2))
      next == [linked EXCEPT !.pc = target]
  IN {Retire(id, h, next, word, i.rd, reg_read(next, i.rd))}

(* The target is computed before rd is written: jalr x1, 0(x1) jumps to    *)
(* the old x1.                                                             *)
Jump(id, h, i, word) ==
  LET sum == Source1(h, i) + i.imm
      target == IF i.op = "jal" THEN w32(h.pc + i.imm)
                ELSE w32(sum - (sum % 2))
      next == reg_write([h EXCEPT !.pc = target], i.rd, h.pc + 4)
  IN {Retire(id, h, next, word, i.rd, reg_read(next, i.rd))}

Executed(id, h, i, word) ==
  IF i.op \in {"ecall", "ebreak"} THEN {RecordHalt(id, h, i.op, word, <<>>)}
  ELSE IF i.op \in OPS \cup OPIMM \cup {"lui", "auipc"} THEN Compute(id, h, i, word)
  ELSE IF i.op \in DOMAIN LOADS THEN Load(id, h, i, word)
  ELSE IF i.op \in DOMAIN STORES THEN Store(id, h, i, word)
  ELSE IF i.op \in BRANCHES THEN Branch(id, h, i, word)
  ELSE IF i.op \in {"jal", "jalr"} THEN Jump(id, h, i, word)
  ELSE IF i.op = "fence" THEN {Retire(id, h, Advance(h), word, 0, 0)}
  ELSE {}

Misaligned(h) == h.pc % 4 # 0
OutOfRange(h) == h.pc + 4 > RAM_BYTES
Fetched(h) == BytesAt(h.mem, h.pc, 4)

(* What a step of the running hart h can come to: no outcome at all when   *)
(* the instruction is legal and its family not implemented.                *)
Outcomes(id, h) ==
  IF Misaligned(h) THEN {RecordHalt(id, h, "illegal", None, <<>>)}
  ELSE IF OutOfRange(h) THEN {RecordHalt(id, h, "bus", None, <<>>)}
  ELSE IF Fetched(h) \notin DOMAIN Decoded
  THEN {RecordHalt(id, h, "illegal", Fetched(h), <<>>)}
  ELSE Executed(id, h, Decoded[Fetched(h)], Fetched(h))

=============================================================================
