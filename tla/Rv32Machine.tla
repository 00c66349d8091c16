---------------------------- MODULE Rv32Machine ----------------------------
(***************************************************************************)
(* tools/rv32iss.py, Machine: HART_COUNT harts with private RAM, one trace *)
(* and one budget of retired instructions, driven by run() under one of    *)
(* its schedules or by a client that calls step() itself.                  *)
(***************************************************************************)
EXTENDS Rv32Step, FiniteSets, SequencesExt

CONSTANTS
  HART_COUNT,
  Setups        \* what is loaded and asked: [images, max_steps, mode, script]

Harts == 0..HART_COUNT - 1

ASSUME MachineAssumption ==
  /\ HART_COUNT \in Nat \ {0}
  /\ Setups \subseteq [images : [Harts -> Memories], max_steps : Nat,
                       mode : {"rr", "random", "script", "client"}, script : Seq(Int)]

VARIABLES
  harts,       \* hart id -> [x, pc, halted, mem]
  max_steps,
  trace,       \* rows, oldest first
  steps,       \* instructions retired by all harts
  calls,       \* external: what the device callback was asked, oldest first
  mode,        \* how the machine is driven
  next_hart,   \* run('rr'): whose turn it is
  script,      \* run(sequence): the harts still to be stepped
  status       \* "running", "returned", or "raised" by an exception

machineVars == <<harts, trace, steps, calls>>
vars == <<harts, max_steps, trace, steps, calls, mode, next_hart, script, status>>

-----------------------------------------------------------------------------
Init ==
  /\ \E s \in Setups :
       /\ harts = [h \in Harts |-> HartWith(s.images[h])]
       /\ max_steps = s.max_steps /\ mode = s.mode /\ script = s.script
  /\ trace = <<>> /\ steps = 0 /\ calls = <<>>
  /\ next_hart = 0
  /\ status = "running"

Active == {h \in Harts : harts[h].halted = "no"}
BudgetSpent == steps >= max_steps

(* The items whose field has one of some values, in their order; and the   *)
(* rows, or the device calls, of some harts.                               *)
Kept(items, field, values) ==
  FoldLeft(LAMBDA kept, item : IF item[field] \in values THEN Append(kept, item) ELSE kept,
           <<>>, items)
ItemsOf(items, ids) == Kept(items, "hart", ids)

(* Every hart of hs that still runs is stopped, in the order of the ids.   *)
Stopped(hs) ==
  [h \in Harts |-> IF hs[h].halted = "no" THEN [hs[h] EXCEPT !.halted = "budget"]
                                          ELSE hs[h]]
(* Mutant: harts that had halted before get a second halt row.             *)
BudgetRows_All(hs) ==
  [k \in 1..HART_COUNT |-> HaltRow(k - 1, "budget", hs[k - 1].pc, None)]
BudgetRows(hs) ==
  ItemsOf([k \in 1..HART_COUNT |-> HaltRow(k - 1, "budget", hs[k - 1].pc, None)],
          {h \in Harts : hs[h].halted = "no"})

HaltAtBudget ==
  /\ harts' = Stopped(harts)
  /\ trace' = trace \o BudgetRows(harts)
  /\ UNCHANGED <<steps, calls>>

(* Mutants: the budget is looked at only before a step; a store reaches    *)
(* every hart's RAM.                                                       *)
Take_BudgetLater(h, o) ==
  /\ harts' = [harts EXCEPT ![h] = o.hart]
  /\ trace' = Append(trace, o.row)
  /\ steps' = IF o.row.halt = "no" THEN steps + 1 ELSE steps
  /\ calls' = calls \o o.calls

Take_SharedRam(h, o) ==
  LET after == [g \in Harts |-> IF g = h THEN o.hart
                                ELSE [harts[g] EXCEPT !.mem = o.hart.mem]]
      retired == o.row.halt = "no"
      spent == retired /\ steps + 1 >= max_steps
  IN /\ harts' = IF spent THEN Stopped(after) ELSE after
     /\ trace' = Append(trace, o.row) \o (IF spent THEN BudgetRows(after) ELSE <<>>)
     /\ steps' = IF retired THEN steps + 1 ELSE steps
     /\ calls' = calls \o o.calls

(* One outcome of hart h's instruction.  The retirement that spends the    *)
(* budget also stops everyone.                                             *)
Take(h, o) ==
  LET after == [harts EXCEPT ![h] = o.hart]
      retired == o.row.halt = "no"
      spent == retired /\ steps + 1 >= max_steps
  IN /\ harts' = IF spent THEN Stopped(after) ELSE after
     /\ trace' = Append(trace, o.row) \o (IF spent THEN BudgetRows(after) ELSE <<>>)
     /\ steps' = IF retired THEN steps + 1 ELSE steps
     /\ calls' = calls \o o.calls

(* Machine.step: False for a halted hart, an exception for an instruction  *)
(* whose family is not implemented.                                        *)
Step(h) ==
  \/ /\ h \notin Active
     /\ UNCHANGED <<machineVars, status>>
  \/ /\ h \in Active /\ BudgetSpent
     /\ HaltAtBudget
     /\ UNCHANGED status
  \/ /\ h \in Active /\ ~BudgetSpent
     /\ \E o \in Outcomes(h, harts[h]) : Take(h, o)
     /\ UNCHANGED status
  \/ /\ h \in Active /\ ~BudgetSpent
     /\ Outcomes(h, harts[h]) = {}
     /\ status' = "raised"
     /\ UNCHANGED machineVars

-----------------------------------------------------------------------------
(* run(): one action per way through the body of its loop.                 *)

Return == status' = "returned"

MoreToDo == IF mode = "script" THEN script # <<>> ELSE Active # {}

Finish ==
  /\ status = "running" /\ mode # "client" /\ ~MoreToDo
  /\ Return
  /\ UNCHANGED <<machineVars, max_steps, mode, next_hart, script>>

(* Mutant: the loop breaks without stopping the harts.                     *)
OutOfBudget_Breaks ==
  /\ status = "running" /\ mode # "client" /\ MoreToDo /\ BudgetSpent
  /\ Return
  /\ UNCHANGED <<machineVars, max_steps, mode, next_hart, script>>

OutOfBudget ==
  /\ status = "running" /\ mode # "client" /\ MoreToDo /\ BudgetSpent
  /\ HaltAtBudget
  /\ Return
  /\ UNCHANGED <<max_steps, mode, next_hart, script>>

Looping(schedule) ==
  status = "running" /\ mode = schedule /\ MoreToDo /\ ~BudgetSpent

(* Mutant: the turn waits for a hart that has halted.                      *)
RoundRobin_Waits ==
  /\ Looping("rr")
  /\ IF next_hart \in Active
     THEN Step(next_hart) /\ next_hart' = (next_hart + 1) % HART_COUNT
     ELSE UNCHANGED <<machineVars, status, next_hart>>
  /\ UNCHANGED <<max_steps, mode, script>>

(* The turn passes on whether or not the hart still runs.                  *)
RoundRobin ==
  /\ Looping("rr")
  /\ next_hart' = (next_hart + 1) % HART_COUNT
  /\ IF next_hart \in Active THEN Step(next_hart)
                             ELSE UNCHANGED <<machineVars, status>>
  /\ UNCHANGED <<max_steps, mode, script>>

(* rng.choice(active_harts).                                               *)
RandomChoice ==
  /\ Looping("random")
  /\ \E h \in Active : Step(h)
  /\ UNCHANGED <<max_steps, mode, next_hart, script>>

(* The next ID of the sequence; an ID that is no hart raises IndexError.   *)
Scripted ==
  /\ Looping("script")
  /\ script' = Tail(script)
  /\ IF Head(script) \in Harts THEN Step(Head(script))
     ELSE status' = "raised" /\ UNCHANGED machineVars
  /\ UNCHANGED <<max_steps, mode, next_hart>>

(* A client that drives the machine by step(), and may use it after run(). *)
ClientStep ==
  /\ mode = "client" \/ status = "returned"
  /\ \E h \in Harts : Step(h)
  /\ UNCHANGED <<max_steps, mode, next_hart, script>>

RunNext == Finish \/ OutOfBudget \/ RoundRobin \/ RandomChoice \/ Scripted
Next == RunNext \/ ClientStep

Spec == Init /\ [][Next]_vars

(* run() is a loop of one thread: it goes on until it returns.             *)
FairSpec == Spec /\ WF_vars(RunNext)

-----------------------------------------------------------------------------
(* Properties.                                                             *)

RowsOf(h) == ItemsOf(trace, {h})
CallsOf(h) == ItemsOf(calls, {h})
Retired(r) == r.halt = "no"
Images == {s.images[h] : s \in Setups, h \in Harts}

(* Registers and memory hold words and bytes, and the counters count.      *)
TypeOK ==
  /\ \A h \in Harts :
       /\ harts[h].x \in [Registers -> Word] /\ harts[h].x[0] = 0
       /\ harts[h].pc \in Word
       /\ harts[h].halted \in {"no", "ebreak", "ecall", "illegal", "budget", "bus"}
       /\ harts[h].mem \in Memories
  /\ steps \in Nat /\ next_hart \in Harts
  /\ status \in {"running", "returned", "raised"}

(* The trace is a complete record: whoever replays its rd columns from     *)
(* zeroed registers has the hart's registers.                              *)
Replayed(rows) ==
  FoldLeft(LAMBDA x, r : IF r.rd \in {None, 0} THEN x ELSE [x EXCEPT ![r.rd] = r.rd_value],
           [n \in Registers |-> 0], rows)
RegistersFollowTrace == \A h \in Harts : harts[h].x = Replayed(RowsOf(h))

(* And has its control flow: with the registers replayed up to a row, the  *)
(* row's instruction leads to the pc of the next one, or of the hart.      *)
Successor(x, r) ==
  LET i == Decoded[r.word]
  IN w32(IF i.op \in BRANCHES /\ Taken(i.op, x[i.rs1], x[i.rs2]) THEN r.pc + i.imm
         ELSE IF i.op = "jal" THEN r.pc + i.imm
         ELSE IF i.op = "jalr" THEN ((x[i.rs1] + i.imm) \div 2) * 2
         ELSE r.pc + 4)
PcFollowsTrace ==
  \A h \in Harts :
    LET rows == RowsOf(h)
    IN \A k \in DOMAIN rows : Retired(rows[k]) =>
         Successor(Replayed(SubSeq(rows, 1, k - 1)), rows[k]) =
           IF k < Len(rows) THEN rows[k + 1].pc ELSE harts[h].pc

(* docs/cpu-contract.md, section 6: lanes are "the low size bytes of rs2   *)
(* shifted into the byte lanes selected by addr[1:0]".  Replaying the RAM  *)
(* stores of the trace, lane by lane, onto some initial image gives the    *)
(* hart's memory.                                                          *)
StoredByRow(mem, r) ==
  IF r.mem_op \in DOMAIN STORES /\ r.addr < RAM_BYTES
  THEN [a \in DOMAIN mem |-> IF a \in r.addr..r.addr + r.size - 1
                              THEN (r.value \div BYTE^(a % 4)) % BYTE
                              ELSE mem[a]]
  ELSE mem
MemoryFollowsTrace ==
  \A h \in Harts : \E image \in Images :
    harts[h].mem = FoldLeft(StoredByRow, image, RowsOf(h))

(* Device accesses happen once, in trace order, and as traced: a call that *)
(* was answered has its row, with the lanes the callback was given or the  *)
(* lane of the word it gave; one that was not has a bus halt after it.     *)
(* None is misaligned ("Check order is load-bearing: alignment before      *)
(* region").                                                               *)
DeviceRows == Kept(trace, "addr", DEVICE_BASE..2^XLEN - 1)
AnsweredCalls == Kept(calls, "answer", DeviceAnswers \ {None})
Matches(r, c) ==
  /\ r.hart = c.hart /\ r.addr = c.addr /\ r.size = c.size
  /\ c.is_write = (r.mem_op \in DOMAIN STORES)
  /\ r.value = IF c.is_write THEN c.value * BYTE^(r.addr % 4)
                             ELSE Lane(c.answer, c.addr, c.size)
DeviceCallsTraced ==
  /\ Len(DeviceRows) = Len(AnsweredCalls)
  /\ \A k \in DOMAIN DeviceRows : Matches(DeviceRows[k], AnsweredCalls[k])
  /\ \A c \in Range(calls) : /\ c.addr % c.size = 0
                             /\ c.answer = None => harts[c.hart].halted = "bus"

(* A hart has a halt row exactly when it has halted; it is its last row,   *)
(* gives the reason, and shows the pc the hart stays at.                   *)
HaltRowIsLast ==
  \A h \in Harts :
    LET rows == RowsOf(h)
    IN /\ \A k \in 1..Len(rows) - 1 : Retired(rows[k])
       /\ harts[h].halted # "no" =>
            rows # <<>> /\ Last(rows).halt = harts[h].halted /\ Last(rows).pc = harts[h].pc
       /\ harts[h].halted = "no" /\ rows # <<>> => Retired(Last(rows))

(* The budget is exact: steps counts the retirement rows and never passes  *)
(* max_steps; the retirement that reaches it stops every hart at once, and *)
(* nothing is stopped for the budget before.                               *)
BudgetIsExact ==
  /\ steps = Cardinality({k \in DOMAIN trace : Retired(trace[k])})
  /\ steps <= max_steps
  /\ BudgetSpent /\ trace # <<>> => Active = {}
  /\ \A r \in Range(trace) : r.halt = "budget" => BudgetSpent

(* Every run() comes to an end: the budget ends what does not halt.  It    *)
(* leaves no hart running, but for a scripted one.                         *)
RunReturns ==
  mode # "client" ~> \/ status = "raised"
                     \/ status = "returned" /\ (mode = "script" \/ Active = {})

(* tests: "final registers and private memories ignore schedule".  Under   *)
(* every schedule each hart does what it would do alone.                   *)
Lone(h) == INSTANCE Rv32Hart
  WITH Id <- h, hart <- harts[h], rows <- RowsOf(h), calls <- CallsOf(h)

ScheduleIndependent ==
  /\ \A h \in Harts : Lone(h)!AloneInit
  /\ [][\A h \in Harts : [Lone(h)!AloneNext]_<<harts[h], RowsOf(h), CallsOf(h)>>]_vars

(* docs/cpu-contract.md, "Cosimulation trace format": "inst_word is the    *)
(* fetched word when one was available".  A halt row lacks the word only   *)
(* if there was none: the budget, or a pc that cannot be fetched from.     *)
InstWordWhenFetched ==
  \A k \in DOMAIN trace :
    trace[k].word = None =>
      \/ trace[k].halt = "budget"
      \/ trace[k].pc % 4 # 0
      \/ trace[k].pc + 4 > RAM_BYTES

=============================================================================
